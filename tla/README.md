# A TLA+ model of secreq

secreq keeps secrets out of files and environments: a command that needs one
is started through a *wrap* or `secreq run`, a per-user daemon asks a person
whether the command may have it, fetches the value from a *provider* (1Password,
a keychain, a shell command) and hands it over for the life of the process.  The
daemon is a multi-threaded Rust program (`src/packages/secreq/src/daemon`): one
thread per connection, one worker per approved entry, a main loop that ticks,
child processes for the windows, and a web server for linked phones.  Around it
are an ssh agent, a scoped agent for sandboxes, automatic rules, an audit log, a
masking process supervisor, and the migrations and setup commands that write the
user's files.  What the system promises is simple, *no secret without consent,
one answer per ask, no ask left hanging, nothing of the user's lost*, and it is
promised across short critical sections, several processes and crashes.  This
directory models those and checks the promises.

Paths below are relative to `src/packages/secreq/src/` unless they start with
`src/`.

## 1. Inventory

| component | state | operations | interacts with | hard part |
|---|---|---|---|---|
| secret value cache, `daemon/cache.rs` | encrypted values by (provider, locator), each with an optional ttl | `put`, `get`, `prune_expired` | resolvers, main loop | expiry between a check and its use |
| singleflight, `daemon/in_flight.rs` | a slot per key being fetched: mutex, condvar, Pending/Ready/Failed | `acquire`, `wait`, the guard's `drop` | resolvers | lost wake-ups, circular waiting, double fetch |
| resolvers, `daemon/state.rs`, `resolve.rs` | guards held, values collected | `resolve_for_ask`, `resolve_union`, `resolve_single_cached`, `resolve_all` | cache, singleflight, providers | partial failure; guards held across `acquire` |
| consent queue, `daemon/state.rs`, `daemon/server.rs` | queue entries by dedupe key, resolving cards, remembered approvals, session releases | `handle_ask`, `submit_ask`, `resolve_with_device`, `resolve_remote`, `withdraw_waiter`, `deny_all_awaiting` | every other part | coalescing, stale decisions, a hang-up against a decision |
| consent window, `daemon/mod.rs`, `daemon/server.rs`, `daemon/child.rs` | subscribers, focus, spawn mark, restart flag, grace clock, abandonment streaks | spawn, attach, restart, auto-hide, dismiss, detach | queue, main loop | no window for a waiting ask; a window that never goes |
| prompt UI, `daemon/prompt_ui.rs` | the last snapshot, the current row | render, approve, deny, grant | window socket | a decision on a stale snapshot |
| manager window, `daemon/manager_ui.rs`, `daemon/ui.rs` | audit cache, search, suggestions, rule form | read, search, suggest, edit, dismiss | audit log, rules | what is learnt from which rows |
| providers, `provider.rs`, `resolve.rs` | none | run a command, parse a batch, store | resolvers, `run` | one bad item in a batch |
| ssh agent, `daemon/ssh_agent.rs` | session grants with an expiry, sign waiters, permits | list, sign, grant, revoke | queue, resolvers, provenance | a grant at its expiry; a timeout against a decision |
| provenance, `provenance.rs`, `daemon/peercred.rs` | none | walk the peer's ancestry, choose the anchor | queue, ssh agent | an anchor that reaches too far |
| scoped agent, `scoped_agent/` | the scope, grants with an expiry, permits, a socket path | open, serve, ask, remember, reclaim | consent daemon | shared prompts, the clock, the permits |
| linked devices, `link/` | paired devices, pairing token, nonces, event streams | pair, watch, decide, revoke | queue | replay, a slow page, one token and two phones |
| rules, `rules.rs`, `wasm_rules.rs`, `rule_health.rs` | the file, the modules beside it, the daemon's copy | evaluate, create, edit, register, delete, reload | queue, manager, editors | an edit against a save; two files and a crash |
| audit log and statistics, `audit.rs`, `rule_stats.rs`, `recommendations.rs` | an append-only file | append, read, replay, suggest | all | writers without a lock |
| daemon lifecycle, `daemon/mod.rs`, `daemon/client.rs`, `commands/daemon.rs` | pid file and its flock, socket path, spawn lock, activity clock | start, idle exit, stop, force-stop, spawn by a client | all | two daemons; an ask during the exit |
| execution and masking, `commands/run.rs`, `exec.rs`, `mask.rs` | environment, pipes, the redactor's carry, guardian | run, mask, census, guard | consent, providers | a secret split over two reads; survivors |
| configuration, `wraps.rs`, `reference.rs`, `manifest.rs` | declared secrets, providers, wraps | load, check, resolve a reference | `run`, wraps | two forms of one reference |
| migrations, `migrate/`, `atomic.rs` | files, snapshots, stamped level, lock | migrate, snapshot, restore | every command | a kill half way, an edit in between |
| host setup, `commands/config.rs`, `init.rs`, `commands/ssh.rs`, `shim.rs`, `ssh_setup.rs`, `path_setup.rs` | shims, config entries, blocks in dotfiles | wrap, unwrap, init, ssh setup, doctor | migrations | two files per command; the user's own text |
| phone page, rule SDK, site | a page | render, sign, send | link | the page only |

How they meet: a client connects and its thread runs `handle_ask`; that puts
what the kernel says of the peer in place of what the client claims, looks at
approvals, rules and session releases, each under the `State` mutex but never
two of them under one lock, then puts the ask on the queue and makes sure a
window child exists.  The child is told of every change by `ConsentUpdate` and
answers on its own socket; a phone does the same over HTTP with a signature.
A decision is one critical section, after which a worker resolves the union of
the entry's secrets and answers every waiter.  The cache and the singleflight
map have mutexes of their own, below the `State` mutex.  Meanwhile clients may
hang up, windows die, values expire, the rules file is saved by hand, and the
main loop ticks.  Outside the daemon, every foreground command passes the
migration gate, reads the configuration, asks, and runs its child.

What makes each part right:

* resolvers: one fetch per key at a time; a waiter is always woken, and with
  the value there; a reply covers every entry; a failure has a cause; a call
  returns.
* queue: every release has an authority; a client gets its own secrets; one
  outcome per ask; no waiter is dropped; cards are cleared.
* window: a waiting ask gets a window whatever happened to earlier ones; an
  empty window goes.
* ssh agent: every signature has an authority for its challenge, its key and its
  anchor; a silent one stays in its session; a sign that is given up leaves
  nothing behind; every client is served.
* scoped agent: what is released was shown; grants end; the backlog drains.
* link: one token, one device; one decision per request, as signed; an attached
  page is current.
* rules: a verdict is what some version of the file means under some version of
  the configuration; edits keep what they do not name; a rule keeps its module.
* audit and learning: the history is the log's; a replay under the same rules
  agrees; a learned rule has a precedent.
* lifecycle: one daemon; an idle exit strands nobody.
* execution: the output is masked as if in one piece; the child's environment
  is the one that was meant; survivors keep their reader; secreq returns.
* migrations and setup: nothing the user wrote disappears; a stamp means done;
  the user's lines stay; no shim without its wrap.

`PROJECT.json` lists the hazards at their lines with the properties that would
catch them.

## 2. Modules

| module | what it is |
|---|---|
| `SecretResolution` | cache, singleflight and the three resolvers |
| `OneShotConsent` | abstract: what the daemon promises the client of an ask |
| `Provenance` | operators: the chain of callers and the anchor of an approval |
| `ConsentBroker` | the decision path of an ask; extends `Provenance`, implements `OneShotConsent` |
| `ConsentWindow` | the life of the consent window |
| `SshAgent` | connections, grants and signs of the ssh agent; extends `Provenance` |
| `Link` | pairing, event streams, signed decisions |
| `DaemonLifecycle` | clients, operators and daemons around a pid file |
| `ScopedAgent` | the agent that serves a sandbox |
| `Masker`, `Config` | operators: the streaming redactor; the configuration and its references |
| `CommandRun` | a wrap, `run` or `read` from the command line to the exit; extends both |
| `RuleEngine` | operators: patterns, clauses, scopes, the pass over the rules |
| `RuleStore` | the rules file, the modules and the daemon's copy; extends `RuleEngine` |
| `RuleLearning` | the audit log, suggestions, drafts and replay; extends `RuleEngine` |
| `ManagedBlocks` | operators: the blocks secreq keeps in dotfiles |
| `Migrations` | the migration gate and restore; extends `ManagedBlocks` |
| `HostSetup` | wrap, unwrap, init, ssh setup, doctor; extends `Migrations` |
| `SecretProofs` | theorems and proofs about `SecretResolution` and `ScopedAgent` |
| `RuleProofs` | those about `RuleStore` and `RuleLearning` |
| `HostSetupProofs` | those about `HostSetup`, `Migrations` and `ManagedBlocks` |
| other `...Proofs` | those about the module of that name |
| `MC...` | small instances for TLC |

The modules are layered by what they take from each other.  `ConsentBroker` uses
of a resolution only what `SecretResolution` shows of it (cached values are
returned; of the others, an ask gets all or an error and a union any subset,
each pair with one outcome).  `ConsentWindow` uses of a decision only that
entries go away and cards come and go.  `SshAgent` uses of a resolution only
that a key arrives or does not, and of the queue only what concerns entries
without secrets.  `CommandRun` and `ScopedAgent` take of the daemon only that
it answers, as `OneShotConsent` says, or fails.  `RuleStore` and `RuleLearning`
share one evaluator, so that what is decided and what is replayed are the same
operators.  `HostSetup` composes its commands with the migrations: both write
the same files.

### SecretResolution

A member of `Threads` is one call of a resolver.  `cache` is what `get` finds
under a key; `inFlight[k]` is the creator of the slot in the map, `slot[t][k]`
the state inside the slot, which waiters share by `Arc` and which outlives its
place in the map; `guards[t]` is the vector of `InFlightGuard`s, `got` and
`failed` the reply under construction, `verdict` the `final_state` the guards
drop with.  `calls`, `faults` and `lapsed` are history.

A step is one critical section: the cache lookup (`CacheHit`, `CacheMiss`), the
look at the in-flight map (`BecomeResolver`, `Park`), the wake-up
(`WakeReady`, `Refused`), the re-read (`RereadHit`), the provider call and the
puts that follow it (`CallProvider`, `ProviderReturns`, `ProviderFails`), and
the two halves of `InFlightGuard::drop`: the slot leaves the map
(`RemoveSlot`) before its state is published (`PublishSlot`).  The three
resolvers differ in what a failed slot does (`AbandonAsk` against
`RecordFailure`) and in that `resolve_union` deduplicates its pairs
(`SkipRepeated`).  The return of a provider and its puts are one step: nothing
can tell them apart, because the slot is still Pending.  `Expire` lets a value
with a ttl lapse, `prune_expired` is the tick's sweep.

### ConsentBroker, OneShotConsent, Provenance

An ask carries the fields that decide its fate: the wrap and the anchor it
claims, the secrets, whether it may be remembered, whether it insists on being
gated, whether it is a nested run, the outcomes rule evaluation may have for it,
and the process it comes from.  `Provenance` computes from that process's
ancestry the chain and the anchor the daemon puts in place of the claim
(`adopt_peer_provenance`): the walk with its two cuts, secreq's own frames left
out, session and transport frames, agent forwarding.  The connection thread
goes through `CheckRemembered`, `handle_rule_hit`, `CheckNested` and
`submit_ask`, each its own critical section, as in `handle_ask`.  An authorised
ask resolves warm or, with a card, cold (`ColdCheck`, `begin_pending`,
`ResolveCold`, `end_pending`, from `resolve_approved_with_pending`).  The window
renders the queue with a delay (`Render`), its clicks travel on a FIFO (`Click`,
`Dismiss`, `HandleClick`), a phone signs an id and a set of secrets (`Sign`,
`resolve_remote`).  A decision (`ApproveEntry`, `DenyEntries`) is one critical
section; the worker it leaves answers each waiter with its slice (`JobAnswers`)
and clears the card (`JobEnds`).  A client may hang up at any time (`HangUp`);
its thread then withdraws the waiter (`withdraw_waiter`).  A read error that is
not a disconnect ends the watch without a withdrawal; the reply thread goes on,
so to the broker that is an ask whose client never hangs up.

`consents` and `ruled` are history: what was applied, to whom, by whom, and what
the decider had seen.  `current_row` lets any rendered row be the current one:
the code takes the oldest by a clock of seconds, and ties are broken by a map's
order.

`OneShotConsent` knows of an ask only a phase (open, authorised, answered,
abandoned) and its replies.  `ImplementsOneShot` maps a broker state to it:
abandoned once the ask's withdrawal is recorded, answered once a reply is in its
outbox, authorised while its own thread or a worker that holds it resolves, open
otherwise.  One broker step may move many asks, so the abstract step lets every
ask move at once.

### ConsentWindow

`win[w]` follows a child and the handler thread of its connection: starting,
up, leaving (a `ConsentExitPlease` is on its socket), closed (it left a
`ConsentWindowDismissed`), dead, then the handler's `restart` look and its
`ensure`.  `subs` and `focused` are the daemon's `SubscriberGroup`, `spawnMark`
is `SpawnDebounce`, `restart` is `consent_restart_pending`, `emptySince` the
grace clock, `streak` and `quiet` the suppression of an `AskSignature` that is
abandoned again and again.  The main loop and `ensure_consent_window` are two
critical sections each, as in the code, and every connection thread has its own
`raise` and `ensure` steps after `submit_ask`.

Simplifications: a client stands for all processes of a signature, one at a
time; a parked client stands for the worker of a cold approval of its entry; the
pruning of a subscriber with a dead socket, which any broadcast does, is a step
of its own; times are phases (`GraceElapses`, `SpawnTimesOut`, `QuietLapses`,
`StreakResets`); slots of `Windows` are reused, and a spawn takes the first free
one, as they are interchangeable.

### SshAgent

A connection waits in the backlog, is accepted, gets a permit (the accept loop
holds one connection and waits for the count of an `Arc` to fall) and then
answers requests until it falls silent.  A sign goes through `has_ssh_grant`,
`evaluate_rules_for_ask` and `submit_ask`, each its own critical section, and
waits with a timeout: `SignTimesOut` is the return of `recv_timeout`,
`withdraw_waiter` the critical section after it, and a decision may come in
between.  `resolve` is the critical section of `resolve_with_device`; denials
are sent under the lock, approvals by a worker (`WorkerSends`).  A sign is named
by its connection and its ordinal, so that a late reply cannot reach the next
sign of the connection, just as its channel is gone.  `remember_ssh_grant`
reads the wall clock, `now`, which only moves forward here (a grant is measured
by the clock the code has).  A client that hangs
up is noticed at the next read only, so hanging up and being dropped as idle are
one action; a connection of another user, and one whose thread cannot be
spawned, are closed at once.

### Link

A request thread (`thread`) is started by the accept loop and outlives the
listener.  `pair_at` is one critical section of the pairing window's mutex: the
token is checked, spent and the device written.  A decision is looked up in the
registry (`load`), checked against the queue (`CheckLive`), its nonce is burnt
(`accept`), the queue is looked at again (`resolve_remote`) and the nonces of a
request that ended are retired (`retire`): five critical sections, between which
a click, an ask that joins the entry, a revocation or a restart may fall.  A
signed decision stays on the network and may be delivered any number of times.
An event stream has a channel of `Room` snapshots; a broadcast drops a
subscriber whose channel is full, which reconnects as its page does.  A restart
empties the queue, the nonces and the streams and keeps the registry.

### DaemonLifecycle

A flock belongs to an inode: `pidfile` is the inode at the path, `holder[i]` who
has its lock, `pid[i]` what it says.  A daemon opens the file, locks it, checks
that the inode is still the one at the path, writes its pid, binds, serves,
decides to idle out, leaves its loop, removes the socket and the pid file: one
step each, and it may crash before any of them.  A client connects, says hello,
finds another build and restarts the daemon, waits, gives up, force-stops, or
takes the spawn lock, looks again and spawns.  Operators are `daemon stop`,
`stop --force` and `status`.

### ScopedAgent

An agent clears a stale socket, binds and serves; a guest connects, waits for a
permit, sends a reference, is refused unasked, released on a grant, or parked on
a prompt that equal asks share.  The consent daemon is external: it shows a
prompt, decides once for all threads on it, or is lost.  `wall` is what grants
are stamped with and may be stepped forward and back, `elapsed` is real time,
and `setBack` how far the wall clock was set back in all.

### CommandRun, Masker, Config

A scenario is what is fixed when the command is typed: flags, environment, env
file, the configuration and what it has become when `obtain_wrap_consent` reads
it again, what PATH holds, which references the store lacks.  The first half is
sequential (load, scan, ask, resolve in batches with fallback and salvage,
inject or print), with an early return where the code has one.  The second half
is concurrent: the child and a background process print byte by byte into
bounded pipes, mask pumps read chunks of any size, the direct child exits, the
census finds survivors, and the guardian takes the pipes over.  At a terminal a
newline becomes CR and NL on its way to the reader (`Cooked`: the line
discipline's default), and the command has a supervisor that waits for it,
writes its status file and leaves, or is killed.  secreq reads the file
(`wait_for_supervised_child`) and then looks whether the supervisor is gone
(`SupervisorLost`): two steps, between which it may write and go.  Values may
have newlines; a provider that answers a batch by lines gives the first one
(`retrieve_batch`), and the daemon may batch a name with those of other asks.
`Masker` is the redactor itself: `push` on a chunk, `finish` at the end,
and `Masked`, the stream masked in one piece, as reference.

### RuleEngine, RuleStore, RuleLearning

`RuleEngine` has patterns (literal, glob, invalid), the four clauses, scopes,
specificity and the pass of `evaluate`, and, as reference, `Meaning`, which reads
the rules as a set.  A module is the record of what it declares and answers; a
trap or an answer outside its declaration is a refusal.

In `RuleStore` `op` is the one operation that holds the `State` mutex; the file
system is not under it, so a save by hand may fall between the stat, the read,
the comparison and the rename of an edit, or between a registration's module and
its rule.  A reload keeps the daemon's copy when the file does not parse.
`ask.since` and `ask.configs` collect the versions of the file and of the
configuration that were in force while an ask waited.  Scopes are validated by a
whole reload only; `daemon.unchecked` remembers those of the rules that came in
otherwise.

In `RuleLearning` the log is the sequence of what was appended: rows, records of
the processes a command left behind (`append_survivors`), and the newlines that
end them, a write each.  The reader gives up a line at a record that is no row
(`visit_history`).  An ask is decided with the refusals of the moment, any set of
the rules that have a scope.  The window's cache reads the log when its mtime
moved; suggestions cluster what a person decided, drafts come from rows,
suggestions and rules, and `rules stats` replays rows through `RuleEngine`.

### Migrations, ManagedBlocks, HostSetup

`disk` maps each path to nothing, a text (of a version, with the wraps it
declares), a symlink or a list of lines.  Every file operation of the three
migrations is a step, and so are the lock, the snapshot, the record of the state
afterwards and the stamp; a process may be killed between any two.  `restore`
reads its plan, asks, takes the lock, rescues the bodies it read, drops and puts
back its targets one after the other, removes what the migration created and
rolls the level back.  A rescue goes to the directory of its second, which may be
that of an earlier one, whose files of the same names it replaces (`Rescue`,
`Seconds`).  The user may save a config file or a dotfile at any
moment but two: in the instant between a file's copy and its removal, and while
a restore writes (`NobodyMoves`, `Restoring`).  A save may also fall between a
command's read of a file and the rename of what it made of it: the steps that
write a dotfile (`Rewrite`) and a config entry (`edit_config`) have it as an
outcome, since nobody can see the file in between but the user whose save is
undone.  A save may take wraps or the shim directory out of the config.

What the properties need of the past is kept beside the files: the versions the
user wrote (`kept`), the one in force (`inforce`), the user's lines (`own`),
restores that are half-way or were killed there (`torn`), what kind of restore
has written anything (`undone`), the files with a save that was undone
(`outrun`), and the binaries whose wrap went without a look for their shim
(`orphans`).  `ManagedBlocks` has the operators on lines: find, replace, append
and strip a block, and repoint its socket, in each spelling of it; of two that
`expand_home_tokens` does not know, 0002 stops at one (`OldOdd`) and passes over
the other (`OldBraced`).  A line is without its terminator.  `HostSetup` adds the
commands that write shims, config entries and blocks, each step a file.

## 3. Runs

Every run passes.  `PROJECT.json` has, for each property, a mutant: a small,
plausible change of the modelled code under which TLC finds the property
violated in the same instance.

| run | instance | properties |
|---|---|---|
| `resolution` | an ask for a, b; a union for a, b, a; a sign for b; b has a ttl | `SingleFlight`, `NoOrphanWaiter`, `ReadyMeansCached`, `RepliesAreComplete`, `FailureHasCause`, `EveryCallReturns` |
| `broker_session` | nested runs in two sessions, rules, expiry, one decision | `ReleaseNeedsConsent`, `ApprovedIsAnswered`, `CardsClear` |
| `broker_wrap` | three invocations of one wrap with different secrets, one with a borrowed ancestry, two decisions | `ReleaseNeedsConsent`, `NoLostWaiter`, `ImplementsOneShot` |
| `window` | one command, two window slots, a crash, a spawn given up too early | `PromptIsRaised`, `PromptGoesAway` |
| `ssh_agent` | three clients, one behind a forwarding ssh, two permits, two keys, two challenges, a ttl of one tick | `SignNeedsAuthority`, `TimeoutIsClean`, `SilentSignStaysInSession`, `EveryClientIsServed` |
| `link` | two phones of one nickname, two request threads, one command line, one token, one request of two shapes, one signed decision, one restart | `TokenIsSpentOnce`, `DecidedOnce`, `AttachedPageIsCurrent` |
| `lifecycle` | two clients of a new build, an operator, two daemons, two pid-file inodes | `SingletonUnlessForced`, `IdleExitStrandsNoAsk` |
| `scoped` | one agent for two references, a third outside, three guests, two permits, a ttl of one tick, a clock stepped both ways | `ReleasedWasShown`, `SilentReleaseIsRecent`, `BacklogDrains` |
| `command` | seventy scenarios, two secrets of which one begins the other, one of two lines, four bytes, pipes of two | `OutputIsMaskedWhole`, `SurvivorsAreNotSignalled`, `ChildEnvIsAsMeant`, `CommandReturns` |
| `rules` | three rule files, three asks, an edit, a registration, two saves, a crash | `DecidedAsWritten`, `RuleHasModule`, `HandEditsSurvive` |
| `learning` | four kinds of asks, three logs, one with an older row, a wasm rule and a paused one with a scope, two more records, one change of rules, two days | `LearnedApprovalsHavePrecedent`, `ReplayAgrees`, `HistoryTellsTheTruth` |
| `files` | a pre-migration install in three variants, two shim directories, a terminal and a wrapped command, three starts, a kill, an edit | `NoWorkIsLost`, `StampMeansDone`, `UserTextSurvives`, `ShimHasWrap` |

The `TypeOK` of a module is not listed with its run: it holds in the same
instance, and is there for the proofs.

**Bounds, and why they are enough.**  *resolution*: two keys and three calls are
the least in which a resolver, a waiter and a third party that arrives between
removal and publication meet, with one key that expires and one that does not.
*broker*: three asks let two share an entry while a third re-opens its key or
belongs to another session; two secrets let siblings want different slices; two
decisions let a window and a phone, or two clicks, race for one entry, and one
is enough where the question is what the first one authorises.  *window*: two
slots let a dying window and its successor overlap; one crash and one late child
are one more than the code's comments speak of at a time; `SuppressAfter` is 2 so
that a streak has to build up.  There is one client: with two the liveness check
takes more than five minutes, so that the suppression of a sibling's window is
modelled but not exercised.  A spawn with no free slot waits for one: with
`Windows` exhausted a handler thread is still running and frees its slot in a
bounded number of its own steps.  *ssh_agent*: one connection may
repeat the challenge of another, ask for a new one, or ask for another key, and
the third has an anchor of its own.  *link*: two threads let two deliveries of
one decision, or two phones with one token, meet at every pair of critical
sections.  *lifecycle*: a second daemon and a second inode are what two daemons
need; `MaxTries` 2 lets the inode check fail once and succeed.  *scoped*: one
guest more than permits, one reference more than the scope; a tick of real time,
a step forward and a step back around a ttl of one tick.  *command*: `xy`
split after `x`, with `x` a secret too, is the redactor's whole difficulty; four
bytes allow it twice.  A value of two lines is printed through a pipe, where it
is found, and at a terminal, where it is not.
*rules*: one edit with two saves around and inside it.
*learning*: two rows to the cluster size of two, or a row behind a record that is
none.  *files*: three starts let a migration be killed, run again and restored,
and one edit is enough for a save that is undone.  The installs have a block as
secreq wrote it, one that 0002 stops at, with a config and rules behind it until
the user spells it out, and one that 0002 passes over, with a config that does
not parse.  States that differ only in the locals of a process
that is at no step that reads them are one (`VIEW View` of `MCHostSetup`): the
next command sets those anew.  Longer sequences of restores need more starts, and
with two processes those take more than five minutes; what they add (a restore
upwards, two in one second) the proofs cover.  Provider failures, expiry times,
deliveries and hang-ups are not bounded.

**Fairness, and why the code justifies it.**  Each resolver call, connection
thread and worker is a thread that the scheduler runs, and a provider returns or
fails (weak fairness of its next step).  In `ConsentWindow` the main loop ticks
every `MAIN_LOOP_TICK`, time passes, a child that was spawned and did not crash
attaches, and a child obeys `ConsentExitPlease`, which its reader thread does by
exiting the process.  In `SshAgent` and `ScopedAgent` timeouts pass, and in
`ScopedAgent` the accept of a waiting connection is strongly fair: the kernel
hands the backlog over in order.  In `CommandRun` the threads of secreq run and
the daemon answers; the command and its background process owe nothing.  Nothing
is assumed of people or clients: nobody has to ask, decide, click, close or hang
up.  `Link`, `DaemonLifecycle`, `RuleStore`, `RuleLearning` and `HostSetup` are
checked for safety only.

`EveryCallReturns` holds where the requests name their keys in one common order,
as in `resolution`; see the departures for those that do not.  `PromptGoesAway`
has the condition `late = 0`: a child that attaches after its spawn was given up
can arrive with the clock stopped, and then stays until the next decision.

Deadlock is checked in `resolution`, `broker_session`, `broker_wrap`, `window`
and `ssh_agent`; resolution, broker and ssh agent have a stuttering step once all
calls and asks are done and all connections closed.  The other systems stop when a bound
is used up or the command has ended.

## 4. Proofs

TLAPS proves every invariant and every action property that a run checks, and
the refinement, for every value of the constants: any number of calls, asks,
connections, phones, daemons, guests, secrets, bytes, rules, rows and files, and
any bound on time, restarts, kills and decisions.

| module | theorems | from |
|---|---|---|
| `SecretProofs` | `SingleFlightHolds`, `NoOrphanWaiterHolds`, `ReadyMeansCachedHolds`, `TypeCorrect` | `Invariance` |
| | `FailureHasCauseHolds` | `CauseInvariance` |
| | `RepliesAreCompleteHolds` | `ProgressInvariance` |
| | `ReleasedWasShownHolds`, `SilentReleaseIsRecentHolds` | `ScopedInvariance`; `StampInv` |
| `ConsentBrokerProofs` | `ImplementsOneShotHolds`, `ReleaseNeedsConsentHolds`, `NoLostWaiterHolds` | `Invariance` |
| `SshAgentProofs` | `SignNeedsAuthorityHolds`, `TimeoutIsCleanHolds`, `TypeCorrect` | `Invariance` |
| | `SilentSignStaysInSessionHolds` | `Invariance`, `AnchorInvariance` |
| `LinkProofs` | `TokenIsSpentOnceHolds`, `DecidedOnceHolds`, `AttachedPageIsCurrentHolds`, `TypeCorrect` | `Invariance` |
| `DaemonLifecycleProofs` | `SingletonUnlessForcedHolds`, `IdleExitStrandsNoAskHolds` | `Invariance` |
| `CommandRunProofs` | `SurvivorsAreNotSignalledHolds` | `ScopeInv` |
| | `ChildEnvIsAsMeantHolds` | `EnvInvariance` |
| | `OutputIsMaskedWholeHolds` | `OutInvariance` |
| `RuleProofs` | `RuleHasModuleHolds`, `HandEditsSurviveHolds` | `Invariance` |
| | `DecidedAsWrittenHolds` | `EvaluateIsMeaning`, `DecisionInvariance` |
| | `LearnedApprovalsHavePrecedentHolds`, `ReplayAgreesHolds`, `HistoryTellsTheTruthHolds` | `LearningInvariance` |
| `HostSetupProofs` | `UserTextSurvivesHolds`, `StampMeansDoneHolds`, `ShimHasWrapHolds`, `NoWorkIsLostHolds` | `FilesInvariance` |

A theorem `XHolds` says `Spec => []X` of the property `X` that a run checks, or
`Spec => X` where `X` is an action property or the refinement.  Each module has
one lemma per action, or per group of actions that change the same part of the
state, under one lemma for `Next`.

**Resolution.**  None of the first three is inductive.  Single flight follows from
ownership: while a call fetches, each of its guards stands for the one slot the
map holds under that key (`GuardInv`), so two calls cannot both own a key; that a
new resolver may take the key needs the converse, that what the map holds
somebody has a guard for (`MapInv`), and that no call holds two guards for one
key (`DistinctInv`).  The exception in `GuardInv` is the heart of it: between the
two halves of a drop the map has let go of a slot that is still Pending, and a
waiter may be parked on it.  `NoOrphanWaiter` is about that waiter.
`ReadyMeansCached` needs that a call which drops its guards as Ready has put
their values (`VerdictInv`).  `FailureHasCause` follows the blame backwards:
every failed slot, verdict and reply goes back to a provider that failed or to a
value that lapsed (`CauseInv`).  `RepliesAreComplete` is a loop invariant: at
each position the entries behind it are, each exactly once, collected, failed or
guarded (`ProgressInv`).  Nothing is assumed about the order of keys: what
circular waiting breaks is liveness.

**Broker.**  The invariant says of each parked ask who owes it the answer: it is on
the entry of its own key, or in the hands of one worker, never both and never of
two (`QueueInv`, `JobInv`, `ParkInv`); before it is parked nothing has happened
to it (`EarlyInv`); and whatever is remembered, released to a session or sent
goes back to a decision in the history (`MemoryInv`, `AuthorityInv`).  The
refinement is the same invariant read step by step: `OneShotConsent`'s phase of
an ask is a function of who owns it, so every action moves each ask along one
abstract edge or not at all.  This is where a decision, a hang-up and a worker
could both answer and abandon one ask.

**Ssh agent.**  A waiter on the queue is a sign whose thread waits under that key
(`QueueInv`); what was decided has left the queue, so a timeout that still finds
its waiter was decided by nobody (`DecidedInv`, `AbandonedInv`); what a worker
sends or a channel holds a person decided (`ReplyInv`); each grant goes back to a
decision, with its expiry counted from it (`GrantInv`).  `SilentSignStaysInSession`
needs of the states only that a sign, and a remembered decision, carry the anchor
of their connection's process (`AnchorInv`), and of the two processes that no
forwarder between them and the anchor is hidden by the cut of its command line
(`Hides`, the property's exception).  The rest is about the walk that
finds the anchor: its three budgets and its filter keep frames in their order
(`WalkKeepsOrder`), the first frame that forwards is chosen if there is one
(`LeastChosen`, `FirstForwarder`), and so the anchor is the process or behind it
with no forwarding ssh in between (`AnchorIsBehind`).  Two processes with one
anchor share the ancestry from there on and hence the first forwarder
(`SameForwarders`).

**Link.**  `PairInv`: the token of an open window has enrolled nobody, which two
pairing threads can only keep because the window is taken and the device written
under one lock.  `QueueInv`: a request that was decided is not live, and ids do
not come back.  `ViewInv`: the last snapshot in an attached page's channel, or the
page itself when there is none, is the queue; a full channel detaches the page
and so keeps it.

**Lifecycle.**  Past `flock` a daemon holds the lock of its inode (`LockInv`); past
the inode check that inode is the one at the path, unless it was unlinked
(`VerifiedInv`).  Two daemons that were not orphaned would hold one lock.

**Scoped agent.**  Prompts are filed under what they show, so whoever shares one
asked for that (`PromptInv`); answers and grants go back to it.  `StampInv` is
about the clock: a stamp is ahead of its approval by the ttl and by what the wall
clock was ahead of real time then, which is no more than it is ahead now and what
it was set back since.

**Command.**  `ScopeInv`: a process in the command's scope has secreq or a guardian
as the reader of its output at each point of the hand-over.  `EnvInv` carries the
values from the configuration to the child, each whole or, from a batch, its
first line.  `OutInv` is the property with every
possible continuation: for all further output `x`, what was shown followed by the
masked carry, pipe and `x` is the whole output and `x` masked in one piece.
Without the quantifier it is not inductive, since a read moves bytes that are
masked differently when more follow.  The step rests on lemmas about the scan:
it has exactly one result (`ScansExists`, `ScansUnique`), unfolds one round at a
time (`ScanUnfolds`), and may be cut anywhere (`ScanSplits`, `PushSplits`): what
it holds back at the end of a read is exactly what more bytes could still change.
The scan is a recursive function and the lemmas are inductions; TLAPS cannot
instantiate an induction rule with a predicate, so each takes a least or shortest
counterexample (`LeastNatural`, `ShortestSequence`, from the well-foundedness of
`<` on `Nat`) and shows there is none.

**Rules.**  A rule and its module are two files, and which is written first
differs: a registration stores the module before the rule, a deletion takes the
rule away before the module.  `RuleHasModule` is not inductive, because an edit
that has read the file may write back a rule that a hand has since removed; the
invariant therefore says the same of the text an edit has read, and of a file
that does not parse at the moment (`FilesHaveModules`).  A registration under way
is the only one with its id, which no file read before it can name
(`PendingIsAlone`), so that undoing it takes no other rule's module; a deletion
that has replaced the file is about a rule that is no longer acknowledged
(`EditsAreCurrent`).  `HandEditsSurvive` needs `TimesTell`, that a modification
time which has not changed means a text that has not, and a lemma per kind of
edit: the rules with another id, each with the number of them before it, are the
same before and after (`AddKeepsOthers`, `UpdateKeepsOthers`,
`DeleteKeepsOthers`), whether or not ids are distinct.

`DecidedAsWritten` has two halves.  One is about an algorithm: `evaluate` goes
through the file once and keeps the best denial, the best rule that could not be
heard and, for each secret, the best rule that blesses it; `Meaning` reads the
same rules as a set.  `EvaluateIsMeaning` says that they agree on files of any
length.  `beats` is a strict order that compares any two rules of different ids
(`BeatsIsAnOrder`), so a set has one best rule (`BestIsUnique`); a slot that has
the best of some rules has, after one more, the best of them all (`OneMoreRule`);
and what one rule does to the slots is its `Opinion` (`ConsultFollowsOpinion`).
`PassAgrees` is the induction over the file, again by a least counterexample.
With two rules of one id the answer could depend on their order, so the theorem
needs `Distinct`.

The other half is about which rules the daemon has.  A load notes the modification
time before it reads the text, so a copy with the time of the file has its rules,
and a save in between leaves the copy stale, never the reverse
(`CopyIsOfItsTime`).  Every version in force while an ask waits is in its ghost
`since`, and so is what it will be decided from, once it is reloaded or for as
long as the file does not parse (`AskHasSeen`).  The reload an ask waits for reads
a version in force after the ask arrived; the reload of an edit may have read its
text before that, and then counts only if the file does not parse, when that text
is about to be the daemon's.  `IdsInv` carries the distinct ids through edits and
saves, `ModulesInv` that a loaded module is the one its rule pins, `ScopesInv`
that what the daemon refuses is what the configuration it noted refuses of the
rules it has, but for the scopes in `unchecked`.  Each action is
first shown to be one of four shapes (`Quiet`, `Writes`, `Ends`, `Starts`: nothing
written, a write of the file, the end of a load, a start), and the invariants are
proved for the shapes.

**Learning.**  A rule accepted from a suggestion reaches `LearnedApprovalsHavePrecedent`
over four steps of different actors, and the invariant follows what the human
approved along them.  Rows that were approved are in the log, and the log only
grows; the window's copy holds rows of the log (`CacheInv`); a suggestion is made
of such rows, so a form opened from it, and the rule saved from that form, name a
wrap and secrets that were approved together (`SuggestionIsTaught`, `DraftInv`,
`LearnedInv`); and when the rule approves by itself, a hit's `approvals` name for
each secret a rule that blesses it (`HitIsOfARule`, from `EvaluateIsMeaning`).  The
ids of rules are drawn once (`GhostInv`), so no later rule inherits a suggestion's
claim; the form may be edited, except that what it trains on is not a field of it.

`ReplayAgrees` needs `RowInv`: a row that bears the version in force was decided as
`evaluate_with_refusals` decides its ask now with the row's refusals, with no rule
made after it; without refusals that is what the replay computes.  `HistoryTellsTheTruth`
compares three filters and a window of the log with one count over it.  The filters
are `Only`, a recursive function that keeps the elements of a set (the prover knows
nothing of the library's `SelectSeq`): `OnlyEnumerates` gives the places that are
kept, one to one and of any number, and the rest is the bijection between the places
of the window's copy and those of the log (`HistoryIsOfTheLog`, `OnlyOfOnly`,
`ApprovedIsCount`).  A newline, written or not, moves no place, so a writer that
dies between its two writes hides no row; a row behind a record that is none bears
that mark from the moment it is written (`behind`), and neither side counts it.
Nothing is assumed of the writers' order.

**Files.**  `HInv` has twelve parts, since what a file holds depends on how far
somebody else has come.  `LockInv` places every process: a migration runs under
the lock, one level above the stamp, and a restore writes under it.  `DiskInv`
and `SnapInv` say what may be at a path and in a snapshot: a symlink at an old
path only, one SSH block at most in a dotfile.  `PlanInv` is about a restore that
acts on what it read before it asked.  The properties rest on the rest:

* `StampMeansDone` on `MigInv`, how far each migration has come: the files before
  its index are moved, repointed or converted, except dotfiles it could not read,
  which stop it; and on `LevelInv`, what each stamped level means by itself, since
  restores roll back one level at a time.  A restore that began keeps its level
  in `torn` until it stamps it, and no torn one is below it (`RunInv`).  `CovInv`
  says that a version in force is live or owed by a torn restore.
* `UserTextSurvives` on `OwnInv`, that a dotfile is as the user left it, owed by
  a torn restore, or in `outrun`, and on lemmas about lines: a file nobody
  tampered with has no block or one, plain lines around it (`WellFormedShape`); each operation of
  `ManagedBlocks` returns such a file, with the user's lines as they were; and
  none brings an old socket back (`AddsNone`).  The filter is a recursive
  function, so `OwnTextConcat` and its like are least counterexamples again.
* `ShimHasWrap` on `ShimInv`, which says it of every copy of the config at once,
  the legacy, the moved and the converted one: a migration that is killed leaves
  two, and a rerun reads either.  What `wrap` declared before it installs stays
  declared because only the terminal and the user write wraps, and what the user
  takes out, or `unwrap` without reaching the shim, is in `orphans`.
* `NoWorkIsLost` on `WorkInv`.  That every version is live or safe is not
  inductive: a restore removes a file at an old path which it did not read when
  the file has moved since (`live_path`).  The invariant therefore says of a real
  file at an old path that its version is gone, safe, or in the root as well
  (`Moved`), at each place of the restore: as it was read while it asks, as it is
  once it writes.  This is where a restore upwards fails, and where a late one
  does: the proof needs that nothing was written between the plan and the lock.
  What a rescue saved stays saved while no two share a second (`HasRescued`), and
  a version that was overwritten unseen is one of a file in `outrun` (`Gone`).

Each action is one of five kinds (`Migrates`, `Exits`, `Restores`, `Saves`,
`Types`), and each part has a lemma for each kind that can disturb it.

**What is assumed.**  Besides types and disjointness of the sets of names (in the
`ASSUME` of each module, which TLC evaluates in its run):

* `None` is neither a queue entry (`ConsentBroker`), a snapshot (`Link`), nor one
  of the processes: it stands for an `Option::None`.
* A process's ancestry is a finite sequence (`ConsentBroker`).
* The file the daemon starts from has distinct ids, a rule with a module stores it
  under its own id, and only a registration draws the id that is new
  (`RuleAssumption`): ids are UUIDs, and `add_wasm_rule` derives the path from
  the id.  Neither the form nor, here, the hand writes a rule with a module, and
  the hand gives no rule an id that the file has; the code does not check that.
  Ids are numbers, which stand for strings only where they are compared, and a
  clause rule approves or denies.
* What the log and the rules of `RuleLearning` start from is what the program
  leaves (`LearningAssumption`): the ids 1 to n of n rules, made on no later day
  than the first; rows whose wrap is named, of no later day, naming rules that
  exist, and decided by the present rules (version 1) or by earlier ones (version
  0).  Clients ask for a wrap that has a name.
* An install starts before the first migration, with configs of version 1; of
  each dotfile the SSH sentinels are balanced, one block or none (`WellFormed`);
  a shim of ours has its wrap (`HostAssumption`).  No line of the user's is one
  secreq writes (`UserLinesAssumption`), and the user adds lines around a block,
  removes it or spells its path out, but does not break a block up.
* No transport frame is a session frame, secreq itself or unknown
  (`ProvenanceAssumption`): the names in `provenance.rs` are distinct.
* `SilentSignStaysInSessionHolds` supposes `OneAncestry`, that a pid with its start
  time names one process with one command line and ancestry while the agent runs,
  which the kernel gives.  TLC evaluates it in `ssh_agent`.

**Only model-checked.**

* Liveness (`EveryCallReturns`, `ApprovedIsAnswered`, `CardsClear`,
  `PromptIsRaised`, `PromptGoesAway`, `EveryClientIsServed`, `BacklogDrains`,
  `CommandReturns`): fairness and `ENABLED` are outside what TLAPS does.  All that
  `window` shows is of this kind.  No invariant is left to TLC alone.

## 5. Departures: where the code does not do what its words, or a reader, expect

The modules follow the code; where the code departs from a comment or a doc, no
run states the doc's claim as a property, and the properties have the exceptions
the code makes.  What the models show:

* *Resolution.*  The lookup and the acquire are separate, and a call that is
  overtaken between them fetches again (`daemon/in_flight.rs:98`), although the
  comment at `daemon/state.rs:310` speaks of exactly one provider invocation.
  Guards are held while further keys are acquired, in the order of the ask: two
  resolutions in opposite orders (`daemon/state.rs:3335`), or one ask that names
  one key under two variables (`daemon/state.rs:3141`), wait for ever; there is
  no timeout on the condvar.
* *Prompt.*  A click names the dedupe key, not the card, so an approval can
  cover secrets of an ask that joined after the window was drawn
  (`daemon/server.rs:320`).  Rows are ordered by whole seconds, ties by a map's
  order (`daemon/state.rs:1305`), and a click may land on a row that replaced the
  one that was read.  `begin_pending` is idempotent and `end_pending` not
  counted: the first of two cold resolutions of a key takes the shared card away
  (`daemon/state.rs:1524`).  The restart flag is global and any dying window's
  handler takes it, which can put two windows up (`daemon/server.rs:408`, doc at
  `daemon/state.rs:1012`).
* *Provenance.*  Whether a frame forwards the agent is read from a command line
  cut at `MAX_DISPLAY_CHARS`, although the comment at `PeerProcess` says that what
  a grant binds to must not depend on a display budget: `SilentSignStaysInSession`
  excepts a forwarder whose option is cut off (`Hides`).  Forwarding set in
  `ssh_config` is not seen.
* *Link.*  A device revoked after its request was looked up still decides
  (`link/lan.rs:287`, doc at `commands/link.rs:26`).
* *Lifecycle.*  A force-stop unlinks the pid file of a daemon that may be alive:
  two daemons can follow (`daemon/client.rs:474`, doc at `daemon/mod.rs:502`);
  `SingletonUnlessForced` has that exception and no other.  `status` and
  force-stop may read the pid of the previous daemon.
* *Scoped agent.*  A grant is stamped with the wall clock: a step back extends
  it by its length (`scoped_agent/mod.rs:393`, doc at 382-390), and
  `SilentReleaseIsRecent` says so (`SetBackSince`).
* *Rules.*  The reload after an edit does not check scopes again
  (`daemon/state.rs:2474`), and a reload whose file does not parse keeps the
  refusals of an older configuration: until the next whole reload a protective
  deny with a scope that names no wrap, added by hand and brought in by an edit,
  is no opinion, although the doc at `rules.rs:1495` says it cannot become one
  silently.  `DecidedAsWritten` excepts exactly those scopes
  (`daemon.unchecked`).  A save by hand between the last comparison and the
  rename is lost; two saves within one mtime tick leave the older rules loaded; a
  registration whose reload fails removes the module although the rule is on
  disk.
* *Learning.*  An accepted approval of a cluster without secrets stays suggested
  and is unbounded; a draft from an abandoned row starts as an approval; the
  suggested ancestor is a name while matching prefers the executable; a merged
  pattern ending in a star does not match the shorter sample; editing a rule
  resets its creation time.  Replay does not know of refused scopes
  (`rule_stats.rs:297`), and a row prompted because of one replays as the rule's
  verdict: `ReplayAgrees` is about rows decided without refusals.
* *Audit.*  Errors of an append are ignored; a row whose writer died in the
  middle of its bytes makes the next row unreadable too.  The records of the
  processes a command left behind go to the same file (`audit.rs:638`), and the
  reader drops the rest of a line at one (`audit.rs:716`): a decision that shares
  the line is in no history, and `HistoryTellsTheTruth` does not count it.
* *Execution.*  With survivors, what the direct child printed and nobody has read
  may be drained by the guardian; a process that left the scope with the pipe
  open keeps secreq waiting.  A value with an inner newline comes out of a
  batch as its first line, found and cut (`FirstLine`), although the comments at
  `provider.rs:273` and `manifest.rs:84` expect its name to be missing from the
  reply and the value fetched singly: `ChildEnvIsAsMeant` allows the whole value
  or that line.  A terminal turns a newline into CR and NL, so the redactor never
  finds a value of two lines in what a terminal carries: `OutputIsMaskedWhole` is
  about the bytes past the terminal, and such a value is shown.  A supervisor that
  writes its status and leaves between the read of the file and the look at the
  process (`exec.rs:370`, `387`) is reported as lost: the exit code is gone and
  the output cut (`pc = "lost"`).
* *Migrations.*  A comment at `migrate/mod.rs:610` says that a mistaken restore is
  itself recoverable.  `migrate restore` takes any level that has a snapshot, also
  one above the present level (`migrate/mod.rs:479`), and that leaves two real
  copies of a file, in the root and in the legacy directory; the next restore
  saves the one that `live_path` prefers (`migrate/mod.rs:762`) and removes the
  other unsaved (`migrate/mod.rs:645`).  A migration and three restores show it
  (`undone \cap {"late", "twice"} = {} => RestoreIsRecoverable` with
  `Processes = {"tty"}`, `MaxStarts = 4` and `MaxKills = 0`); `NoWorkIsLost` and `StampMeansDone` except
  a restore that went up.  `migrate restore 1` removes `config.toml` although level
  1's snapshot holds dotfiles only (`migrate/mod.rs:689`); a kill between 0003's
  conversion and its record, or between the write of `to` and the removal of
  `from`, makes the next run refuse; a restore removes its destination before it
  replaces it; two restores within a second share a rescue directory.
  `restore_in` reads its plan, asks, and only then takes the lock
  (`migrate/mod.rs:608`): what the user or a migration writes to one of its files
  in between is neither shown nor rescued, but replaced; a migration, a restore
  and a save while it asks show it.  Rescue directories are named by the second
  (`migrate/mod.rs:612`, `797`): a second restore within it replaces the files the
  first saved.  `NoWorkIsLost` has the exceptions `"up"`, `"late"` and `"twice"`,
  and that of a save undone by a command (`outrun`, below).
  The doc at `m0002_ssh_agent_socket.rs:189` says that 0002 stops at a block with
  `${HOME}`; the test below it looks for `~/` and `$HOME`, which `${HOME}` does not
  contain: such a block is passed over, the legacy directory cleaned, and the level
  stamped with the block still naming it.  `StampMeansDone` excepts that spelling.
* *Setup.*  `edit_config` and the writers of dotfiles take no lock: a save between
  their read and their rename is undone (`commands/config.rs:629`,
  `ssh_setup.rs:233`, `279`, `306`, `337`, `path_setup.rs:158`), and
  `NoWorkIsLost` and `UserTextSurvives` except the file (`outrun`); two `ssh setup`
  at once write two blocks.  A block that is replaced or stripped in a file with
  CRLF turns all its lines to LF (`ssh_setup.rs:382`), although the doc of `remove`
  calls the rest verbatim; the modelled lines have no terminator.  A dotfile that
  is not UTF-8 is read as empty (`ssh_setup.rs:280`).  `unwrap` looks for the shim
  in today's `shim_dir` and, without one, removes the entry alone
  (`commands/config.rs:199`); a restore keeps the shims of wraps it drops:
  `ShimHasWrap` excepts both, and wraps taken out by hand.

## 6. Plan

Done: every module above, their runs, and the theorems of section 4.  Left are
the liveness properties, which stay with TLC, and the parts of section 7.

## 7. Not modelled

* A panic while a guard is held (its drop publishes Failed) and a poisoned
  mutex.
* Encryption of the cache and of the link, signatures and hashes: a signature
  is what it signs, a hash is what it is of.
* Reading `/proc`, peer credentials and boot ids: an ancestry is given.
* The WebAssembly runtime and its fuel: a module answers, passes or traps.
  Provider command templates and output parsing: an outcome each.  JSON5 and
  TOML as text: a conversion keeps what a file declares.
* Layout, themes, keyboard arming, sorting and scrolling of the windows; the
  manager window's own life, which has no restart and no auto-hide; the scaffold
  panel and `rule_scaffold`; the advisory scope findings of `rule_health.rs`.
* File modes and the permission checks of directories, the refusal of a level
  newer than the binary, the `verify_current` of service roles, the daemon's log
  and its tail, the wait indicator, raw mode and window resizing.
* Argument parsing, autostart and the service managers, the JSON schema, the QR
  code and static assets, the documentation site, the rule SDK, and the web
  page beyond what it renders, signs and sends: no state that interleaves with
  what is modelled.
