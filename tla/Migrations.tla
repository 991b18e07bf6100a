------------------------------ MODULE Migrations ------------------------------
(***************************************************************************)
(* The migration gate every foreground command passes (cli.rs, migrate/)    *)
(* and `secreq migrate restore`.                                           *)
(*                                                                         *)
(* Migration 1 moves the two config files from the legacy directory to the  *)
(* root and leaves symlinks behind; 2 repoints the SSH-agent block in the   *)
(* user's dotfiles at the socket's new place; 3 converts the files from     *)
(* JSON5 to TOML.  Each is snapshotted before it runs and its level stamped *)
(* after it, under a file lock.  Any process may be killed between two file *)
(* operations; the lock goes with it and what it wrote stays.               *)
(*                                                                         *)
(* The rename of atomic::replace is one step: a reader sees the old file or *)
(* the new one.  What is written may be made from a file that was read      *)
(* before; a save of the user's between that read and the rename is undone  *)
(* by the rename, and the writing steps have it as an outcome of theirs     *)
(* (Rewrite, edit_config): `outrun` remembers the file.  The snapshot of    *)
(* one level, staged in a directory that a rename publishes, is one step.   *)
(***************************************************************************)
EXTENDS ManagedBlocks, FiniteSets, FiniteSetsExt

CONSTANTS
    Processes,      \* secreq processes: pids, reused by later commands
    Terminal,       \* the process the user types commands in
    FileSeq,        \* the config files in the order they are migrated
    DotSeq,         \* the dotfiles in the order they are probed
    OneFilesystem,  \* are the legacy state directory and the root on one?
    MaxStarts,      \* bound: commands run
    MaxKills,       \* bound: processes killed
    MaxEdits        \* bound: versions beyond which the user saves no more

Files == Range(FileSeq)
Dotfiles == Range(DotSeq)
Latest == 3
NoOne == "nobody"

ASSUME MigrationAssumption ==
    /\ Terminal \in Processes /\ NoOne \notin Processes
    /\ OneFilesystem \in BOOLEAN
    /\ FileSeq \in Seq(Files) /\ DotSeq \in Seq(Dotfiles)
    /\ {MaxStarts, MaxKills, MaxEdits} \subseteq Nat

VARIABLES
    disk,     \* what is at each path
    level,    \* .migration-state
    lock,     \* the process that holds the flock
    snaps,    \* migration-snapshots/<level>: nothing, or its filemap
    saved,    \* files in the current-<second> directories of rescues
    sockdir,  \* is the legacy socket directory there?
    audit,    \* where audit.log is
    place,       \* what each process does next
    at,       \* the migration, file and entry it is at
    before,   \* declared, and absent_before, of the migration it runs
    unread,   \* 0002's unresolved
    plan,     \* restore's plan: entries, stale artifacts, hand-edited paths
    kept,     \* history: versions the user wrote and did not overwrite
    inforce,  \* history: the version of each file the user put in force
    own,      \* history: the user's own lines of each dotfile
    torn,     \* history: levels whose restore is half-way, or was killed there
    undone,   \* history: did restores write, "down", or "up" to a level whose
              \* migrations an earlier one undid, or began to undo; was one
              \* "late", a file it replaces written since it was planned; did
              \* one come "twice" in a second and rescue over another's rescue?
    outrun,   \* history: files with a save that a write from an older read undid
    orphans,  \* history: binaries whose wrap the user took out by hand, or whose
              \* shim `unwrap` did not reach
    starts, kills, edits

procs == <<place, at, before, unread, plan>>
history == <<kept, inforce, own, torn, undone, outrun, orphans>>
bounds == <<starts, kills, edits>>
mvars == <<disk, level, lock, snaps, saved, sockdir, audit, place, at, before,
           unread, plan, kept, inforce, own, torn, undone, outrun, orphans,
           starts, kills, edits>>

-----------------------------------------------------------------------------
(* Files.                                                                  *)

Legacy(f) == <<"legacy", f>>        \* ~/.config/secreq/wraps.json5
Json5(f) == <<"json5", f>>          \* ~/.secreq/wraps.json5
Toml(f) == <<"toml", f>>            \* ~/.secreq/config.toml
Dot(d) == <<"dot", d>>              \* ~/.ssh/config, ~/.zshrc
Paths == {"legacy", "json5", "toml"} \X Files \cup {"dot"} \X Dotfiles

Nothing == [t |-> "nothing"]
Link == [t |-> "link"]              \* legacy -> root
\* A config file: the user's version of it, whether it parses, the wraps it
\* declares and the shim directory it names.
NoDir == "no shim_dir"
Text(f, v, ok, wraps, dir) ==
    [t |-> "text", f |-> f, v |-> v, ok |-> ok, wraps |-> wraps, dir |-> dir]
Lined(ls) == [t |-> "dot", lines |-> ls]

\* Path::is_file, exists and read follow a symlink.
Deref(p) == IF disk[p] = Link THEN Json5(p[2]) ELSE p
Body(p) == disk[Deref(p)]
Exists(p) == Body(p) # Nothing

Put(p, b) == disk' = [disk EXCEPT ![p] = b]

\* A file that cannot be read has no lines.
LinesOf(d) == IF disk[Dot(d)] = Nothing THEN <<>> ELSE disk[Dot(d)].lines
Expanded(d) == expand_home_tokens(existing_block(LinesOf(d)))
NamesOld(d) == OldAbsolute \in Range(Expanded(d))
\* carries_an_unexpanded_home_token: a `~/` that is left, or a `$HOME`.  A
\* `${HOME}` holds neither, though the comment above it names that spelling.
Unexpanded(d) == OldOdd \in Range(Expanded(d))

\* What a save of the user's makes of a dotfile's lines: one of theirs above or
\* below, the block taken out by hand, its path spelled out.
UserSaves(ls) ==
    ({strip_block(ls)}
     \cup {<<u>> \o ls : u \in UserLines} \cup {ls \o <<u>> : u \in UserLines}
     \cup {[i \in DOMAIN ls |-> IF ls[i] = OldOdd THEN OldAbsolute ELSE ls[i]]})
    \ {ls}

\* A dotfile read, changed, staged and renamed: `new` is made from the lines
\* that were read.  The user may save between the read and the rename.
Rewrite(d, new) ==
    /\ Put(Dot(d), Lined(new))
    /\ \/ UNCHANGED <<own, outrun, edits>>
       \/ /\ edits < MaxEdits
          /\ edits' = edits + 1
          /\ \E text \in UserSaves(LinesOf(d)) : own' = [own EXCEPT ![d] = OwnText(text)]
          /\ outrun' = outrun \cup {d}

\* The same when there is something to change.
RewriteIfNew(d, new) ==
    IF new = LinesOf(d) THEN UNCHANGED <<disk, own, outrun, edits>> ELSE Rewrite(d, new)

-----------------------------------------------------------------------------
(* The runner.                                                             *)

\* (m.snapshot)(ctx): 0001, 0002 and 0003's snapshot_files.
declared(m) ==
    CASE m = 1 -> {Legacy(f) : f \in Files}
      [] m = 2 -> {Dot(d) : d \in {e \in Dotfiles : HasBlock(LinesOf(e))}}
      [] m = 3 -> {Json5(f) : f \in Files} \cup {Toml(f) : f \in Files}

Goto(p, where) == place' = [place EXCEPT ![p] = where]
Stop(p) == Goto(p, "idle") /\ lock' = NoOne

\* A foreground command starts: cli::run, run_x.
Start(p) ==
    /\ place[p] = "idle"
    /\ starts < MaxStarts
    /\ starts' = starts + 1
    /\ Goto(p, "gate")
    /\ UNCHANGED <<disk, level, lock, snaps, saved, sockdir, audit, at, before,
                   unread, plan, history, kills, edits>>

\* run_pending_in reads the level without the lock: past it when it is the
\* last one.
run_pending_in(p) ==
    /\ place[p] = "gate"
    /\ Goto(p, IF level = Latest THEN "body" ELSE "lock")
    /\ UNCHANGED <<disk, level, lock, snaps, saved, sockdir, audit, at, before,
                   unread, plan, history, bounds>>

\* acquire_lock, and the level again under it.
acquire_lock(p) ==
    /\ place[p] = "lock"
    /\ lock = NoOne
    /\ IF level = Latest THEN Goto(p, "body") /\ UNCHANGED <<lock, at>>
       ELSE /\ lock' = p
            /\ Goto(p, "snapshot")
            /\ at' = [at EXCEPT ![p] = [m |-> level + 1, i |-> 1]]
    /\ UNCHANGED <<disk, level, snaps, saved, sockdir, audit, before, unread,
                   plan, history, bounds>>

\* snapshot_if_absent's new snapshot of a level.
Captured(m) ==
    LET sources == {q \in declared(m) : Exists(q)}
    IN  IF sources = {} THEN <<>>
        ELSE <<[files |-> [q \in sources |-> Body(q)],
                created |-> {}, post |-> [q \in {} |-> Nothing]]>>

\* The first snapshot of a level wins: a rerun must not capture what a killed
\* run left.
snapshot_if_absent(p) ==
    /\ place[p] = "snapshot"
    /\ LET m == at[p].m IN
        /\ before' = [before EXCEPT ![p] = [declared |-> declared(m),
                     absent |-> {q \in declared(m) : ~Exists(q)}]]
        /\ snaps' = [snaps EXCEPT ![m - 1] = IF @ # <<>> THEN @ ELSE Captured(m)]
        /\ Goto(p, CASE m = 1 -> "move" [] m = 2 -> "read" [] m = 3 -> "convert")
    /\ unread' = [unread EXCEPT ![p] = {}]
    /\ UNCHANGED <<disk, level, lock, saved, sockdir, audit, at, plan, history,
                   bounds>>

NextFile(p) == at' = [at EXCEPT ![p].i = @ + 1]

-----------------------------------------------------------------------------
(* Migration 0001: secreq-root.                                            *)

\* migrate_config_file's cases up to its first write.  Two real files that
\* differ stop the migration.
migrate_config_file(p) ==
    /\ place[p] = "move"
    /\ at[p].i \in DOMAIN FileSeq
    /\ LET f == FileSeq[at[p].i]
           old == disk[Legacy(f)]
           new == disk[Json5(f)]
       IN  \/ /\ old = Link \/ (old = Nothing /\ new = Nothing)
              /\ NextFile(p)
              /\ UNCHANGED <<disk, place, lock>>
           \/ /\ old = Nothing /\ new # Nothing
              /\ Goto(p, "link")
              /\ UNCHANGED <<disk, at, lock>>
           \/ /\ old.t = "text" /\ new = old
              /\ Goto(p, "unlink")
              /\ UNCHANGED <<disk, at, lock>>
           \/ /\ old.t = "text" /\ new # Nothing /\ new # old
              /\ Stop(p)
              /\ UNCHANGED <<disk, at>>
           \/ /\ old.t = "text" /\ new = Nothing
              /\ Put(Json5(f), old)                          \* copy_atomic
              /\ Goto(p, "unlink")
              /\ UNCHANGED <<at, lock>>
    /\ UNCHANGED <<level, snaps, saved, sockdir, audit, before, unread, plan,
                   history, bounds>>

RemoveOld(p) ==
    /\ place[p] = "unlink"
    /\ Put(Legacy(FileSeq[at[p].i]), Nothing)
    /\ Goto(p, "link")
    /\ UNCHANGED <<level, lock, snaps, saved, sockdir, audit, at, before,
                   unread, plan, history, bounds>>

\* A real file that appeared at the old path is refused.
ensure_symlink(p) ==
    /\ place[p] = "link"
    /\ LET old == Legacy(FileSeq[at[p].i]) IN
        IF disk[old].t = "text" THEN Stop(p) /\ UNCHANGED <<disk, at>>
        ELSE Put(old, Link) /\ NextFile(p) /\ Goto(p, "move") /\ UNCHANGED lock
    /\ UNCHANGED <<level, snaps, saved, sockdir, audit, before, unread, plan,
                   history, bounds>>

\* rename; a copy that leaves the original across filesystems.
migrate_audit_log(p) ==
    /\ place[p] = "move"
    /\ at[p].i > Len(FileSeq)
    /\ audit' = IF audit # "legacy" THEN audit
                 ELSE IF OneFilesystem THEN "root" ELSE "both"
    /\ Goto(p, "record")
    /\ UNCHANGED <<disk, level, lock, snaps, saved, sockdir, at, before, unread,
                   plan, history, bounds>>

-----------------------------------------------------------------------------
(* Migration 0002: ssh-agent-socket.                                       *)

\* run_in on one dotfile: a block that names the old socket is to be
\* repointed, one whose path cannot be read is remembered.
ReadBlock(p) ==
    /\ place[p] = "read"
    /\ at[p].i \in DOMAIN DotSeq
    /\ LET d == DotSeq[at[p].i] IN
        \/ /\ NamesOld(d)
           /\ Goto(p, "repoint")
           /\ UNCHANGED <<at, unread>>
        \/ /\ ~NamesOld(d)
           /\ unread' = IF Unexpanded(d) THEN [unread EXCEPT ![p] = @ \cup {d}]
                        ELSE unread
           /\ NextFile(p)
           /\ UNCHANGED place
    /\ UNCHANGED <<disk, level, lock, snaps, saved, sockdir, audit, before,
                   plan, history, bounds>>

\* rewrite_in_place on the file as it is now: Rewrote::Nothing, the block
\* went away in between, is Outcome::Incomplete.
rewrite_in_place(p) ==
    /\ place[p] = "repoint"
    /\ LET d == DotSeq[at[p].i]
           ls == LinesOf(d)
           updated == replace_block(ls, ssh_block(NewUnderHome))
       IN  IF updated = ls THEN Stop(p) /\ UNCHANGED <<disk, at, own, outrun, edits>>
           ELSE /\ Rewrite(d, updated)
                /\ NextFile(p)
                /\ Goto(p, "read")
                /\ UNCHANGED lock
    /\ UNCHANGED <<level, snaps, saved, sockdir, audit, before, unread, plan,
                   kept, inforce, torn, undone, orphans, starts, kills>>

\* Mutant: a block that could not be read does not stop the migration.
CleanRegardless(p) ==
    /\ place[p] = "read"
    /\ at[p].i > Len(DotSeq)
    /\ sockdir' = FALSE
    /\ Goto(p, "record")
    /\ UNCHANGED <<disk, level, lock, snaps, saved, audit, at, before, unread,
                   plan, history, bounds>>

\* The end of run_in: Incomplete while a block could not be read, else
\* clean_legacy_runtime_dir.
clean_legacy_runtime_dir(p) ==
    /\ place[p] = "read"
    /\ at[p].i > Len(DotSeq)
    /\ IF unread[p] # {} THEN Stop(p) /\ UNCHANGED sockdir
       ELSE sockdir' = FALSE /\ Goto(p, "record") /\ UNCHANGED lock
    /\ UNCHANGED <<disk, level, snaps, saved, audit, at, before, unread, plan,
                   history, bounds>>

-----------------------------------------------------------------------------
(* Migration 0003: JSON5 to TOML.                                          *)

\* Mutant: a converted file that is already there is written over.
ConvertOver(p) ==
    /\ place[p] = "convert"
    /\ at[p].i \in DOMAIN FileSeq
    /\ LET f == FileSeq[at[p].i]
           from == disk[Json5(f)]
       IN  \/ /\ from = Nothing
              /\ NextFile(p)
              /\ UNCHANGED <<disk, place, lock>>
           \/ /\ from # Nothing /\ ~from.ok
              /\ Stop(p)
              /\ UNCHANGED <<disk, at>>
           \/ /\ from # Nothing /\ from.ok
              /\ Put(Toml(f), from)
              /\ Goto(p, "converted")
              /\ UNCHANGED <<at, lock>>
    /\ UNCHANGED <<level, snaps, saved, sockdir, audit, before, unread, plan,
                   history, bounds>>

\* Read `from`, write `to`.  Both there, or JSON5 that does not parse, is
\* Outcome::Incomplete.  The conversion keeps what the file declares.
convert(p) ==
    /\ place[p] = "convert"
    /\ at[p].i \in DOMAIN FileSeq
    /\ LET f == FileSeq[at[p].i]
           from == disk[Json5(f)]
       IN  \/ /\ from = Nothing
              /\ NextFile(p)
              /\ UNCHANGED <<disk, place, lock>>
           \/ /\ from # Nothing /\ (Exists(Toml(f)) \/ ~from.ok)
              /\ Stop(p)
              /\ UNCHANGED <<disk, at>>
           \/ /\ from # Nothing /\ ~Exists(Toml(f)) /\ from.ok
              /\ Put(Toml(f), from)
              /\ Goto(p, "converted")
              /\ UNCHANGED <<at, lock>>
    /\ UNCHANGED <<level, snaps, saved, sockdir, audit, before, unread, plan,
                   history, bounds>>

RemoveFrom(p) ==
    /\ place[p] = "converted"
    /\ Put(Json5(FileSeq[at[p].i]), Nothing)
    /\ NextFile(p)
    /\ Goto(p, "convert")
    /\ UNCHANGED <<level, lock, snaps, saved, sockdir, audit, before, unread,
                   plan, history, bounds>>

clear_legacy_symlinks(p) ==
    /\ place[p] = "convert"
    /\ at[p].i > Len(FileSeq)
    /\ disk' = [q \in Paths |-> IF disk[q] = Link THEN Nothing ELSE disk[q]]
    /\ Goto(p, "record")
    /\ UNCHANGED <<level, lock, snaps, saved, sockdir, audit, at, before,
                   unread, plan, history, bounds>>

-----------------------------------------------------------------------------
(* The runner, after a migration.                                          *)

\* record_post_state: which declared paths the migration created and what it
\* left in each, in the snapshot's filemap if there is one.
record_post_state(p) ==
    /\ place[p] = "record"
    /\ LET m == at[p].m
           there == {q \in before[p].declared : Exists(q)}
       IN  snaps' = IF there = {} \/ snaps[m - 1] = <<>> THEN snaps
                    ELSE [snaps EXCEPT ![m - 1] =
                             <<[@[1] EXCEPT !.created = before[p].absent \cap there,
                                            !.post = [q \in there |-> Body(q)]]>>]
    /\ Goto(p, "stamp")
    /\ UNCHANGED <<disk, level, lock, saved, sockdir, audit, at, before, unread,
                   plan, history, bounds>>

\* write_state after each migration, and on to the next.
Stamp(p) ==
    /\ place[p] = "stamp"
    /\ LET m == at[p].m IN
        /\ level' = m
        /\ at' = [at EXCEPT ![p] = [m |-> m + 1, i |-> 1]]
        /\ IF m = Latest THEN Goto(p, "body") /\ lock' = NoOne
           ELSE Goto(p, "snapshot") /\ UNCHANGED lock
    /\ UNCHANGED <<disk, snaps, saved, sockdir, audit, before, unread, plan,
                   history, bounds>>

-----------------------------------------------------------------------------
(* secreq migrate restore.                                                 *)

\* Where the file a snapshot entry describes lives today.
live_path(q) ==
    IF q[1] = "legacy" /\ Exists(Json5(q[2])) THEN Json5(q[2]) ELSE q

\* Files a later migration created inside the root, which the target level has
\* no snapshot of.
stale_root_artifacts(l) ==
    {q \in UNION {snaps[h][1].created : h \in {k \in l..2 : snaps[k] # <<>>}} :
        q[1] \in {"json5", "toml"} /\ q \notin DOMAIN snaps[l][1].files /\ Exists(q)}

\* The digests recorded at or above the level, a later migration's winning.
recorded_post_digests(l) ==
    LET maps == {h \in l..2 : snaps[h] # <<>>}
        known == UNION {DOMAIN snaps[h][1].post : h \in maps}
    IN  [q \in known |->
            snaps[Max({h \in maps : q \in DOMAIN snaps[h][1].post})][1].post[q]]

\* No digest means it might be the user's.
is_hand_edited(digests, q) ==
    Exists(q) /\ (q \in DOMAIN digests => Body(q) # digests[q])

NoPlan == [l |-> 0, entries |-> <<>>, stale |-> <<>>, edited |-> {},
           seen |-> <<>>, left |-> {}, target |-> <<>>]

\* What restore_in reads before it asks: each entry with the live file and its
\* body, the artifacts to remove, and which of them carry edits.  What is at
\* the paths it will write to or remove is seen, and all of it is left to do.
PlanOf(l) ==
    LET files == snaps[l][1].files
        entries == [q \in DOMAIN files |->
                        [live |-> live_path(q), body |-> Body(live_path(q)),
                         snapshot |-> files[q]]]
        changed == {entries[q].live : q \in {r \in DOMAIN files :
                                     entries[r].body # entries[r].snapshot}}
        stale == stale_root_artifacts(l)
    IN  [l |-> l, entries |-> entries, stale |-> [q \in stale |-> Body(q)],
         edited |-> {q \in changed \cup stale :
                        is_hand_edited(recorded_post_digests(l), q)},
         seen |-> [q \in DOMAIN files \cup stale
                         \cup {live_path(r) : r \in DOMAIN files} |-> disk[q]],
         left |-> DOMAIN files \cup stale, target |-> <<>>]

\* restore_in up to its prompt.  Without a snapshot there is nothing to do.
restore_in(p, l) ==
    /\ p = Terminal
    /\ place[p] = "idle"
    /\ starts < MaxStarts
    /\ snaps[l] # <<>>
    /\ starts' = starts + 1
    /\ plan' = [plan EXCEPT ![p] = PlanOf(l)]
    /\ Goto(p, "prompt")
    /\ UNCHANGED <<disk, level, lock, snaps, saved, sockdir, audit, at, before,
                   unread, history, kills, edits>>

\* The user confirms (or --yes), and the lock is taken; or declines.
Confirm(p) ==
    /\ place[p] = "prompt"
    /\ \/ /\ lock = NoOne
          /\ lock' = p
          /\ Goto(p, "rescue")
       \/ /\ Goto(p, "idle")
          /\ UNCHANGED lock
    /\ UNCHANGED <<disk, level, snaps, saved, sockdir, audit, at, before,
                   unread, plan, history, bounds>>

\* The name of a file in a snapshot or a rescue: a legacy file and the one the
\* first migration made of it have the same.
NameOf(q) == IF q[1] = "legacy" THEN Json5(q[2]) ELSE q

\* The bodies read for the plan.
Rescued(P, second) ==
    {[second |-> second, name |-> NameOf(q), body |-> P.entries[q].body] :
        q \in {r \in DOMAIN P.entries : Exists(P.entries[r].live)}}
    \cup {[second |-> second, name |-> q, body |-> P.stale[q]] : q \in DOMAIN P.stale}

\* They are saved to current-<second>: the directory of this restore, or the one
\* of an earlier restore in that second, whose files of the same names they
\* replace.
Seconds == {s.second : s \in saved}
Rescue(p) ==
    /\ place[p] = "rescue"
    /\ \E second \in Seconds \cup {Cardinality(Seconds)} :
        LET new == Rescued(plan[p], second)
            over == {s \in saved : s.second = second /\ \E n \in new : n.name = s.name}
        IN  /\ saved' = (saved \ over) \cup new
            /\ undone' = undone
                    \cup (IF over = {} THEN {} ELSE {"twice"})
                    \cup (IF \E q \in DOMAIN plan[p].seen :
                                disk[q].t = "text" /\ disk[q] # plan[p].seen[q]
                          THEN {"late"} ELSE {})
    /\ Goto(p, "drop")
    /\ UNCHANGED <<disk, level, lock, snaps, sockdir, audit, at, before, unread,
                   plan, kept, inforce, own, torn, outrun, orphans, bounds>>

\* One after the other, in some order.
Some(S) == CHOOSE x \in S : TRUE
Targets(p) == plan[p].left \cap DOMAIN plan[p].entries
Without(P, q) == [P EXCEPT !.left = @ \ {q}, !.target = q]

\* Whatever is at the destination goes first: it may be a symlink.
DropTarget(p) ==
    /\ place[p] = "drop"
    /\ Targets(p) # {}
    /\ LET q == Some(Targets(p)) IN
        /\ Put(q, Nothing)
        /\ plan' = [plan EXCEPT ![p] = Without(@, q)]
    /\ Goto(p, "put")
    /\ torn' = torn \cup {plan[p].l}
    /\ undone' = undone \cup {IF \E k \in torn \cup {level} : k < plan[p].l
                               THEN "up" ELSE "down"}
    /\ UNCHANGED <<level, lock, snaps, saved, sockdir, audit, at, before,
                   unread, kept, inforce, own, outrun, orphans, bounds>>

\* The snapshot's version is in force.
PutTarget(p) ==
    /\ place[p] = "put"
    /\ LET q == plan[p].target
           b == plan[p].entries[q].snapshot
       IN  /\ Put(q, b)
           /\ own' = IF q[1] = "dot" THEN [own EXCEPT ![q[2]] = OwnText(b.lines)]
                     ELSE own
           /\ inforce' = IF q[1] = "dot" THEN inforce
                         ELSE [inforce EXCEPT ![q[2]] = b.v]
    /\ Goto(p, "forward")
    /\ UNCHANGED <<level, lock, snaps, saved, sockdir, audit, at, before,
                   unread, plan, kept, torn, undone, outrun, orphans, bounds>>

\* The forward artifact goes when it is another file.
RemoveForward(p) ==
    /\ place[p] = "forward"
    /\ LET q == plan[p].target
           live == plan[p].entries[q].live
       IN  IF live # q THEN Put(live, Nothing) ELSE UNCHANGED disk
    /\ Goto(p, "drop")
    /\ UNCHANGED <<level, lock, snaps, saved, sockdir, audit, at, before,
                   unread, plan, history, bounds>>

\* One stale artifact after the other; one that is not there any more is an
\* error, and the level stays.  A file whose converted version goes, and of
\* which the level has no snapshot, is not in force any more.
RemoveStale(p) ==
    /\ place[p] = "drop"
    /\ Targets(p) = {} /\ plan[p].left # {}
    /\ LET q == Some(plan[p].left) IN
        /\ plan' = [plan EXCEPT ![p] = Without(@, q)]
        /\ IF ~Exists(q) THEN Stop(p) /\ UNCHANGED <<disk, inforce>>
           ELSE /\ Put(q, Nothing)
                /\ inforce' = IF \E r \in DOMAIN plan[p].entries :
                                     r[1] # "dot" /\ r[2] = q[2]
                              THEN inforce ELSE [inforce EXCEPT ![q[2]] = 0]
                /\ UNCHANGED <<place, lock>>
    /\ UNCHANGED <<level, snaps, saved, sockdir, audit, at, before, unread,
                   kept, own, torn, undone, outrun, orphans, bounds>>

AllRestored(p) ==
    /\ place[p] = "drop"
    /\ plan[p].left = {}
    /\ Goto(p, "level")
    /\ UNCHANGED <<disk, level, lock, snaps, saved, sockdir, audit, at, before,
                   unread, plan, history, bounds>>

\* The file the user opens to change f.
Current(f) ==
    IF Exists(Toml(f)) THEN Toml(f)
    ELSE IF Exists(Json5(f)) THEN Json5(f) ELSE Legacy(f)

\* write_state(level)
RollBackLevel(p) ==
    /\ place[p] = "level"
    /\ level' = plan[p].l
    /\ torn' = torn \ {plan[p].l}
    /\ Stop(p)
    /\ UNCHANGED <<disk, snaps, saved, sockdir, audit, at, before, unread, plan,
                   kept, inforce, own, undone, outrun, orphans, bounds>>

-----------------------------------------------------------------------------
(* Kills, and the user at the files.                                       *)

Kill(p) ==
    /\ place[p] # "idle"
    /\ kills < MaxKills
    /\ kills' = kills + 1
    /\ Goto(p, "idle")
    /\ lock' = IF lock = p THEN NoOne ELSE lock
    /\ UNCHANGED <<disk, level, snaps, saved, sockdir, audit, at, before,
                   unread, plan, history, starts, edits>>

\* The user was asked, and answered.
Restoring == place[Terminal] \in {"rescue", "drop", "put", "forward", "level"}

\* Nobody saves a config file in the instant between its copy and its removal,
\* nor while a restore writes.
NobodyMoves == /\ \A p \in Processes : place[p] \notin {"unlink", "link", "converted"}
               /\ ~Restoring

\* A new version of f at q, by the user or a command of theirs, which may undo
\* one of the user's.
Author(f, q, b, lost) ==
    /\ Put(q, b)
    /\ kept' = {w \in kept : Exists(q) => w # <<f, disk[q].v>>}
               \cup {<<f, b.v>>} \cup {<<f, v>> : v \in lost}
    /\ inforce' = [inforce EXCEPT ![f] = b.v]
    /\ edits' = b.v - 1

NewVersion == edits + 2

\* The user may take wraps out, or the shim_dir.
Edit(f) ==
    /\ edits < MaxEdits
    /\ NobodyMoves
    /\ Exists(Current(f))
    /\ LET old == Body(Current(f)) IN
        \E left \in SUBSET old.wraps, dir \in {old.dir, NoDir} :
            /\ Author(f, Current(f), Text(f, NewVersion, TRUE, left, dir), {})
            /\ orphans' = orphans \cup (old.wraps \ left)
    /\ UNCHANGED <<level, lock, snaps, saved, sockdir, audit, procs, own, torn,
                   undone, outrun, starts, kills>>

\* Two files where a migration wants one: the user deletes one of them.
Tidy(f, q) ==
    /\ NobodyMoves /\ lock = NoOne
    /\ q \in {Legacy(f), Json5(f), Toml(f)}
    /\ disk[q].t = "text"
    /\ \E r \in {Legacy(f), Json5(f), Toml(f)} \ {q} :
        /\ disk[r].t = "text"
        /\ disk' = [disk EXCEPT ![q] = Nothing]
        /\ kept' = kept \ {<<f, disk[q].v>>}
        /\ inforce' = [inforce EXCEPT ![f] = disk[r].v]
    /\ UNCHANGED <<level, lock, snaps, saved, sockdir, audit, procs, own,
                   torn, undone, outrun, orphans, bounds>>

EditDotfile(d) ==
    /\ edits < MaxEdits
    /\ ~Restoring
    /\ \E new \in UserSaves(LinesOf(d)) :
        /\ Put(Dot(d), Lined(new))
        /\ own' = [own EXCEPT ![d] = OwnText(new)]
    /\ edits' = edits + 1
    /\ UNCHANGED <<level, lock, snaps, saved, sockdir, audit, procs, kept,
                   inforce, torn, undone, outrun, orphans, starts, kills>>

-----------------------------------------------------------------------------

\* An install of before the root existed: some config, perhaps one that does
\* not parse, and an SSH block under one of its spellings.
MigrationInit(configs, dotfiles) ==
    /\ disk = [q \in Paths |-> CASE q[1] = "legacy" -> configs[q[2]]
                                [] q[1] = "dot" -> Lined(dotfiles[q[2]])
                                [] OTHER -> Nothing]
    /\ level = 0
    /\ lock = NoOne
    /\ snaps = [l \in 0..2 |-> <<>>]
    /\ saved = {}
    /\ sockdir = TRUE
    /\ audit = "legacy"
    /\ place = [p \in Processes |-> "idle"]
    /\ at = [p \in Processes |-> [m |-> 0, i |-> 1]]
    /\ before = [p \in Processes |-> [declared |-> {}, absent |-> {}]]
    /\ unread = [p \in Processes |-> {}]
    /\ plan = [p \in Processes |-> NoPlan]
    /\ kept = {<<f, disk[Legacy(f)].v>> : f \in {g \in Files : disk[Legacy(g)] # Nothing}}
    /\ inforce = [f \in Files |-> IF disk[Legacy(f)] = Nothing THEN 0
                                  ELSE disk[Legacy(f)].v]
    /\ own = [d \in Dotfiles |-> OwnText(LinesOf(d))]
    /\ torn = {}
    /\ undone = {} /\ outrun = {} /\ orphans = {}
    /\ starts = 0 /\ kills = 0 /\ edits = 0

MigrationNext ==
    \/ \E p \in Processes :
        \/ Start(p) \/ run_pending_in(p) \/ acquire_lock(p)
        \/ snapshot_if_absent(p)
        \/ migrate_config_file(p) \/ RemoveOld(p) \/ ensure_symlink(p)
        \/ migrate_audit_log(p)
        \/ ReadBlock(p) \/ rewrite_in_place(p) \/ clean_legacy_runtime_dir(p)
        \/ convert(p) \/ RemoveFrom(p) \/ clear_legacy_symlinks(p)
        \/ record_post_state(p) \/ Stamp(p)
        \/ \E l \in 0..2 : restore_in(p, l)
        \/ Confirm(p) \/ Rescue(p) \/ DropTarget(p) \/ PutTarget(p)
        \/ RemoveForward(p) \/ RemoveStale(p) \/ AllRestored(p)
        \/ RollBackLevel(p)
        \/ Kill(p)
    \/ \E f \in Files : Edit(f)
    \/ \E f \in Files, q \in Paths : Tidy(f, q)
    \/ \E d \in Dotfiles : EditDotfile(d)

-----------------------------------------------------------------------------
(* Properties.                                                             *)

Copies == {disk[q] : q \in Paths} \cup {s.body : s \in saved}
          \cup UNION {Range(snaps[l][1].files) : l \in {k \in 0..2 : snaps[k] # <<>>}}

\* Every version of a config file that the user wrote and did not overwrite or
\* delete is live, in a snapshot or in a rescue directory: a restore saves what
\* it is about to overwrite, "so a mistaken restore is itself recoverable"
\* (migrate/mod.rs).  A command that replaces config.toml undoes a save that
\* came after its read; of such a file nothing is said.
RestoreIsRecoverable ==
    \A w \in kept : w[1] \notin outrun =>
        \E b \in Copies : b.t = "text" /\ b.f = w[1] /\ b.v = w[2]

\* No work of the user's disappears from the disk, whatever process is killed
\* between which two file operations, and however migrations, restores and
\* saves follow one another (migrate/mod.rs: "turning the safety net into the
\* thing that loses the config").  Three restores are the exceptions.  One upwards
\* puts a file beside the one in force, and the next restore rescues only one
\* of the two.  One that was planned before the user or a migration wrote a
\* file that it replaces saves what it read then: it locks after it asks.  And
\* two restores in one second share a rescue directory: the second saves over
\* what the first saved.
NoWorkIsLost == undone \cap {"up", "late", "twice"} = {} => RestoreIsRecoverable

\* A stamped level means its migrations happened: at the last level every
\* file the user has in force is where this secreq reads it and nowhere else,
\* and no SSH block names the socket directory migration 0002 emptied, after
\* kills, refusals and reruns.  A block that names it through ${HOME} is the
\* exception: the migration takes it for another's socket and goes on.  A
\* restore upwards stamps levels whose migrations an earlier restore undid.
StampMeansDone ==
    level = Latest /\ torn = {} /\ "up" \notin undone =>
        /\ \A f \in Files :
            /\ disk[Legacy(f)] = Nothing /\ disk[Json5(f)] = Nothing
            /\ inforce[f] # 0 => Exists(Toml(f)) /\ disk[Toml(f)].v = inforce[f]
        /\ \A d \in Dotfiles :
            Range(existing_block(LinesOf(d))) \cap OldSpellings \subseteq {OldBraced}
=============================================================================
