------------------------------ MODULE HostSetup ------------------------------
(***************************************************************************)
(* The commands that write outside the daemon, as the user types them in    *)
(* one terminal: wrap, unwrap, init, ssh setup and doctor                  *)
(* (commands/config.rs, commands/init.rs, commands/ssh.rs, shim.rs).  Each  *)
(* passes the migration gate first; wrapped commands pass it beside them.   *)
(*                                                                         *)
(* A command may be killed between two of its files.  What it replaces it   *)
(* has read before, without a lock: a save of the user's in between is      *)
(* undone.  So could another command's entry be; there is one terminal.     *)
(***************************************************************************)
EXTENDS Migrations

CONSTANTS
    Binaries,   \* names that may be wrapped
    Config,     \* the file that declares wraps
    ShimDirs,   \* directories the user may choose for the shims
    Installs    \* what secreq finds: configs, dotfiles and shims

ShimStates == {"none", "ours", "old", "foreign"}

\* An install of before the root existed: some config, perhaps one that does
\* not parse, dotfiles with an SSH block or without, and shims of the wraps.
ASSUME HostAssumption ==
    /\ Config \in Files
    /\ NoDir \notin ShimDirs
    /\ {"ssh", "rc"} \subseteq Dotfiles
    /\ \A i \in Installs :
        /\ i.shims \in [ShimDirs \X Binaries -> ShimStates]
        /\ \A f \in Files :
            \/ i.configs[f] = Nothing
            \/ \E ok \in BOOLEAN, wraps \in SUBSET Binaries, dir \in ShimDirs \cup {NoDir} :
                i.configs[f] = Text(f, 1, ok, wraps, dir)
        /\ \A d \in Dotfiles : WellFormed(i.dotfiles[d])
        /\ \A s \in ShimDirs, b \in Binaries : i.shims[<<s, b>>] \in {"ours", "old"} =>
                i.configs[Config] # Nothing /\ b \in i.configs[Config].wraps

VARIABLES
    shims,   \* the file at each <shim directory>/<binary>
    doing    \* the command under way: its argument, and what its plan found

hostvars == <<mvars, shims, doing>>

\* A shim of ours on PATH: init leaves the block of an earlier directory in.
Managed(b) == \E s \in ShimDirs : shims[<<s, b>>] \in {"ours", "old"}

\* No command, no argument.
Idle == [binary |-> "", dir |-> NoDir, state |-> "", method |-> ""]

HasConfig == disk[Toml(Config)] # Nothing
config == disk[Toml(Config)]

At(where) == place[Terminal] = where
Step(where) == Goto(Terminal, where)

\* edit_config: one entry of config.toml, the rest of the document as it was
\* read; a file that is not there starts with its schema line.  The user may
\* save between the read and the rename: their version is gone.
edit_config(wraps, dir) ==
    \E raced \in BOOLEAN :
        /\ raced => HasConfig /\ edits < MaxEdits
        /\ Author(Config, Toml(Config),
                  Text(Config, IF raced THEN NewVersion + 1 ELSE NewVersion, TRUE,
                       wraps, dir),
                  IF raced THEN {NewVersion} ELSE {})
        /\ outrun' = IF raced THEN outrun \cup {Config} ELSE outrun

UnchangedByCommand ==
    UNCHANGED <<level, lock, snaps, saved, sockdir, audit, at, before, unread,
                plan, torn, undone, starts, kills>>
KeepsWraps == UNCHANGED <<kept, inforce, orphans>>
KeepsFiles == KeepsWraps /\ UNCHANGED <<disk, own, outrun, edits>>

-----------------------------------------------------------------------------

\* secreq x, or a command that writes nothing: wrap_run is another module's.
OtherCommand(p) ==
    /\ place[p] = "body"
    /\ Goto(p, "idle")
    /\ UNCHANGED <<disk, level, lock, snaps, saved, sockdir, audit, at, before,
                   unread, plan, history, bounds, shims, doing>>

\* secreq wrap: the entry first, then the shim.  No shim_dir, no wrap.
wrap(b) ==
    /\ At("body")
    /\ HasConfig /\ config.dir # NoDir
    /\ edit_config(config.wraps \cup {b}, config.dir)
    /\ doing' = [Idle EXCEPT !.binary = b, !.dir = config.dir]
    /\ Step("install")
    /\ UNCHANGED <<own, orphans, shims>>
    /\ UnchangedByCommand

\* shim::install: refresh a shim of ours, refuse a file that is not.
install(shim) == IF shim = "foreign" THEN "foreign" ELSE "ours"

InstallShim ==
    /\ At("install")
    /\ shims' = [shims EXCEPT ![<<doing.dir, doing.binary>>] = install(@)]
    /\ doing' = Idle
    /\ Step("idle")
    /\ KeepsFiles /\ UnchangedByCommand

\* Mutant: the entry goes first.
UnwrapEntryFirst(b) ==
    /\ At("body")
    /\ HasConfig /\ b \in config.wraps
    /\ edit_config(config.wraps \ {b}, config.dir)
    /\ doing' = Idle
    /\ Step("idle")
    /\ UNCHANGED <<own, orphans, shims>>
    /\ UnchangedByCommand

\* secreq unwrap: the shim first, if there is a shim_dir (a file that is not
\* ours stops the command), then the entry.  A shim elsewhere stays.
unwrap_cmd(b) ==
    /\ At("body")
    /\ HasConfig
    /\ LET s == config.dir
           refused == s # NoDir /\ shims[<<s, b>>] = "foreign"
       IN  /\ shims' = IF s = NoDir \/ refused THEN shims
                       ELSE [shims EXCEPT ![<<s, b>>] = "none"]
           /\ IF ~refused /\ b \in config.wraps
              THEN /\ Step("unlist")
                   /\ doing' = [Idle EXCEPT !.binary = b]
                   /\ orphans' = IF Managed(b)' THEN orphans \cup {b} ELSE orphans
              ELSE Step("idle") /\ UNCHANGED <<doing, orphans>>
    /\ UNCHANGED <<kept, inforce, disk, own, outrun, edits>>
    /\ UnchangedByCommand

RemoveEntry ==
    /\ At("unlist")
    /\ IF HasConfig THEN edit_config(config.wraps \ {doing.binary}, config.dir)
       ELSE edit_config({}, NoDir)
    /\ doing' = Idle
    /\ Step("idle")
    /\ UNCHANGED <<own, orphans, shims>>
    /\ UnchangedByCommand

\* secreq doctor: managed shims of declared wraps whose body is not what
\* install would write are refreshed.
doctor ==
    /\ At("body")
    /\ HasConfig
    /\ shims' = [k \in ShimDirs \X Binaries |->
                    IF k[1] = config.dir /\ k[2] \in config.wraps /\ shims[k] = "old"
                    THEN "ours" ELSE shims[k]]
    /\ Step("idle")
    /\ UNCHANGED doing
    /\ KeepsFiles /\ UnchangedByCommand

\* secreq init: the directory for the shims, and step 3, path_setup::plan on the
\* shell's rc, shown to the user.
init ==
    /\ At("body")
    /\ \E s \in ShimDirs :
        doing' = [Idle EXCEPT !.dir = s,
                              !.state = IF path_configured(LinesOf("rc"))
                                        THEN "UpToDate" ELSE "Absent"]
    /\ Step("path")
    /\ UNCHANGED shims
    /\ KeepsFiles /\ UnchangedByCommand

\* path_setup::apply if the user says so.
AppendPath ==
    /\ At("path")
    /\ \E yes \in BOOLEAN :
        RewriteIfNew("rc", path_apply(LinesOf("rc"), ~yes \/ doing.state = "UpToDate"))
    /\ Step("shimdir")
    /\ UNCHANGED <<doing, shims>>
    /\ KeepsWraps /\ UnchangedByCommand

\* Steps 4 and 4b: shim_dir recorded, managed shims of declared wraps
\* reinstalled.
SetShimDir ==
    /\ At("shimdir")
    /\ LET wraps == IF HasConfig THEN config.wraps ELSE {} IN
        /\ edit_config(wraps, doing.dir)
        /\ shims' = [k \in ShimDirs \X Binaries |->
                        IF k[1] = doing.dir /\ k[2] \in wraps /\ shims[k] = "old"
                        THEN install(shims[k]) ELSE shims[k]]
    /\ doing' = Idle
    /\ \E also_ssh \in BOOLEAN : Step(IF also_ssh THEN "ssh" ELSE "idle")
    /\ UNCHANGED <<own, orphans>>
    /\ UnchangedByCommand

MethodFile(method) == IF method = "SshConfig" THEN "ssh" ELSE "rc"
Methods == {"SshConfig", "ShellRc"}

\* secreq ssh setup, or init's last step: the wiring step's plan, shown to the
\* user.
ssh_setup_wiring_step(method) ==
    /\ At("body") \/ At("ssh")
    /\ LET found == block_state(LinesOf(MethodFile(method)), ssh_block(NewUnderHome))
       IN  /\ doing' = [Idle EXCEPT !.method = method, !.state = found]
           /\ Step(IF found = "UpToDate" THEN "idle" ELSE "wire")
    /\ UNCHANGED shims
    /\ KeepsFiles /\ UnchangedByCommand

\* ssh_setup::apply of the plan, on the file as it is after the prompt.
WireAgent ==
    /\ At("wire")
    /\ \E yes \in BOOLEAN :
        LET d == MethodFile(doing.method) IN
        RewriteIfNew(d, IF yes THEN ssh_apply(LinesOf(d), doing.state, doing.method,
                                              ssh_block(NewUnderHome))
                        ELSE LinesOf(d))
    /\ doing' = Idle
    /\ Step("idle")
    /\ UNCHANGED shims
    /\ KeepsWraps /\ UnchangedByCommand

\* secreq ssh setup --undo: ssh_setup::remove.
remove(method) ==
    /\ At("body")
    /\ LET d == MethodFile(method) IN RewriteIfNew(d, strip_block(LinesOf(d)))
    /\ Step("idle")
    /\ UNCHANGED <<shims, doing>>
    /\ KeepsWraps /\ UnchangedByCommand

\* The user puts a program of their own at a shim's place.
DropForeign(s, b) ==
    /\ shims[<<s, b>>] = "none"
    /\ edits < MaxEdits
    /\ edits' = edits + 1
    /\ shims' = [shims EXCEPT ![<<s, b>>] = "foreign"]
    /\ UNCHANGED <<disk, level, lock, snaps, saved, sockdir, audit, procs,
                   history, starts, kills, doing>>

HostNext ==
    \/ MigrationNext /\ UNCHANGED <<shims, doing>>
    \/ \E p \in Processes : OtherCommand(p)
    \/ \E b \in Binaries : wrap(b) \/ unwrap_cmd(b)
    \/ \E s \in ShimDirs, b \in Binaries : DropForeign(s, b)
    \/ InstallShim \/ RemoveEntry \/ doctor
    \/ init \/ AppendPath \/ SetShimDir
    \/ \E method \in Methods : ssh_setup_wiring_step(method) \/ remove(method)
    \/ WireAgent

HostInit ==
    \E i \in Installs :
        /\ MigrationInit(i.configs, i.dotfiles)
        /\ shims = i.shims
        /\ doing = Idle

HostSpec == HostInit /\ [][HostNext]_hostvars

-----------------------------------------------------------------------------

TypeOK ==
    /\ DOMAIN disk = Paths
    /\ level \in 0..3
    /\ lock \in Processes \cup {NoOne}
    /\ shims \in [ShimDirs \X Binaries -> ShimStates]
    /\ audit \in {"legacy", "root", "both"}

\* Whatever secreq does to a dotfile - blocks written, repointed, stripped and
\* restored, by commands that planned against an older file - the user's own
\* lines stay, in their order (ssh_setup.rs: "the rest of the file is
\* preserved verbatim"; a line is without its terminator).  There are two
\* exceptions: a restore that is half-way has the file away, and a save that
\* comes between a command's read of the file and its rename is undone.
UserTextSurvives ==
    torn = {} => \A d \in Dotfiles \ outrun : OwnText(LinesOf(d)) = own[d]

\* A shim of ours always has its wrap: killed anywhere in wrap, unwrap or init,
\* secreq leaves no `gh` on PATH that it would refuse to run.  The exceptions:
\* a wrap the user took out of the file by hand; `unwrap` of one whose shim is
\* not in the shim_dir of today's config, or with no shim_dir, which removes
\* the entry alone; and a restore, which drops entries with the user's consent
\* and keeps the shims.
ShimHasWrap ==
    \A b \in Binaries \ orphans : Managed(b) /\ undone = {} =>
        Exists(Current(Config)) /\ b \in Body(Current(Config)).wraps
=============================================================================
