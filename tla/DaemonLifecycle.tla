--------------------------- MODULE DaemonLifecycle ---------------------------
(***************************************************************************)
(* How consent daemons come and go (daemon/mod.rs, daemon/client.rs and    *)
(* commands/daemon.rs): clients find, replace and spawn daemons through a  *)
(* pid file, its flock, a socket path and a spawn lock; daemons idle out,  *)
(* are told to stop, are killed or crash, each between any two of these    *)
(* system calls.                                                           *)
(*                                                                         *)
(* A flock belongs to an inode, not to a name: the pid file is the number  *)
(* of the inode at its path, 0 for none, and an inode number is never      *)
(* reused while a daemon holds it.  A step is one system call, or one      *)
(* critical section of the daemon's State mutex.                           *)
(***************************************************************************)
EXTENDS Naturals, FiniteSets

CONSTANTS
    Clients,      \* processes that ask for consent
    Operators,    \* processes of `secreq daemon stop`, `stop --force`, `status`
    Build,        \* Build[c]: BUILD_ID of the client's binary
    FirstBuild,   \* BUILD_ID of a daemon started by hand or at login
    SshAgent,     \* whether config.toml declares ssh identities
    MaxTries,     \* attempts of acquire_pidfile_lock
    MaxDaemons,   \* bound: daemon processes started
    MaxInodes,    \* bound: pid files created
    None

Processes == Clients \cup Operators
Daemons == 1..MaxDaemons
Inodes == 1..MaxInodes

ASSUME LifecycleAssumption ==
    /\ DOMAIN Build = Clients
    /\ MaxTries \in Nat \ {0} /\ MaxDaemons \in Nat \ {0}
    /\ MaxInodes \in Nat \ {0}
    /\ SshAgent \in BOOLEAN
    /\ Processes \cap Daemons = {} /\ None \notin Processes \cup Daemons

VARIABLES
    daemon,      \* where each daemon process is
    build,       \* the build it runs
    ino,         \* the pid file inode it has open
    tries,       \* failed rounds of acquire_pidfile_lock
    stop,        \* its shutdown flag: "no", or what raised it
    orphaned,    \* history: its verified pid file was unlinked under it
    pidfile,     \* the inode at the pid file's path, 0 for none
    inodes,      \* inodes created so far
    holder,      \* who holds the flock of each inode
    pid,         \* the daemon named by each inode's contents
    sock,        \* the daemon bound at the socket's path, stale or not
    spawnLock,   \* who holds daemon.spawn.lock
    at,          \* where each client or operator is
    conn,        \* the daemon it is connected to
    late         \* history: its ask was queued after the daemon's stop flag

fileVars == <<pidfile, inodes, holder, pid, sock>>
daemonVars == <<daemon, build, ino, tries, stop, orphaned>>
clientVars == <<spawnLock, at, conn, late>>
vars == <<daemonVars, fileVars, clientVars>>

\* A process that holds the flock: it is past acquire_pidfile_lock's flock.
Holding == {"verify", "verified", "locked", "serving", "closing", "closed"}
Alive(d) == daemon[d] \notin {"unborn", "gone"}
\* The listener is open from bind until the process ends.
Listening(d) == daemon[d] \in {"serving", "closing", "closed"}
\* UnixStream::connect succeeds: a listener answers at the path.
Connectable == sock # None /\ Listening(sock)

Init ==
    /\ daemon = [d \in Daemons |-> "unborn"]
    /\ build = [d \in Daemons |-> FirstBuild]
    /\ ino = [d \in Daemons |-> 0]
    /\ tries = [d \in Daemons |-> 0]
    /\ stop = [d \in Daemons |-> "no"]
    /\ orphaned = [d \in Daemons |-> FALSE]
    /\ pidfile = 0
    /\ inodes = 0
    /\ holder = [i \in Inodes |-> None]
    /\ pid = [i \in Inodes |-> None]
    /\ sock = None
    /\ spawnLock = None
    /\ at = [c \in Processes |-> "idle"]
    /\ conn = [c \in Processes |-> None]
    /\ late = [c \in Processes |-> FALSE]

-----------------------------------------------------------------------------
(* The daemon: daemon::run *)

Goto(d, place) == daemon' = [daemon EXCEPT ![d] = place]

\* The flock goes when the process's file closes.
Release(p) == [i \in Inodes |-> IF holder[i] = p THEN None ELSE holder[i]]

\* A new process: the lowest slot that was never used.
Fresh(d, b) ==
    /\ daemon[d] = "unborn"
    /\ \A e \in Daemons : e < d => daemon[e] # "unborn"
    /\ Goto(d, "start")
    /\ build' = [build EXCEPT ![d] = b]

\* `secreq daemon --fg` by hand, or the login service.
StartByHand(d) ==
    /\ Fresh(d, FirstBuild)
    /\ UNCHANGED <<ino, tries, stop, orphaned, fileVars,
                   clientVars>>

\* acquire_pidfile_lock: open(O_CREAT), ...
OpenPidfile(d) ==
    /\ daemon[d] = "start"
    /\ pidfile = 0 => inodes < MaxInodes
    /\ inodes' = IF pidfile = 0 THEN inodes + 1 ELSE inodes
    /\ pidfile' = IF pidfile = 0 THEN inodes + 1 ELSE pidfile
    /\ ino' = [ino EXCEPT ![d] = pidfile']
    /\ Goto(d, "opened")
    /\ UNCHANGED <<build, tries, stop, orphaned, holder, pid,
                   sock, clientVars>>

\* ... flock(LOCK_EX | LOCK_NB): another holder means exit 0, ...
FlockPidfile(d) ==
    /\ daemon[d] = "opened"
    /\ IF holder[ino[d]] = None
       THEN Goto(d, "verify") /\ holder' = [holder EXCEPT ![ino[d]] = d]
       ELSE Goto(d, "gone") /\ UNCHANGED holder
    /\ UNCHANGED <<build, ino, tries, stop, orphaned, pidfile,
                   inodes, pid, sock, clientVars>>

\* Mutant: the inode that was locked is not compared with the path's.
TrustsAnyInode(d) == TRUE

\* Whether the locked inode is still the file at the path.
SameInode(d) == ino[d] = pidfile

\* ... and the inode check: a stale lock is dropped and the round repeated.
VerifyInode(d) ==
    /\ daemon[d] = "verify"
    /\ IF SameInode(d)
       THEN /\ Goto(d, "verified")
            /\ UNCHANGED <<tries, holder>>
       ELSE /\ tries' = [tries EXCEPT ![d] = @ + 1]
            /\ holder' = Release(d)
            /\ Goto(d, IF tries[d] + 1 = MaxTries THEN "gone" ELSE "start")
    /\ UNCHANGED <<build, ino, stop, orphaned, pidfile, inodes,
                   pid, sock, clientVars>>

\* The pid is written for whoever reads the file.
WritePid(d) ==
    /\ daemon[d] = "verified"
    /\ pid' = [pid EXCEPT ![ino[d]] = d]
    /\ Goto(d, "locked")
    /\ UNCHANGED <<build, ino, tries, stop, orphaned, pidfile,
                   inodes, holder, sock, clientVars>>

\* server::start: whatever is at the socket path is replaced by our listener.
Start(d) ==
    /\ daemon[d] = "locked"
    /\ sock' = d
    /\ Goto(d, "serving")
    /\ UNCHANGED <<build, ino, tries, stop, orphaned, pidfile,
                   inodes, holder, pid, clientVars>>

Queued(d) == {c \in Clients : at[c] = "queued" /\ conn[c] = d}

\* Mutant: the queue is not looked at.
IdleWhateverIsQueued(d) == ~SshAgent

\* The queue, the clock, the windows and the pages are sampled under one lock.
\* Two hours without activity, a window or a page may have passed at any time
\* that leaves the queue empty.
should_idle_exit(d) == Queued(d) = {} /\ ~SshAgent

\* A tick of the main loop: a daemon that has been idle asks itself to stop.
Tick(d) ==
    /\ daemon[d] = "serving" /\ stop[d] = "no"
    /\ should_idle_exit(d)
    /\ stop' = [stop EXCEPT ![d] = "idle"]
    /\ UNCHANGED <<daemon, build, ino, tries, orphaned, fileVars, clientVars>>

\* The main loop sees the flag and tells the windows to go.
LeaveLoop(d) ==
    /\ daemon[d] = "serving" /\ stop[d] # "no"
    /\ Goto(d, "closing")
    /\ UNCHANGED <<build, ino, tries, stop, orphaned, fileVars,
                   clientVars>>

\* The socket's path is removed, whoever is bound there.
RemoveSocket(d) ==
    /\ daemon[d] = "closing"
    /\ sock' = None
    /\ Goto(d, "closed")
    /\ UNCHANGED <<build, ino, tries, stop, orphaned, pidfile,
                   inodes, holder, pid, clientVars>>

\* The process ends: its flock and its listener go with it, its files stay.
End(d) ==
    /\ Goto(d, "gone")
    /\ holder' = Release(d)
    /\ ino' = [ino EXCEPT ![d] = 0]
    /\ tries' = [tries EXCEPT ![d] = 0]
    /\ UNCHANGED <<build, orphaned, pidfile, inodes, pid, sock>>

Exit(d) == daemon[d] = "closed" /\ End(d) /\ UNCHANGED <<stop, clientVars>>

\* A panic, a failed bind, or a kill from outside.
Crash(d) ==
    /\ Alive(d)
    /\ End(d)
    /\ stop' = [stop EXCEPT ![d] = "killed"]
    /\ UNCHANGED clientVars

-----------------------------------------------------------------------------
(* The client: connect_or_spawn, then the ask *)

Move(c, place) == at' = [at EXCEPT ![c] = place]
Bond(c, d) == conn' = [conn EXCEPT ![c] = d]

\* request_consent returns, with a decision or an error; the client may come
\* back with another ask.
Return(c) ==
    /\ Move(c, "idle")
    /\ Bond(c, None)
    /\ late' = [late EXCEPT ![c] = FALSE]

\* The spawn lock is dropped with the process's stack frame.
DropLock(c) == spawnLock' = IF spawnLock = c THEN None ELSE spawnLock

\* The optimistic connect, and the Hello that follows on a live socket.
Connect(c) ==
    /\ at[c] = "idle"
    /\ IF Connectable THEN Move(c, "hello") /\ Bond(c, sock)
                      ELSE Move(c, "spawn lock") /\ UNCHANGED conn
    /\ UNCHANGED <<daemonVars, fileVars, spawnLock, late>>

\* daemon_build_id: our build or no answer means use it, another means restart.
Hello(c) ==
    /\ at[c] = "hello"
    /\ IF Alive(conn[c]) /\ build[conn[c]] # Build[c]
       THEN Move(c, "restart") ELSE Move(c, "reconnect")
    /\ Bond(c, None)
    /\ UNCHANGED <<daemonVars, fileVars, spawnLock, late>>

\* The connection for the real request.
Reconnect(c) ==
    /\ at[c] = "reconnect"
    /\ IF Connectable THEN Move(c, "asking") /\ Bond(c, sock)
                      ELSE Move(c, "spawn lock") /\ UNCHANGED conn
    /\ UNCHANGED <<daemonVars, fileVars, spawnLock, late>>

\* ClientMsg::Shutdown, to whichever daemon answers.
request_shutdown(by) ==
    stop' = IF Connectable /\ stop[sock] = "no"
            THEN [stop EXCEPT ![sock] = by] ELSE stop

\* restart_stale_daemon: a polite Shutdown, ...
RestartShutdown(c) ==
    /\ at[c] = "restart"
    /\ request_shutdown("told")
    /\ Move(c, "wait lock")
    /\ UNCHANGED <<daemon, build, ino, tries, orphaned,
                   fileVars, spawnLock, conn, late>>

LockFree == IF pidfile = 0 THEN TRUE ELSE holder[pidfile] = None

\* probe_pidfile_lock takes a free flock for the length of the probe.
Probe(c) ==
    holder' = IF pidfile # 0 /\ holder[pidfile] = None
              THEN [holder EXCEPT ![pidfile] = c] ELSE holder

\* ... then a wait until the flock is free ...
WaitLock(c) ==
    /\ at[c] = "wait lock" /\ LockFree
    /\ Probe(c)
    /\ Move(c, "wait socket")
    /\ UNCHANGED <<daemonVars, pidfile, inodes, pid, sock, spawnLock, conn,
                   late>>

\* ... and nobody accepts; or the deadline passes and the daemon is forced.
WaitSocket(c) ==
    /\ at[c] = "wait socket"
    /\ holder' = Release(c)
    /\ Move(c, IF Connectable THEN "wait lock" ELSE "spawn lock")
    /\ UNCHANGED <<daemonVars, pidfile, inodes, pid, sock, spawnLock, conn,
                   late>>

RestartTimeout(c) ==
    /\ at[c] = "wait lock"
    /\ Move(c, "force")
    /\ UNCHANGED <<daemonVars, fileVars, spawnLock, conn, late>>

\* acquire_spawn_lock: one client spawns, the others wait for its socket.
acquire_spawn_lock(c) ==
    /\ at[c] = "spawn lock"
    /\ IF spawnLock = None THEN Move(c, "recheck") /\ spawnLock' = c
                           ELSE Move(c, "awaiting") /\ UNCHANGED spawnLock
    /\ UNCHANGED <<daemonVars, fileVars, conn, late>>

\* Another client may have brought the daemon up meanwhile; else spawn it.
Recheck(c) ==
    /\ at[c] = "recheck"
    /\ \/ /\ Connectable
          /\ Move(c, "asking") /\ Bond(c, sock) /\ DropLock(c)
          /\ UNCHANGED <<daemon, build>>
       \/ /\ ~Connectable
          /\ \E d \in Daemons : Fresh(d, Build[c])
          /\ Move(c, "spawned")
          /\ UNCHANGED <<spawnLock, conn>>
    /\ UNCHANGED <<ino, tries, stop, orphaned, fileVars, late>>

\* The wait for a socket, one's own child's or another's.
AwaitSocket(c) ==
    /\ at[c] \in {"spawned", "awaiting"} /\ Connectable
    /\ Move(c, "asking") /\ Bond(c, sock) /\ DropLock(c)
    /\ UNCHANGED <<daemonVars, fileVars, late>>

\* The child died before it bound its socket, or SPAWN_TIMEOUT passed.
SpawnFails(c) ==
    /\ at[c] \in {"spawned", "awaiting"} /\ ~Connectable
    /\ Return(c) /\ DropLock(c)
    /\ UNCHANGED <<daemonVars, fileVars>>

\* handle_message: every other request is answered by the thread that reads it.
Handled(d) == Alive(d)

\* Ping, ShowWindow, ShowViewer, the link and the rule requests.
OneShot(c) ==
    /\ at[c] = "asking" /\ Handled(conn[c])
    /\ Return(c)
    /\ UNCHANGED <<daemonVars, fileVars, spawnLock>>

\* handle_ask: the ask joins the queue.
Enqueue(c) ==
    /\ at[c] = "asking" /\ Alive(conn[c])
    /\ Move(c, "queued")
    /\ late' = [late EXCEPT ![c] = stop[conn[c]] # "no"]
    /\ UNCHANGED <<daemon, build, ino, tries, stop, orphaned,
                   fileVars, spawnLock, conn>>

\* A decision takes the ask out of the queue and is answered.
Answer(c) ==
    /\ at[c] = "queued" /\ Alive(conn[c])
    /\ Return(c)
    /\ UNCHANGED <<daemon, build, ino, tries, stop, orphaned,
                   fileVars, spawnLock>>

\* send_and_recv reads the end of the stream: the request fails, closed.
HangUp(c) ==
    /\ at[c] \in {"asking", "queued"} /\ ~Alive(conn[c])
    /\ Return(c)
    /\ UNCHANGED <<daemonVars, fileVars, spawnLock>>

-----------------------------------------------------------------------------
(* The operator: secreq daemon stop, stop --force and status *)

\* stop_daemon: told, or nobody to tell.
stop_daemon(o) ==
    /\ at[o] = "idle" /\ Connectable
    /\ request_shutdown("told")
    /\ UNCHANGED <<daemon, build, ino, tries, orphaned,
                   fileVars, clientVars>>

\* daemon_status and force_stop_daemon both begin with a probe of the flock.
BeginStatus(o) ==
    /\ at[o] = "idle"
    /\ LockFree /\ pidfile # 0
    /\ Probe(o)
    /\ Move(o, "status")
    /\ UNCHANGED <<daemonVars, pidfile, inodes, pid, sock, spawnLock, conn,
                   late>>

EndStatus(o) ==
    /\ at[o] = "status"
    /\ holder' = Release(o)
    /\ Move(o, "idle")
    /\ UNCHANGED <<daemonVars, pidfile, inodes, pid, sock, spawnLock, conn,
                   late>>

BeginForce(o) ==
    /\ at[o] = "idle"
    /\ Move(o, "force")
    /\ UNCHANGED <<daemonVars, fileVars, spawnLock, conn, late>>

\* force_stop_daemon: a free flock means nothing to kill, ...
ForceProbe(p) ==
    /\ at[p] = "force"
    /\ Move(p, IF LockFree THEN "unlink pidfile" ELSE "kill")
    /\ UNCHANGED <<daemonVars, fileVars, spawnLock, conn, late>>

\* ... a held one a SIGKILL to the pid that the file names now, ...
ForceKill(p) ==
    /\ at[p] = "kill"
    /\ IF pidfile # 0 /\ pid[pidfile] # None
       THEN /\ Move(p, "unlink pidfile")
            /\ IF Alive(pid[pidfile])
               THEN End(pid[pidfile]) /\ stop' = [stop EXCEPT ![pid[pidfile]] = "killed"]
               ELSE UNCHANGED <<daemonVars, fileVars>>
       ELSE /\ Move(p, IF p \in Clients THEN "spawn lock" ELSE "idle")
            /\ UNCHANGED <<daemonVars, fileVars>>
    /\ UNCHANGED <<spawnLock, conn, late>>

\* ... and in both cases the pid file and the socket are unlinked.
UnlinkPidfile(p) ==
    /\ at[p] = "unlink pidfile"
    /\ orphaned' = [d \in Daemons |->
                      \/ orphaned[d]
                      \/ /\ daemon[d] \in Holding \ {"verify"}
                         /\ ino[d] = pidfile]
    /\ pidfile' = 0
    /\ Move(p, "unlink socket")
    /\ UNCHANGED <<daemon, build, ino, tries, stop, inodes,
                   holder, pid, sock, spawnLock, conn, late>>

UnlinkSocket(p) ==
    /\ at[p] = "unlink socket"
    /\ sock' = None
    /\ Move(p, IF p \in Clients THEN "spawn lock" ELSE "idle")
    /\ UNCHANGED <<daemonVars, pidfile, inodes, holder, pid, spawnLock, conn,
                   late>>

-----------------------------------------------------------------------------
DaemonStep(d) ==
    \/ StartByHand(d) \/ OpenPidfile(d) \/ FlockPidfile(d) \/ VerifyInode(d)
    \/ WritePid(d) \/ Start(d) \/ Tick(d)
    \/ LeaveLoop(d) \/ RemoveSocket(d) \/ Exit(d) \/ Crash(d)

ClientStep(c) ==
    \/ Connect(c) \/ Hello(c) \/ Reconnect(c) \/ RestartShutdown(c)
    \/ WaitLock(c) \/ WaitSocket(c) \/ RestartTimeout(c)
    \/ acquire_spawn_lock(c) \/ Recheck(c) \/ AwaitSocket(c) \/ SpawnFails(c)
    \/ OneShot(c) \/ Enqueue(c) \/ Answer(c) \/ HangUp(c)

OperatorStep(o) ==
    stop_daemon(o) \/ BeginStatus(o) \/ EndStatus(o) \/ BeginForce(o)

ForceStep(p) ==
    ForceProbe(p) \/ ForceKill(p) \/ UnlinkPidfile(p) \/ UnlinkSocket(p)

Next ==
    \/ \E d \in Daemons : DaemonStep(d)
    \/ \E c \in Clients : ClientStep(c)
    \/ \E o \in Operators : OperatorStep(o)
    \/ \E p \in Processes : ForceStep(p)

Spec == Init /\ [][Next]_vars

-----------------------------------------------------------------------------
(* Properties *)

Serving == {d \in Daemons : Listening(d)}

\* acquire_pidfile_lock's flock and inode check leave one way to two daemons:
\* of the daemons that serve, at most one never had its verified pid file
\* unlinked under it by a force-stop, however opens, locks, unlinks, crashes
\* and retries interleave.
SingletonUnlessForced ==
    \A d, e \in Serving : orphaned[d] \/ orphaned[e] \/ d = e

\* The idle exit is decided on the queue and the clock under one lock: an ask
\* that is still queued at a daemon that idles out was queued after it had
\* decided to, never before.
IdleExitStrandsNoAsk ==
    \A c \in Clients :
        /\ at[c] = "queued" /\ stop[conn[c]] = "idle"
        => late[c]
=============================================================================
