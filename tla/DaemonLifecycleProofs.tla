------------------------ MODULE DaemonLifecycleProofs ------------------------
(***************************************************************************)
(* Proofs, for every number of clients, operators, daemons, pid files and  *)
(* attempts, that acquire_pidfile_lock leaves at most one serving daemon   *)
(* whose pid file was never unlinked under it, and that an idle exit       *)
(* strands no ask that was queued before it was decided.                   *)
(***************************************************************************)
EXTENDS DaemonLifecycle, TLAPS

\* Where a client or an operator may be.
Places ==
    {"idle", "hello", "restart", "reconnect", "wait lock", "wait socket",
     "spawn lock", "recheck", "spawned", "awaiting", "asking", "queued",
     "status", "force", "kill", "unlink pidfile", "unlink socket"}

\* Who may hold a flock: a daemon, or a process that probes it.
Holders == Daemons \cup Processes \cup {None}

\* Every variable is of its type.
TypeInv ==
    /\ daemon \in [Daemons -> {"unborn", "start", "opened", "gone"} \cup Holding]
    /\ ino \in [Daemons -> 0..MaxInodes]
    /\ stop \in [Daemons -> {"no", "idle", "told", "killed"}]
    /\ orphaned \in [Daemons -> BOOLEAN]
    /\ inodes \in 0..MaxInodes /\ pidfile \in 0..inodes
    /\ holder \in [Inodes -> Holders]
    /\ pid \in [Inodes -> Daemons \cup {None}]
    /\ sock \in Daemons \cup {None}
    /\ at \in [Processes -> Places]
    /\ conn \in [Processes -> Daemons \cup {None}]
    /\ late \in [Processes -> BOOLEAN]

\* A daemon past open() has an inode, and past flock() it holds its lock.
LockInv ==
    \A d \in Daemons :
        /\ daemon[d] \in {"opened"} \cup Holding => ino[d] \in Inodes
        /\ daemon[d] \in Holding => holder[ino[d]] = d

\* What the inode check establishes, and only an unlink undoes.
VerifiedInv ==
    \A d \in Daemons :
        /\ daemon[d] \in Holding \ {"verify"} /\ ~orphaned[d]
        => ino[d] = pidfile

\* A client that talks to a daemon knows which.
ConnInv ==
    \A c \in Clients :
        at[c] \in {"hello", "asking", "queued"} => conn[c] \in Daemons

\* The inductive invariant.
IndInv == TypeInv /\ LockInv /\ VerifiedInv /\ ConnInv /\ IdleExitStrandsNoAsk

-----------------------------------------------------------------------------
\* No daemon is alive at the start, no inode exists and nothing is queued.
LEMMA InitIndInv == Init => IndInv
<1>. SUFFICES ASSUME Init PROVE IndInv
  OBVIOUS
<1>1. inodes \in 0..MaxInodes /\ pidfile \in 0..inodes
      /\ ino \in [Daemons -> 0..MaxInodes]
  BY LifecycleAssumption DEF Init
<1>2. orphaned \in [Daemons -> BOOLEAN] /\ late \in [Processes -> BOOLEAN]
  BY DEF Init
<1>3. TypeInv
  BY <1>1, <1>2 DEF Init, TypeInv, Holders, Places
<1>4. LockInv /\ VerifiedInv
  BY DEF Init, LockInv, VerifiedInv, Holding
<1>5. ConnInv /\ IdleExitStrandsNoAsk
  BY DEF Init, ConnInv, IdleExitStrandsNoAsk, Processes
<1>. QED  BY <1>3, <1>4, <1>5 DEF IndInv

\* What is at the pid file's path is an inode.
LEMMA PathInode ==
    ASSUME TypeInv
    PROVE  0 \in 0..inodes /\ (pidfile # 0 => pidfile \in Inodes)
<1>1. inodes \in 0..MaxInodes /\ pidfile \in 0..inodes
  BY DEF TypeInv
<1>2. MaxInodes \in Nat
  BY LifecycleAssumption
<1>. QED  BY <1>1, <1>2 DEF Inodes

\* Releasing the flocks of one holder leaves every other holder's alone.
LEMMA ReleaseKeeps ==
    ASSUME TypeInv, NEW p \in Daemons \cup Processes
    PROVE  /\ Release(p) \in [Inodes -> Holders]
           /\ \A i \in Inodes : holder[i] # p => Release(p)[i] = holder[i]
  BY DEF TypeInv, Release, Holders

\* A probe takes only a flock that nobody holds.
LEMMA ProbeKeeps ==
    ASSUME TypeInv, NEW p \in Processes, Probe(p)
    PROVE  /\ holder' \in [Inodes -> Holders]
           /\ \A i \in Inodes : holder[i] # None => holder'[i] = holder[i]
  BY LifecycleAssumption DEF TypeInv, Probe, Holders, Inodes

\* The steps of clients and operators that leave the daemons, their inodes and
\* the path alone, and take no flock from a daemon, keep the lock's invariants.
LEMMA LocksKept ==
    ASSUME IndInv, UNCHANGED <<daemon, ino, orphaned, pidfile>>,
           \A i \in Inodes : holder[i] \in Daemons => holder'[i] = holder[i]
    PROVE  LockInv' /\ VerifiedInv'
  BY DEF IndInv, TypeInv, LockInv, VerifiedInv, Holding

\* A step that leaves the clients and every shutdown flag alone keeps the
\* queue's invariants.
LEMMA AsksKept ==
    ASSUME IndInv, UNCHANGED <<at, conn, late, stop>>
    PROVE  ConnInv' /\ IdleExitStrandsNoAsk'
  BY DEF IndInv, ConnInv, IdleExitStrandsNoAsk

\* Nor does raising a flag for another reason than idleness strand an ask.
LEMMA AsksKeptByStop ==
    ASSUME IndInv, UNCHANGED <<at, conn, late>>,
           NEW d \in Daemons, NEW why \in {"told", "killed"},
           stop' = [stop EXCEPT ![d] = why]
    PROVE  ConnInv' /\ IdleExitStrandsNoAsk'
  BY DEF IndInv, TypeInv, ConnInv, IdleExitStrandsNoAsk

\* A process that moves to a place where it is not queued disturbs no ask.
LEMMA AsksKeptByMove ==
    ASSUME IndInv, UNCHANGED stop,
           NEW p \in Processes, p \in Clients => at'[p] # "queued",
           p \in Clients /\ at'[p] \in {"hello", "asking"} =>
               conn'[p] \in Daemons,
           \A q \in Processes \ {p} : /\ at'[q] = at[q]
                                       /\ conn'[q] = conn[q]
                                       /\ late'[q] = late[q]
    PROVE  ConnInv' /\ IdleExitStrandsNoAsk'
  BY DEF IndInv, ConnInv, IdleExitStrandsNoAsk, Processes

-----------------------------------------------------------------------------
(* The daemon's steps *)

\* A new process has no inode yet.
LEMMA FreshStep ==
    ASSUME IndInv, NEW d \in Daemons, NEW b, Fresh(d, b),
           UNCHANGED <<ino, orphaned, pidfile, holder>>
    PROVE  LockInv' /\ VerifiedInv'
  BY DEF IndInv, TypeInv, LockInv, VerifiedInv, Fresh, Goto, Holding

\* `secreq daemon' typed at a terminal.
LEMMA StartByHandStep ==
    ASSUME IndInv, NEW d \in Daemons, StartByHand(d)
    PROVE  IndInv'
<1>1. TypeInv'
  BY DEF IndInv, TypeInv, StartByHand, Fresh, Goto, fileVars, clientVars
<1>2. LockInv' /\ VerifiedInv'
  BY FreshStep DEF StartByHand, fileVars
<1>3. ConnInv' /\ IdleExitStrandsNoAsk'
  BY AsksKept DEF StartByHand, clientVars
<1>. QED  BY <1>1, <1>2, <1>3 DEF IndInv

\* The path has an inode afterwards, and no verified daemon's path changes: one
\* that is not orphaned has the path's inode, which is never 0.
LEMMA OpenPidfileStep ==
    ASSUME IndInv, NEW d \in Daemons, OpenPidfile(d)
    PROVE  IndInv'
<1>1. inodes' \in 0..MaxInodes /\ pidfile' \in 0..inodes' /\ pidfile' \in Inodes
  BY LifecycleAssumption DEF IndInv, TypeInv, OpenPidfile, Inodes
<1>2. TypeInv'
  BY <1>1 DEF IndInv, TypeInv, OpenPidfile, Goto, clientVars, Inodes
<1>3. LockInv'
  BY <1>1 DEF IndInv, TypeInv, LockInv, OpenPidfile, Goto, Holding
<1>4. VerifiedInv'
  <2>. SUFFICES ASSUME NEW e \in Daemons, daemon'[e] \in Holding \ {"verify"},
                       ~orphaned'[e]
                PROVE  ino'[e] = pidfile'
    BY DEF VerifiedInv
  <2>1. e # d /\ daemon[e] = daemon'[e] /\ ino'[e] = ino[e] /\ ~orphaned[e]
    BY DEF IndInv, TypeInv, OpenPidfile, Goto, Holding
  <2>2. ino[e] = pidfile /\ ino[e] \in Inodes
    BY <2>1 DEF IndInv, LockInv, VerifiedInv
  <2>. QED  BY <2>1, <2>2, LifecycleAssumption DEF OpenPidfile, Inodes
<1>5. ConnInv' /\ IdleExitStrandsNoAsk'
  BY AsksKept DEF OpenPidfile, clientVars
<1>. QED  BY <1>2, <1>3, <1>4, <1>5 DEF IndInv

\* A flock is only ever taken when it is free: nobody else's is disturbed.
LEMMA FlockPidfileStep ==
    ASSUME IndInv, NEW d \in Daemons, FlockPidfile(d)
    PROVE  IndInv'
<1>1. ino[d] \in Inodes
  BY DEF IndInv, LockInv, FlockPidfile
<1>2. TypeInv'
  BY <1>1 DEF IndInv, TypeInv, FlockPidfile, Goto, clientVars, Holding, Holders
<1>3. LockInv' /\ VerifiedInv'
  <2>1. CASE holder[ino[d]] = None
    BY <1>1, <2>1, LifecycleAssumption
       DEF IndInv, TypeInv, LockInv, VerifiedInv, FlockPidfile, Goto, Holding
  <2>2. CASE holder[ino[d]] # None
    BY <1>1, <2>2
       DEF IndInv, TypeInv, LockInv, VerifiedInv, FlockPidfile, Goto, Holding
  <2>. QED  BY <2>1, <2>2
<1>4. ConnInv' /\ IdleExitStrandsNoAsk'
  BY AsksKept DEF FlockPidfile, clientVars
<1>. QED  BY <1>2, <1>3, <1>4 DEF IndInv

\* The check that makes the lock mean the path: only the inode that is still at
\* the path goes on.
LEMMA VerifyInodeStep ==
    ASSUME IndInv, NEW d \in Daemons, VerifyInode(d)
    PROVE  IndInv'
<1>1. TypeInv'
  <2>1. Release(d) \in [Inodes -> Holders]
    BY ReleaseKeeps DEF IndInv
  <2>. QED  BY <2>1 DEF IndInv, TypeInv, VerifyInode, Goto, clientVars, Holding
<1>2. LockInv' /\ VerifiedInv'
  <2>1. CASE SameInode(d)
    BY <2>1 DEF IndInv, TypeInv, LockInv, VerifiedInv, VerifyInode, Goto,
                Holding, SameInode
  <2>2. CASE ~SameInode(d)
    <3>1. /\ holder' = Release(d) /\ daemon'[d] \in {"gone", "start"}
          /\ \A e \in Daemons \ {d} : daemon'[e] = daemon[e]
      BY <2>2 DEF IndInv, TypeInv, VerifyInode, Goto
    <3>2. ASSUME NEW e \in Daemons \ {d}, daemon[e] \in Holding
          PROVE  holder'[ino[e]] = e
      BY <3>1, <3>2, ReleaseKeeps DEF IndInv, LockInv
    <3>. QED  BY <3>1, <3>2 DEF IndInv, TypeInv, LockInv, VerifiedInv,
                                 VerifyInode, Holding
  <2>. QED  BY <2>1, <2>2
<1>3. ConnInv' /\ IdleExitStrandsNoAsk'
  BY AsksKept DEF VerifyInode, clientVars
<1>. QED  BY <1>1, <1>2, <1>3 DEF IndInv

\* WritePid, Start, LeaveLoop and RemoveSocket move a verified daemon along
\* without touching its lock, its inode or the path.
LEMMA VerifiedMoves ==
    ASSUME IndInv, NEW d \in Daemons, NEW place \in Holding,
           daemon[d] \in Holding \ {"verify"}, Goto(d, place),
           UNCHANGED <<ino, orphaned, pidfile, holder, inodes, stop, clientVars>>,
           pid' \in [Inodes -> Daemons \cup {None}],
           sock' \in Daemons \cup {None}
    PROVE  IndInv'
<1>1. TypeInv'
  BY DEF IndInv, TypeInv, Goto, clientVars
<1>2. LockInv' /\ VerifiedInv'
  BY DEF IndInv, TypeInv, LockInv, VerifiedInv, Goto, Holding
<1>3. ConnInv' /\ IdleExitStrandsNoAsk'
  BY AsksKept DEF clientVars
<1>. QED  BY <1>1, <1>2, <1>3 DEF IndInv

\* Writing the pid keeps the verified lock.
LEMMA WritePidStep ==
    ASSUME IndInv, NEW d \in Daemons, WritePid(d)
    PROVE  IndInv'
<1>1. ino[d] \in Inodes
  BY DEF IndInv, LockInv, WritePid, Holding
<1>2. pid' \in [Inodes -> Daemons \cup {None}] /\ sock' \in Daemons \cup {None}
  BY <1>1 DEF IndInv, TypeInv, WritePid
<1>. QED  BY <1>2, VerifiedMoves DEF WritePid, Holding

\* So does binding the socket,
LEMMA StartStep ==
    ASSUME IndInv, NEW d \in Daemons, Start(d)
    PROVE  IndInv'
<1>1. pid' \in [Inodes -> Daemons \cup {None}] /\ sock' \in Daemons \cup {None}
  BY DEF IndInv, TypeInv, Start
<1>. QED  BY <1>1, VerifiedMoves DEF Start, Holding

\* leaving the main loop,
LEMMA LeaveLoopStep ==
    ASSUME IndInv, NEW d \in Daemons, LeaveLoop(d)
    PROVE  IndInv'
<1>1. pid' \in [Inodes -> Daemons \cup {None}] /\ sock' \in Daemons \cup {None}
  BY DEF IndInv, TypeInv, LeaveLoop, fileVars
<1>. QED  BY <1>1, VerifiedMoves DEF LeaveLoop, Holding, fileVars

\* and removing the socket on the way out.
LEMMA RemoveSocketStep ==
    ASSUME IndInv, NEW d \in Daemons, RemoveSocket(d)
    PROVE  IndInv'
<1>1. pid' \in [Inodes -> Daemons \cup {None}] /\ sock' \in Daemons \cup {None}
  BY DEF IndInv, TypeInv, RemoveSocket
<1>. QED  BY <1>1, VerifiedMoves DEF RemoveSocket, Holding

\* The idle exit is decided with an empty queue: no ask that is already there can
\* find the flag raised.
LEMMA TickStep ==
    ASSUME IndInv, NEW d \in Daemons, Tick(d)
    PROVE  IndInv'
<1>1. TypeInv'
  BY DEF IndInv, TypeInv, Tick, fileVars, clientVars
<1>2. LockInv' /\ VerifiedInv'
  BY LocksKept DEF Tick, fileVars
<1>3. ConnInv'
  BY DEF IndInv, ConnInv, Tick, clientVars
<1>4. IdleExitStrandsNoAsk'
  <2>. SUFFICES ASSUME NEW c \in Clients, at'[c] = "queued",
                       stop'[conn'[c]] = "idle"
                PROVE  late'[c]
    BY DEF IdleExitStrandsNoAsk
  <2>1. at[c] = "queued" /\ conn'[c] = conn[c] /\ conn[c] \in Daemons
    BY DEF IndInv, ConnInv, Tick, clientVars
  <2>2. conn[c] # d
    BY <2>1 DEF Tick, should_idle_exit, Queued
  <2>3. stop[conn[c]] = "idle"
    BY <2>1, <2>2 DEF IndInv, TypeInv, Tick
  <2>. QED  BY <2>1, <2>3 DEF IndInv, IdleExitStrandsNoAsk, Tick, clientVars
<1>. QED  BY <1>1, <1>2, <1>3, <1>4 DEF IndInv

\* A process that ends frees its own flock and no other.
LEMMA EndLocks ==
    ASSUME IndInv, NEW d \in Daemons, End(d)
    PROVE  LockInv' /\ VerifiedInv'
<1>1. /\ daemon'[d] = "gone"
      /\ \A e \in Daemons \ {d} : daemon'[e] = daemon[e] /\ ino'[e] = ino[e]
  BY DEF IndInv, TypeInv, End, Goto
<1>2. ASSUME NEW e \in Daemons \ {d}, daemon[e] \in Holding
      PROVE  holder'[ino[e]] = e
  BY <1>2, ReleaseKeeps DEF IndInv, LockInv, End
<1>. QED  BY <1>1, <1>2 DEF IndInv, LockInv, VerifiedInv, End, Holding

\* What the end of a process leaves well-typed.
LEMMA EndTypes ==
    ASSUME IndInv, NEW d \in Daemons, End(d),
           stop' \in [Daemons -> {"no", "idle", "told", "killed"}],
           at' \in [Processes -> Places], UNCHANGED <<conn, late>>
    PROVE  TypeInv'
<1>1. Release(d) \in [Inodes -> Holders]
  BY ReleaseKeeps DEF IndInv
<1>2. daemon' \in [Daemons -> {"unborn", "start", "opened", "gone"} \cup Holding]
  BY DEF IndInv, TypeInv, End, Goto
<1>3. ino' \in [Daemons -> 0..MaxInodes]
  BY LifecycleAssumption DEF IndInv, TypeInv, End
<1>. QED  BY <1>1, <1>2, <1>3 DEF IndInv, TypeInv, End

\* The process ends, and its flock with it.
LEMMA ExitStep ==
    ASSUME IndInv, NEW d \in Daemons, Exit(d)
    PROVE  IndInv'
<1>1. TypeInv'
  BY EndTypes DEF IndInv, TypeInv, Exit, clientVars
<1>2. LockInv' /\ VerifiedInv'
  BY EndLocks DEF Exit
<1>3. ConnInv' /\ IdleExitStrandsNoAsk'
  BY AsksKept DEF Exit, clientVars
<1>. QED  BY <1>1, <1>2, <1>3 DEF IndInv

\* A crash may come between any two system calls.
LEMMA CrashStep ==
    ASSUME IndInv, NEW d \in Daemons, Crash(d)
    PROVE  IndInv'
<1>1. TypeInv'
  <2>1. stop' \in [Daemons -> {"no", "idle", "told", "killed"}]
    BY DEF IndInv, TypeInv, Crash
  <2>. QED  BY <2>1, EndTypes DEF IndInv, TypeInv, Crash, clientVars
<1>2. LockInv' /\ VerifiedInv'
  BY EndLocks DEF Crash
<1>3. ConnInv' /\ IdleExitStrandsNoAsk'
  BY AsksKeptByStop DEF Crash, clientVars
<1>. QED  BY <1>1, <1>2, <1>3 DEF IndInv

\* Every step of a daemon keeps the invariant.
LEMMA DaemonSteps ==
    ASSUME IndInv, NEW d \in Daemons, DaemonStep(d)
    PROVE  IndInv'
  BY StartByHandStep, OpenPidfileStep, FlockPidfileStep, VerifyInodeStep,
     WritePidStep, StartStep, TickStep, LeaveLoopStep, RemoveSocketStep,
     ExitStep, CrashStep
     DEF DaemonStep

-----------------------------------------------------------------------------
(* The clients' and operators' steps *)

\* What a step of p that may change p's place, its connection, its ask and the
\* flock it probes, and nothing of a daemon's, has to show.
LEMMA ProcessMoves ==
    ASSUME IndInv, NEW p \in Processes, NEW place \in Places, Move(p, place),
           UNCHANGED <<daemonVars, pidfile, inodes, pid>>,
           sock' \in Daemons \cup {None},
           holder' \in [Inodes -> Holders],
           \A i \in Inodes : holder[i] \in Daemons => holder'[i] = holder[i],
           \/ UNCHANGED <<conn, late>>
              /\ place \notin {"hello", "asking", "queued"}
           \/ /\ \E d \in Daemons : Bond(p, d)
              /\ place \in {"hello", "asking"} /\ UNCHANGED late
           \/ /\ Bond(p, None) /\ place \notin {"hello", "asking", "queued"}
              /\ late' \in {late, [late EXCEPT ![p] = FALSE]}
    PROVE  IndInv'
<1>1. conn' \in [Processes -> Daemons \cup {None}]
  BY DEF IndInv, TypeInv, Bond
<1>2. late' \in [Processes -> BOOLEAN]
  BY DEF IndInv, TypeInv
<1>3. TypeInv'
  BY <1>1, <1>2 DEF IndInv, TypeInv, Move, daemonVars
<1>4. LockInv' /\ VerifiedInv'
  BY LocksKept DEF daemonVars
<1>5. /\ at'[p] = place
      /\ \A q \in Processes \ {p} : at'[q] = at[q]
  BY DEF IndInv, TypeInv, Move
<1>6. \A q \in Processes \ {p} : conn'[q] = conn[q] /\ late'[q] = late[q]
  BY DEF IndInv, TypeInv, Bond
<1>7. at'[p] \in {"hello", "asking"} => conn'[p] \in Daemons
  BY <1>5 DEF IndInv, TypeInv, Bond
<1>8. ConnInv' /\ IdleExitStrandsNoAsk'
  BY <1>5, <1>6, <1>7, AsksKeptByMove DEF daemonVars
<1>. QED  BY <1>3, <1>4, <1>8 DEF IndInv

\* A live socket names a daemon.
LEMMA ConnectableDaemon == TypeInv /\ Connectable => sock \in Daemons
  BY DEF TypeInv, Connectable

\* Connecting, greeting, waiting for the spawn lock and for a socket: a client
\* that ends up with a connection has the daemon bound at the path.
LEMMA ConnectSteps ==
    ASSUME IndInv, NEW c \in Clients,
           \/ Connect(c) \/ Hello(c) \/ Reconnect(c) \/ RestartTimeout(c)
           \/ acquire_spawn_lock(c) \/ AwaitSocket(c)
    PROVE  IndInv'
<1>. c \in Processes
  BY DEF Processes
<1>. UNCHANGED <<daemonVars, pidfile, inodes, pid>> /\ sock' \in Daemons \cup {None}
     /\ holder' \in [Inodes -> Holders] /\ holder' = holder
  BY DEF IndInv, TypeInv, Connect, Hello, Reconnect, RestartTimeout,
         acquire_spawn_lock, AwaitSocket, fileVars
<1>1. CASE Connect(c)
  <2>1. CASE Connectable
    <3>1. Move(c, "hello") /\ Bond(c, sock) /\ sock \in Daemons /\ UNCHANGED late
      BY <1>1, <2>1, ConnectableDaemon DEF Connect, IndInv
    <3>. QED  BY <3>1, ProcessMoves DEF Places
  <2>2. CASE ~Connectable
    <3>1. Move(c, "spawn lock") /\ UNCHANGED <<conn, late>>
      BY <1>1, <2>2 DEF Connect
    <3>. QED  BY <3>1, ProcessMoves DEF Places
  <2>. QED  BY <2>1, <2>2
<1>2. CASE Hello(c)
  <2>1. PICK place \in {"restart", "reconnect"} : Move(c, place)
    BY <1>2 DEF Hello
  <2>2. Bond(c, None) /\ UNCHANGED late
    BY <1>2 DEF Hello
  <2>. QED  BY <2>1, <2>2, ProcessMoves DEF Places
<1>3. CASE Reconnect(c)
  <2>1. CASE Connectable
    <3>1. Move(c, "asking") /\ Bond(c, sock) /\ sock \in Daemons /\ UNCHANGED late
      BY <1>3, <2>1, ConnectableDaemon DEF Reconnect, IndInv
    <3>. QED  BY <3>1, ProcessMoves DEF Places
  <2>2. CASE ~Connectable
    <3>1. Move(c, "spawn lock") /\ UNCHANGED <<conn, late>>
      BY <1>3, <2>2 DEF Reconnect
    <3>. QED  BY <3>1, ProcessMoves DEF Places
  <2>. QED  BY <2>1, <2>2
<1>4. CASE RestartTimeout(c)
  BY <1>4, ProcessMoves DEF RestartTimeout, Places
<1>5. CASE acquire_spawn_lock(c)
  <2>1. PICK place \in {"recheck", "awaiting"} : Move(c, place)
    BY <1>5 DEF acquire_spawn_lock
  <2>2. UNCHANGED <<conn, late>>
    BY <1>5 DEF acquire_spawn_lock
  <2>. QED  BY <2>1, <2>2, ProcessMoves DEF Places
<1>6. CASE AwaitSocket(c)
  <2>1. Move(c, "asking") /\ Bond(c, sock) /\ sock \in Daemons /\ UNCHANGED late
    BY <1>6, ConnectableDaemon DEF AwaitSocket, IndInv
  <2>. QED  BY <2>1, ProcessMoves DEF Places
<1>. QED  BY <1>1, <1>2, <1>3, <1>4, <1>5, <1>6

\* A client that returns, answered or not, has no ask any more.
LEMMA ReturnSteps ==
    ASSUME IndInv, NEW c \in Clients,
           SpawnFails(c) \/ OneShot(c) \/ Answer(c) \/ HangUp(c)
    PROVE  IndInv'
<1>1. /\ Return(c) /\ UNCHANGED <<daemonVars, fileVars>> /\ c \in Processes
  BY DEF SpawnFails, OneShot, Answer, HangUp, Processes, daemonVars
<1>2. /\ Move(c, "idle") /\ Bond(c, None)
      /\ late' = [late EXCEPT ![c] = FALSE]
  BY <1>1 DEF Return
<1>3. /\ UNCHANGED <<pidfile, inodes, pid, holder>>
      /\ sock' \in Daemons \cup {None} /\ holder' \in [Inodes -> Holders]
  BY <1>1 DEF IndInv, TypeInv, fileVars
<1>. QED  BY <1>1, <1>2, <1>3, ProcessMoves DEF Places

\* The ask that joins the queue of a daemon already told to stop is marked late.
LEMMA EnqueueStep ==
    ASSUME IndInv, NEW c \in Clients, Enqueue(c)
    PROVE  IndInv'
<1>. c \in Processes /\ conn[c] \in Daemons
  BY DEF IndInv, ConnInv, Enqueue, Processes
<1>1. late' \in [Processes -> BOOLEAN]
  <2>. DEFINE flag == stop[conn[c]] # "no"
  <2>1. flag \in BOOLEAN
    OBVIOUS
  <2>. HIDE DEF flag
  <2>2. late' = [late EXCEPT ![c] = flag]
    BY DEF Enqueue, flag
  <2>. QED  BY <2>1, <2>2 DEF IndInv, TypeInv
<1>2. TypeInv'
  BY <1>1 DEF IndInv, TypeInv, Enqueue, Move, Places, fileVars
<1>3. LockInv' /\ VerifiedInv'
  BY LocksKept DEF Enqueue, fileVars
<1>4. ConnInv'
  BY DEF IndInv, TypeInv, ConnInv, Enqueue, Move, Processes
<1>5. IdleExitStrandsNoAsk'
  <2>. SUFFICES ASSUME NEW q \in Clients, at'[q] = "queued",
                       stop'[conn'[q]] = "idle"
                PROVE  late'[q]
    BY DEF IdleExitStrandsNoAsk
  <2>1. q \in Processes /\ conn' = conn /\ stop' = stop
    BY DEF Enqueue, Processes
  <2>2. CASE q = c
    <3>1. late'[c] = (stop[conn[c]] # "no")
      BY DEF IndInv, TypeInv, Enqueue
    <3>. QED  BY <2>1, <2>2, <3>1
  <2>3. CASE q # c
    <3>1. at[q] = "queued" /\ late'[q] = late[q]
      BY <2>1, <2>3 DEF IndInv, TypeInv, Enqueue, Move
    <3>. QED  BY <2>1, <3>1 DEF IndInv, IdleExitStrandsNoAsk
  <2>. QED  BY <2>2, <2>3
<1>. QED  BY <1>2, <1>3, <1>4, <1>5 DEF IndInv

\* A polite Shutdown raises the flag "told", never "idle".
LEMMA ShutdownStops ==
    ASSUME IndInv, request_shutdown("told")
    PROVE  /\ stop' \in [Daemons -> {"no", "idle", "told", "killed"}]
           /\ \A d \in Daemons : stop'[d] = "idle" => stop[d] = "idle"
  BY ConnectableDaemon DEF IndInv, TypeInv, request_shutdown

\* A client that restarts an old daemon, and `daemon stop', ask for it.
LEMMA ShutdownSteps ==
    ASSUME IndInv, NEW p \in Processes,
           \/ p \in Clients /\ RestartShutdown(p)
           \/ stop_daemon(p)
    PROVE  IndInv'
<1>1. /\ request_shutdown("told")
      /\ UNCHANGED <<daemon, ino, orphaned, fileVars, conn, late>>
      /\ at' \in {at, [at EXCEPT ![p] = "wait lock"]}
  BY DEF RestartShutdown, stop_daemon, Move, clientVars
<1>2. TypeInv'
  BY <1>1, ShutdownStops DEF IndInv, TypeInv, fileVars, Places
<1>3. LockInv' /\ VerifiedInv'
  BY <1>1, LocksKept DEF fileVars
<1>4. \A q \in Processes : at'[q] \in {"hello", "asking", "queued"} => at'[q] = at[q]
  BY <1>1 DEF IndInv, TypeInv
<1>5. ConnInv' /\ IdleExitStrandsNoAsk'
  BY <1>1, <1>4, ShutdownStops
     DEF IndInv, ConnInv, IdleExitStrandsNoAsk, Processes
<1>. QED  BY <1>2, <1>3, <1>5 DEF IndInv

\* The probes of a restart and of `daemon status` take a free flock and give it
\* back: no daemon's lock is disturbed.
LEMMA ProbeSteps ==
    ASSUME IndInv, NEW p \in Processes,
           WaitLock(p) \/ WaitSocket(p) \/ BeginStatus(p) \/ EndStatus(p)
    PROVE  IndInv'
<1>1. PICK place \in {"wait socket", "wait lock", "spawn lock", "status", "idle"} :
          Move(p, place)
  BY DEF WaitLock, WaitSocket, BeginStatus, EndStatus
<1>2. /\ UNCHANGED <<daemonVars, pidfile, inodes, pid, sock, conn, late>>
      /\ Probe(p) \/ holder' = Release(p)
  BY DEF WaitLock, WaitSocket, BeginStatus, EndStatus
<1>3. /\ holder' \in [Inodes -> Holders]
      /\ \A i \in Inodes : holder[i] \in Daemons => holder'[i] = holder[i]
  BY <1>2, ProbeKeeps, ReleaseKeeps, LifecycleAssumption DEF IndInv
<1>4. sock' \in Daemons \cup {None}
  BY <1>2 DEF IndInv, TypeInv
<1>. QED  BY <1>1, <1>2, <1>3, <1>4, ProcessMoves DEF Places

\* Rechecking under the spawn lock finds a daemon or starts one.
LEMMA RecheckStep ==
    ASSUME IndInv, NEW c \in Clients, Recheck(c)
    PROVE  IndInv'
<1>. c \in Processes
  BY DEF Processes
<1>1. CASE Connectable
  <2>1. Move(c, "asking") /\ Bond(c, sock) /\ sock \in Daemons /\ UNCHANGED late
    BY <1>1, ConnectableDaemon DEF Recheck, IndInv
  <2>2. /\ UNCHANGED <<daemonVars, pidfile, inodes, pid, holder>>
        /\ sock' \in Daemons \cup {None} /\ holder' \in [Inodes -> Holders]
    BY <1>1 DEF Recheck, daemonVars, fileVars, IndInv, TypeInv
  <2>. QED  BY <2>1, <2>2, ProcessMoves DEF Places
<1>2. CASE ~Connectable
  <2>1. PICK d \in Daemons : Fresh(d, Build[c])
    BY <1>2 DEF Recheck
  <2>2. /\ Move(c, "spawned")
        /\ UNCHANGED <<conn, late, ino, stop, orphaned, fileVars>>
    BY <1>2 DEF Recheck
  <2>3. TypeInv'
    BY <2>1, <2>2 DEF IndInv, TypeInv, Move, Fresh, Goto, Places, fileVars
  <2>4. LockInv' /\ VerifiedInv'
    BY <2>1, <2>2, FreshStep DEF fileVars
  <2>5. at'[c] = "spawned" /\ \A q \in Processes \ {c} : at'[q] = at[q]
    BY <2>2 DEF IndInv, TypeInv, Move
  <2>6. ConnInv' /\ IdleExitStrandsNoAsk'
    BY <2>2, <2>5, AsksKeptByMove
  <2>. QED  BY <2>3, <2>4, <2>6 DEF IndInv
<1>. QED  BY <1>1, <1>2

\* Every step of a client keeps the invariant.
LEMMA ClientSteps ==
    ASSUME IndInv, NEW c \in Clients, ClientStep(c)
    PROVE  IndInv'
<1>. c \in Processes
  BY DEF Processes
<1>. QED  BY ConnectSteps, ReturnSteps, EnqueueStep, ShutdownSteps, ProbeSteps,
             RecheckStep
             DEF ClientStep

-----------------------------------------------------------------------------
(* The force-stop *)

\* What a force-stop does before and after it kills and unlinks.
LEMMA ForceMoves ==
    ASSUME IndInv, NEW p \in Processes,
           (p \in Operators /\ BeginForce(p)) \/ ForceProbe(p) \/ UnlinkSocket(p)
    PROVE  IndInv'
<1>1. PICK place \in {"force", "unlink pidfile", "kill", "spawn lock", "idle"} :
          Move(p, place)
  BY DEF BeginForce, ForceProbe, UnlinkSocket
<1>2. UNCHANGED <<daemonVars, pidfile, inodes, pid, holder, conn, late>>
  BY DEF BeginForce, ForceProbe, UnlinkSocket, fileVars
<1>3. sock' \in Daemons \cup {None} /\ holder' \in [Inodes -> Holders]
  BY DEF IndInv, TypeInv, BeginForce, ForceProbe, UnlinkSocket, fileVars
<1>. QED  BY <1>1, <1>2, <1>3, ProcessMoves DEF Places

\* The kill ends whichever process the file names now.
LEMMA ForceKillStep ==
    ASSUME IndInv, NEW p \in Processes, ForceKill(p)
    PROVE  IndInv'
<1>1. PICK place \in {"unlink pidfile", "spawn lock", "idle"} : Move(p, place)
  BY DEF ForceKill
<1>2. UNCHANGED <<conn, late>>
  BY DEF ForceKill
<1>3. CASE UNCHANGED <<daemonVars, fileVars>>
  <2>1. /\ UNCHANGED <<pidfile, inodes, pid, holder>>
        /\ sock' \in Daemons \cup {None} /\ holder' \in [Inodes -> Holders]
    BY <1>3 DEF IndInv, TypeInv, fileVars
  <2>. QED  BY <1>1, <1>2, <1>3, <2>1, ProcessMoves DEF Places
<1>4. CASE ~UNCHANGED <<daemonVars, fileVars>>
  <2>. DEFINE d == pid[pidfile]
  <2>1. /\ pidfile # 0 /\ pid[pidfile] # None
        /\ End(d) /\ stop' = [stop EXCEPT ![d] = "killed"]
    BY <1>4 DEF ForceKill
  <2>2. d \in Daemons
    <3>1. pidfile \in Inodes
      BY <2>1, PathInode DEF IndInv
    <3>. QED  BY <2>1, <3>1 DEF IndInv, TypeInv
  <2>. HIDE DEF d
  <2>3. /\ at' \in [Processes -> Places]
        /\ \A q \in Processes :
             at'[q] \in {"hello", "asking", "queued"} => at'[q] = at[q]
    BY <1>1 DEF IndInv, TypeInv, Move, Places
  <2>4. TypeInv'
    <3>1. stop' \in [Daemons -> {"no", "idle", "told", "killed"}]
      BY <2>1, <2>2 DEF IndInv, TypeInv
    <3>. QED  BY <1>2, <2>1, <2>2, <2>3, <3>1, EndTypes
  <2>5. LockInv' /\ VerifiedInv'
    BY <2>1, <2>2, EndLocks
  <2>6. ConnInv' /\ IdleExitStrandsNoAsk'
    BY <1>2, <2>1, <2>2, <2>3
       DEF IndInv, TypeInv, ConnInv, IdleExitStrandsNoAsk, Processes
  <2>. QED  BY <2>4, <2>5, <2>6 DEF IndInv
<1>. QED  BY <1>3, <1>4

\* The unlink marks every daemon whose verified path it takes away.
LEMMA UnlinkPidfileStep ==
    ASSUME IndInv, NEW p \in Processes, UnlinkPidfile(p)
    PROVE  IndInv'
<1>1. orphaned' \in [Daemons -> BOOLEAN]
  BY DEF IndInv, TypeInv, UnlinkPidfile
<1>2. TypeInv'
  <2>1. inodes' \in 0..MaxInodes /\ pidfile' \in 0..inodes'
    BY PathInode DEF IndInv, TypeInv, UnlinkPidfile
  <2>2. at' \in [Processes -> Places]
    BY DEF IndInv, TypeInv, UnlinkPidfile, Move, Places
  <2>. QED  BY <1>1, <2>1, <2>2 DEF IndInv, TypeInv, UnlinkPidfile
<1>3. LockInv'
  BY DEF IndInv, LockInv, UnlinkPidfile
<1>4. VerifiedInv'
  BY DEF IndInv, VerifiedInv, UnlinkPidfile
<1>5. at'[p] = "unlink socket" /\ \A q \in Processes \ {p} : at'[q] = at[q]
  BY DEF IndInv, TypeInv, UnlinkPidfile, Move
<1>6. ConnInv' /\ IdleExitStrandsNoAsk'
  BY <1>5, AsksKeptByMove DEF UnlinkPidfile
<1>. QED  BY <1>2, <1>3, <1>4, <1>6 DEF IndInv

-----------------------------------------------------------------------------
\* Every step of the system keeps the invariant.
LEMMA NextIndInv == IndInv /\ [Next]_vars => IndInv'
<1>. SUFFICES ASSUME IndInv, [Next]_vars PROVE IndInv'
  OBVIOUS
<1>1. CASE \E d \in Daemons : DaemonStep(d)
  BY <1>1, DaemonSteps
<1>2. CASE \E c \in Clients : ClientStep(c)
  BY <1>2, ClientSteps
<1>3. CASE \E o \in Operators : OperatorStep(o)
  BY <1>3, ShutdownSteps, ProbeSteps, ForceMoves DEF OperatorStep, Processes
<1>4. CASE \E p \in Processes : ForceStep(p)
  BY <1>4, ForceMoves, ForceKillStep, UnlinkPidfileStep DEF ForceStep
<1>5. CASE UNCHANGED vars
  <2>1. UNCHANGED <<daemonVars, fileVars, clientVars>>
    BY <1>5 DEF vars
  <2>. QED  BY <2>1 DEF IndInv, TypeInv, LockInv, VerifiedInv, ConnInv,
                        IdleExitStrandsNoAsk, daemonVars, fileVars, clientVars
<1>. QED  BY <1>1, <1>2, <1>3, <1>4, <1>5 DEF Next

\* The pid file's lock, the inode check and the queue's bookkeeping hold in
\* every behaviour, with any number of processes.
THEOREM Invariance == Spec => []IndInv
<1>. QED  BY InitIndInv, NextIndInv, PTL DEF Spec

\* Of the daemons that serve, at most one was never orphaned by a force-stop:
\* both would hold the flock of the inode at the pid file's path.
THEOREM SingletonUnlessForcedHolds == Spec => []SingletonUnlessForced
<1>1. IndInv => SingletonUnlessForced
  <2>. SUFFICES ASSUME IndInv, NEW d \in Serving, NEW e \in Serving,
                       ~orphaned[d], ~orphaned[e]
                PROVE  d = e
    BY DEF SingletonUnlessForced
  <2>1. /\ d \in Daemons /\ daemon[d] \in Holding \ {"verify"}
        /\ e \in Daemons /\ daemon[e] \in Holding \ {"verify"}
    BY DEF Serving, Listening, Holding
  <2>2. ino[d] = pidfile /\ ino[e] = pidfile
    BY <2>1 DEF IndInv, VerifiedInv
  <2>. QED  BY <2>1, <2>2 DEF IndInv, LockInv
<1>. QED  BY <1>1, Invariance, PTL

\* An ask that was queued before the daemon decided to idle out is never left
\* at it: the decision is taken on an empty queue, under the queue's lock.
THEOREM IdleExitStrandsNoAskHolds == Spec => []IdleExitStrandsNoAsk
<1>1. IndInv => IdleExitStrandsNoAsk
  BY DEF IndInv
<1>. QED  BY <1>1, Invariance, PTL
=============================================================================
