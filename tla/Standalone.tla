------------------------------ MODULE Standalone ------------------------------
(***************************************************************************)
(* Clients that bring their own daemon: `tether -D <device>` (tether.rs,   *)
(* run, find_daemon_managing_device, spawn_embedded_daemon, DaemonGuard)   *)
(* beside daemons that were started by hand on the default socket          *)
(* (tetherd/main.rs).  All of them are about one device.                   *)
(*                                                                         *)
(* A client looks for a daemon among the sockets /tmp/tetherd*.sock, and   *)
(* finds none under the name its own daemon gets (/tmp/tether-<pid>-...),  *)
(* so embedded daemons never show up in that search.                       *)
(*                                                                         *)
(* The daemons listen on a socket file only: one with `--tcp` whose        *)
(* address is taken ends after it has taken the socket file.               *)
(***************************************************************************)
EXTENDS Naturals, FiniteSets

CONSTANTS
  Clients,  \* `tether -D` processes; a client also names its embedded daemon
  Servers,  \* daemons on the default socket, none of them started twice
  Nobody,   \* no daemon
  Stale,    \* a daemon of an earlier time, dead
  MaxDeaths \* bound: clients and servers killed by a signal

Daemons == Clients \cup Servers

\* Socket files: each embedded daemon's own, and the one that Servers share.
Default == "default"
SocketOf(d) == IF d \in Clients THEN d ELSE Default
Sockets == Clients \cup {Default}

ASSUME StandaloneConstants ==
  /\ Clients \cap Servers = {} /\ Nobody \notin Daemons /\ Stale \notin Daemons \cup {Nobody}
  /\ Default \notin Daemons /\ MaxDeaths \in Nat

VARIABLES
  client, \* where each client is
  dials,  \* the socket it connects to
  log,    \* the clients whose log file exists
  daemon, \* where each daemon is
  socket  \* whose socket file is at each path

standaloneVars == <<client, dials, log, daemon, socket>>

Starting == {"open", "check", "remove", "bind", "listen"}

StandaloneTypeOK ==
  /\ client \in [Clients -> {"new", "probe", "spawn", "wait", "dial", "session", "kill",
                             "unlink", "gone", "killed"}]
  /\ dials \in [Clients -> Sockets]
  /\ log \in SUBSET Clients
  /\ daemon \in [Daemons -> {"off", "serve", "dead", "failed", "crashed"} \cup Starting]
  /\ socket \in [Sockets -> Daemons \cup {Nobody, Stale}]

StandaloneInit ==
  /\ client = [c \in Clients |-> "new"]
  /\ dials = [c \in Clients |-> Default]
  /\ log = {}
  /\ daemon = [d \in Daemons |-> "off"]
  /\ \E old \in {Nobody, Stale} :
       socket = [s \in Sockets |-> IF s = Default THEN old ELSE Nobody]

Move(c, pc) == client' = [client EXCEPT ![c] = pc]
Becomes(d, pc) == daemon' = [daemon EXCEPT ![d] = pc]
Deaths == Cardinality({c \in Clients : client[c] = "killed"})
            + Cardinality({d \in Servers : daemon[d] = "crashed"})

\* connect(2) on a socket file: somebody has to listen behind it.
Answers(s) == socket[s] \in Daemons /\ daemon[socket[s]] = "serve"

-----------------------------------------------------------------------------
(* The daemon: main.                                                       *)

StartServer(d) ==
  /\ d \in Servers /\ daemon[d] = "off" /\ Becomes(d, "open")
  /\ UNCHANGED <<client, dials, log, socket>>

\* Fault: the old socket goes before the device has been opened.
OpenDeviceLast(d) ==
  /\ daemon[d] = "open"
  /\ Becomes(d, "check") \/ Becomes(d, "dead")
  /\ socket' = [socket EXCEPT ![SocketOf(d)] = Nobody]
  /\ UNCHANGED <<client, dials, log>>

\* The device is opened once to fail fast: it may be missing, or busy.
OpenDevice(d) ==
  /\ daemon[d] = "open"
  /\ Becomes(d, "check") \/ Becomes(d, "dead")
  /\ UNCHANGED <<client, dials, log, socket>>

\* The path is looked at, ...
CheckSocket(d) ==
  /\ daemon[d] = "check"
  /\ Becomes(d, IF socket[SocketOf(d)] = Nobody THEN "bind" ELSE "remove")
  /\ UNCHANGED <<client, dials, log, socket>>

\* ... what is there removed, whoever serves it, if it still is there and may
\* be removed, ...
RemoveSocket(d) ==
  LET s == SocketOf(d) IN
  /\ daemon[d] = "remove"
  /\ \/ socket[s] # Nobody /\ socket' = [socket EXCEPT ![s] = Nobody] /\ Becomes(d, "bind")
     \/ Becomes(d, "dead") /\ UNCHANGED socket
  /\ UNCHANGED <<client, dials, log>>

\* ... and the new socket bound, which fails if another daemon was faster, or
\* for a reason of its own ("failed"): no descriptor is left, the directory is
\* full.
BindSocket(d) ==
  LET s == SocketOf(d) IN
  /\ daemon[d] = "bind"
  /\ \/ socket[s] = Nobody /\ socket' = [socket EXCEPT ![s] = d] /\ Becomes(d, "listen")
     \/ socket[s] # Nobody /\ Becomes(d, "dead") /\ UNCHANGED socket
     \/ Becomes(d, "failed") /\ UNCHANGED socket
  /\ UNCHANGED <<client, dials, log>>

\* Binding and listening are two calls.
Listen(d) ==
  /\ daemon[d] = "listen" /\ Becomes(d, "serve")
  /\ UNCHANGED <<client, dials, log, socket>>

DaemonStep(d) ==
  OpenDevice(d) \/ CheckSocket(d) \/ RemoveSocket(d) \/ BindSocket(d) \/ Listen(d)

\* No signal is handled: the socket file stays behind.
Crash(d) ==
  /\ d \in Servers /\ daemon[d] \notin {"off", "dead", "failed", "crashed"} /\ Deaths < MaxDeaths
  /\ Becomes(d, "crashed")
  /\ UNCHANGED <<client, dials, log, socket>>

-----------------------------------------------------------------------------
(* The client: run.                                                        *)

\* find_daemon_managing_device lists /tmp.
Scan(c) ==
  /\ client[c] = "new"
  /\ Move(c, IF socket[Default] = Nobody THEN "spawn" ELSE "probe")
  /\ UNCHANGED <<dials, log, daemon, socket>>

\* probe_daemon_devices: a daemon that listens answers in 300 ms, and is then
\* used; or it is late, or a notification comes where an answer is expected.
AskDaemon(c) ==
  /\ client[c] = "probe"
  /\ \/ Answers(Default) /\ Move(c, "dial")
     \/ Move(c, "spawn")
  /\ UNCHANGED <<dials, log, daemon, socket>>

\* spawn_embedded_daemon: the log file and the child; or neither, for the log
\* cannot be created, or the child cannot be started and the log is removed; or
\* the log alone, whose descriptor could not be duplicated for stderr.
Spawn(c) ==
  /\ client[c] = "spawn"
  /\ \/ /\ Move(c, "wait") /\ Becomes(c, "open")
        /\ dials' = [dials EXCEPT ![c] = c] /\ log' = log \cup {c}
     \/ /\ Move(c, "gone") /\ log' \in {log, log \cup {c}}
        /\ UNCHANGED <<daemon, dials>>
  /\ UNCHANGED socket

\* Fault: the wait has no end of its own.
WaitForSocket(c) ==
  /\ client[c] = "wait" /\ socket[c] # Nobody /\ Move(c, "dial")
  /\ UNCHANGED <<dials, log, daemon, socket>>

\* The loop that waits: the file is there, or the child has ended, or 5 s are
\* over.  A child that has ended is not killed any more.
Wait(c) ==
  /\ client[c] = "wait"
  /\ \/ socket[c] # Nobody /\ Move(c, "dial")
     \/ socket[c] = Nobody /\ daemon[c] \in {"dead", "failed"} /\ Move(c, "unlink")
     \/ Move(c, "kill")
  /\ UNCHANGED <<dials, log, daemon, socket>>

\* Whether a DaemonGuard goes out of scope at the end.
Guarded(c) == dials[c] = c

Leave(c) == Move(c, IF Guarded(c) THEN "kill" ELSE "gone")

Dial(c) ==
  /\ client[c] = "dial"
  /\ \/ Answers(dials[c]) /\ Move(c, "session")
     \/ ~Answers(dials[c]) /\ Leave(c)
  /\ UNCHANGED <<dials, log, daemon, socket>>

\* run_with_stream returns.
EndSession(c) ==
  /\ client[c] = "session" /\ Leave(c)
  /\ UNCHANGED <<dials, log, daemon, socket>>

\* Fault: the daemon is asked to end and not waited for.
AskDaemonToEnd(c) ==
  /\ client[c] = "kill" /\ Move(c, "unlink")
  /\ UNCHANGED <<dials, log, daemon, socket>>

\* DaemonGuard::drop: the child is killed and waited for, ...
KillDaemon(c) ==
  /\ client[c] = "kill" /\ Move(c, "unlink")
  /\ Becomes(c, "dead")
  /\ UNCHANGED <<dials, log, socket>>

\* ... then its files removed.
UnlinkFiles(c) ==
  /\ client[c] = "unlink" /\ Move(c, "gone")
  /\ socket' = [socket EXCEPT ![c] = Nobody] /\ log' = log \ {c}
  /\ UNCHANGED <<dials, daemon>>

\* A signal ends the client; its daemon goes on.
KillClient(c) ==
  /\ client[c] \notin {"new", "gone", "killed"} /\ Deaths < MaxDeaths
  /\ Move(c, "killed")
  /\ UNCHANGED <<dials, log, daemon, socket>>

ClientStep(c) ==
  Scan(c) \/ AskDaemon(c) \/ Spawn(c) \/ Wait(c) \/ Dial(c) \/ KillDaemon(c) \/ UnlinkFiles(c)

-----------------------------------------------------------------------------
(* Properties.                                                             *)

\* "The guard kills the child when we exit, regardless of how (clean exit,
\* error, panic)": of a client that was not killed no daemon and no socket is
\* left, and no log of a daemon that was ever started (one that never was may
\* leave an empty log, Spawn).
NothingOutlivesClient ==
  \A c \in Clients : client[c] = "gone" =>
    /\ daemon[c] \in {"off", "dead", "failed"} /\ socket[c] = Nobody
    /\ c \in log => daemon[c] = "off"

\* A start that fails takes no running daemon off the default socket for
\* nothing, but for one that fails after the old socket was removed, when it
\* binds its own: unless this happened or one crashed, some daemon is reached
\* there whenever one serves and none is starting.
SomeServerReached ==
  (\E d \in Servers : daemon[d] = "serve")
    /\ (\A d \in Servers : daemon[d] \in {"off", "serve", "dead"})
  => Answers(Default)

\* A client that was started gets its session, or ends.
ClientSettles ==
  \A c \in Clients : client[c] = "probe" \/ client[c] = "wait"
    ~> client[c] \in {"session", "gone", "killed"}
=============================================================================
