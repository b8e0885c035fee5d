------------------------------- MODULE PtyHost -------------------------------
(***************************************************************************)
(* One machine on which several `tether -D <device> pty` run: each process *)
(* finds or brings its daemon (Standalone), claims a link while its        *)
(* session lasts (PtyLink), and unwinds in the opposite order, unless a    *)
(* signal takes both guards at once.                                       *)
(***************************************************************************)
EXTENDS PtyLink, Standalone

CONSTANT MaxStarted \* bound: processes and servers that take part, of all there are

ASSUME OneProcess == Procs = Clients

hostVars == <<link, sidecar, proc, client, dials, log, daemon, socket>>

HostInit == LinkInit /\ StandaloneInit

Started == {c \in Clients : client[c] # "new"} \cup {d \in Servers : daemon[d] # "off"}


\* Fault: the daemon goes while the session still unwinds.
UnwindEarly(c) ==
  EndSession(c) /\ proc[c].pc \in {"drop", "left"} /\ UNCHANGED linkVars

\* pty_session returns, its link guard dropped, before run drops its own.
Unwind(c) ==
  EndSession(c) /\ At(c, "left") /\ UNCHANGED linkVars

\* A process is over when both parts are.
Leaves(c) ==
  client[c] = "gone" /\ Exit(c) /\ UNCHANGED standaloneVars

InSession(c) ==
  /\ client[c] = "session" /\ ~At(c, "left")
  /\ LinkStep(c)
  /\ UNCHANGED standaloneVars

\* The claim may wait for another one, the bridge runs as long as it is used.
UserActs(c) ==
  /\ client[c] = "session"
  /\ StartClaim(c) \/ EndBridge(c)
  /\ UNCHANGED standaloneVars

\* The signal that ends a process ends all of it.
KillProcess(c) ==
  /\ KillClient(c)
  /\ Go(c, "killed")
  /\ UNCHANGED <<link, sidecar>>

Outside(c) ==
  /\ client[c] = "new" => Cardinality(Started) < MaxStarted
  /\ ClientStep(c)
  /\ UNCHANGED linkVars

DaemonMoves(d) == DaemonStep(d) /\ UNCHANGED linkVars

ServerChurn(d) ==
  /\ (Cardinality(Started) < MaxStarted /\ StartServer(d)) \/ Crash(d)
  /\ UNCHANGED linkVars

HostNext ==
  \/ \E c \in Clients :
       \/ Outside(c) \/ InSession(c) \/ UserActs(c)
       \/ Unwind(c) \/ Leaves(c) \/ KillProcess(c)
  \/ \E d \in Daemons : DaemonMoves(d)
  \/ \E d \in Servers : ServerChurn(d)

\* Processes and daemons go on until they wait for the user.
HostFairness ==
  /\ \A c \in Clients : WF_hostVars(Outside(c) \/ InSession(c) \/ Unwind(c))
  /\ \A d \in Daemons : WF_hostVars(DaemonMoves(d))

HostSpec == HostInit /\ [][HostNext]_hostVars /\ HostFairness

-----------------------------------------------------------------------------
(* Properties.                                                             *)

\* What a process promised on its link is gone before the daemon behind it:
\* by the time it stops its daemon, its link leads nowhere any more.
LinkGoneBeforeDaemon ==
  \A c \in Clients : client[c] \in {"kill", "unlink", "gone"} =>
    \A s \in Slots : link[s] # c /\ sidecar[s] # c

\* Searches, waits and claims end.
Settles == ClaimEnds /\ ClientSettles
=============================================================================
