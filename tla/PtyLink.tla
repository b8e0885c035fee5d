------------------------------- MODULE PtyLink -------------------------------
(***************************************************************************)
(* How `tether pty` processes share the links of one device                *)
(* (tether.rs, claim_link and PtyLinkGuard).  A slot is a symlink, claimed *)
(* by creating it, and beside it a sidecar file with the pid of whoever    *)
(* claimed it, written afterwards.  A process that finds a slot taken      *)
(* reads the sidecar, probes that pid, and if it is gone removes both      *)
(* files and tries again.  The two files are never touched in one step,    *)
(* and nothing is checked again before a removal.                          *)
(*                                                                         *)
(* A process is its pid: pids are not used again.                          *)
(***************************************************************************)
EXTENDS Naturals, FiniteSets

CONSTANTS
  Procs,      \* the processes, each one `tether pty`
  Gone,       \* a process of an earlier time, dead
  None,       \* no process: no link, or a sidecar missing or unreadable
  LastSlot,   \* the slots are 1..LastSlot (9999 in the code)
  Leftovers,  \* what an earlier process may have left of slot 1
  Named,      \* the processes started with `--link`, all for slot 1
  OneAtATime, \* nobody starts a claim while another one is under way
  MaxKills    \* bound: processes killed by a signal that runs no guard

Slots == 1..LastSlot

\* Link and sidecar after a kill: both in place; before the sidecar was written;
\* between the removals of the guard; or nothing.
Remains == {<<None, None>>, <<Gone, Gone>>, <<Gone, None>>, <<None, Gone>>}

ASSUME LinkConstants ==
  /\ None \notin Procs \cup {Gone} /\ Gone \notin Procs
  /\ LastSlot \in Nat \ {0} /\ Named \subseteq Procs
  /\ Leftovers \subseteq Remains
  /\ OneAtATime \in BOOLEAN /\ MaxKills \in Nat

VARIABLES
  link,    \* whose slave each slot's symlink leads to
  sidecar, \* the pid in each slot's sidecar
  proc     \* each process: where it is, its slot, the pid it read

linkVars == <<link, sidecar, proc>>

Claiming == {"claim", "look", "probe", "clear", "clear2", "stamp"}
Dropping == {"drop", "drop2"}
Over == {"gone", "killed"}

LinkTypeOK ==
  /\ link \in [Slots -> Procs \cup {Gone, None}]
  /\ sidecar \in [Slots -> Procs \cup {Gone, None}]
  /\ proc \in [Procs -> [pc: {"new", "held", "left"} \cup Claiming \cup Dropping \cup Over,
                         slot: Slots, read: Procs \cup {Gone, None}]]

LinkInit ==
  /\ \E old \in Leftovers :
       /\ link = [s \in Slots |-> IF s = 1 THEN old[1] ELSE None]
       /\ sidecar = [s \in Slots |-> IF s = 1 THEN old[2] ELSE None]
  /\ proc = [p \in Procs |-> [pc |-> "new", slot |-> 1, read |-> None]]

At(p, pc) == proc[p].pc = pc
Go(p, pc) == proc' = [proc EXCEPT ![p].pc = pc]

\* process_alive, the other way round.
Dead(q) == q = Gone \/ (q \in Procs /\ proc[q].pc \in Over)

-----------------------------------------------------------------------------
(* The claim.                                                              *)

\* pty_session: the pty is there, claim_link begins at the first slot.
StartClaim(p) ==
  /\ At(p, "new")
  /\ OneAtATime => \A q \in Procs : proc[q].pc \notin Claiming
  /\ Go(p, "claim")
  /\ UNCHANGED <<link, sidecar>>

\* try_claim_link: symlink(2) creates the link, or says that it exists, or
\* fails for another reason and with it the command.
Symlink(p) ==
  LET s == proc[p].slot IN
  /\ At(p, "claim")
  /\ \/ /\ link[s] = None
        /\ link' = [link EXCEPT ![s] = p] /\ Go(p, "stamp")
     \/ link[s] # None /\ Go(p, "look") /\ UNCHANGED link
     \/ Go(p, "left") /\ UNCHANGED link
  /\ UNCHANGED sidecar

\* reclaim_if_stale: the sidecar is read, ...
ReadSidecar(p) ==
  /\ At(p, "look")
  /\ proc' = [proc EXCEPT ![p].pc = "probe", ![p].read = sidecar[proc[p].slot]]
  /\ UNCHANGED <<link, sidecar>>

\* The slot is busy: the next one, if the user left the choice and there is one.
NextSlot(p) ==
  LET s == proc[p].slot IN
  proc' = IF p \in Named \/ s = LastSlot
          THEN [proc EXCEPT ![p].pc = "left", ![p].read = None]
          ELSE [proc EXCEPT ![p].pc = "claim", ![p].slot = s + 1, ![p].read = None]

\* Fault: the probe trusts nobody to be gone.
ProbeTimid(p) ==
  At(p, "probe") /\ NextSlot(p) /\ UNCHANGED <<link, sidecar>>

\* Fault: any failure of the probe counts, EPERM on another user's process too.
ProbeBold(p) ==
  /\ At(p, "probe")
  /\ \/ proc[p].read # None /\ Go(p, "clear")
     \/ ~Dead(proc[p].read) /\ NextSlot(p)
  /\ UNCHANGED <<link, sidecar>>

\* ... and its pid probed: only one that is surely gone is cleared away.
Probe(p) ==
  /\ At(p, "probe")
  /\ IF Dead(proc[p].read) THEN Go(p, "clear") ELSE NextSlot(p)
  /\ UNCHANGED <<link, sidecar>>

ClearLink(p) ==
  /\ At(p, "clear")
  /\ link' = [link EXCEPT ![proc[p].slot] = None] /\ Go(p, "clear2")
  /\ UNCHANGED sidecar

\* ... and round again.
ClearSidecar(p) ==
  /\ At(p, "clear2")
  /\ sidecar' = [sidecar EXCEPT ![proc[p].slot] = None]
  /\ proc' = [proc EXCEPT ![p].pc = "claim", ![p].read = None]
  /\ UNCHANGED link

\* claim_link: the pid is written, or the link given up again.
Stamp(p) ==
  LET s == proc[p].slot IN
  /\ At(p, "stamp")
  /\ \/ sidecar' = [sidecar EXCEPT ![s] = p] /\ Go(p, "held") /\ UNCHANGED link
     \/ link' = [link EXCEPT ![s] = None] /\ Go(p, "left") /\ UNCHANGED sidecar

-----------------------------------------------------------------------------
(* The end.                                                                *)

\* The session ends: an error of attach or lock, a signal that is handled, the
\* child's exit, the loss of the daemon.
EndBridge(p) ==
  At(p, "held") /\ Go(p, "drop") /\ UNCHANGED <<link, sidecar>>

\* PtyLinkGuard::drop removes what is at the link's name, whoever made it, ...
DropLink(p) ==
  /\ At(p, "drop")
  /\ link' = [link EXCEPT ![proc[p].slot] = None] /\ Go(p, "drop2")
  /\ UNCHANGED sidecar

DropSidecar(p) ==
  /\ At(p, "drop2")
  /\ sidecar' = [sidecar EXCEPT ![proc[p].slot] = None] /\ Go(p, "left")
  /\ UNCHANGED link

\* The process ends.
Exit(p) ==
  At(p, "left") /\ Go(p, "gone") /\ UNCHANGED <<link, sidecar>>

\* SIGKILL, or a signal no one handles: no guard runs.
KillClaimant(p) ==
  /\ proc[p].pc \notin {"new"} \cup Over
  /\ Cardinality({q \in Procs : At(q, "killed")}) < MaxKills
  /\ Go(p, "killed")
  /\ UNCHANGED <<link, sidecar>>

LinkStep(p) ==
  \/ Symlink(p) \/ ReadSidecar(p) \/ Probe(p) \/ ClearLink(p) \/ ClearSidecar(p)
  \/ Stamp(p) \/ DropLink(p) \/ DropSidecar(p) \/ Exit(p)

LinkNext == \E p \in Procs : StartClaim(p) \/ LinkStep(p) \/ EndBridge(p) \/ KillClaimant(p)

LinkSpec == LinkInit /\ [][LinkNext]_linkVars

-----------------------------------------------------------------------------
(* Properties.                                                             *)

\* As long as claims do not overlap, a process that serves a link still has
\* it: the link leads to its own pty, and its pid is the only one that can be
\* in the sidecar.
HolderKeepsLink ==
  \A p \in Procs : At(p, "held") =>
    /\ link[proc[p].slot] = p
    /\ sidecar[proc[p].slot] \in {p, None}

\* A claim passes a slot by only when its holder lives or its sidecar does not
\* tell: a complete leftover never costs a slot.
StaleSlotIsReused ==
  [][\A p \in Procs :
       LET s == proc[p].slot IN
       At(p, "probe") /\ proc'[p].pc \in {"claim", "left"} =>
         ~(link[s] # None /\ Dead(link[s]) /\ sidecar[s] = link[s])]_linkVars

\* A claim comes to an end.
ClaimEnds ==
  \A p \in Procs : proc[p].pc \in Claiming ~> proc[p].pc \notin Claiming

\* "Never removes a link without first proving its holder is dead": the link
\* of a live process goes only by that process's own hand.
LiveLinkStays ==
  [][\A s \in Slots :
       LET q == link[s] IN
       q \in Procs /\ ~Dead(q) /\ link'[s] # q => proc[q].pc \in {"stamp", "drop"}]_linkVars
=============================================================================
