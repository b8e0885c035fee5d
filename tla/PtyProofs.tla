------------------------------ MODULE PtyProofs ------------------------------
(***************************************************************************)
(* The two kinds of PTYs.  The daemon's bridge, for streams and chunks of  *)
(* any size: what it keeps to under an exclusive hold, and that each       *)
(* direction is a LossyPipe.  And the links and daemons of any number of   *)
(* processes: what the link files say, what a process leaves behind, and   *)
(* who listens on the default socket.                                      *)
(***************************************************************************)
EXTENDS PtyBridge, PtyHost, RingBufferProofs

-----------------------------------------------------------------------------
(* The bridge under an exclusive hold: the invariant.                      *)

\* The part of the shape that the argument needs.
UpTyped ==
  /\ hold \in {"free", "shared", "exclusive"}
  /\ queue \in Seq({"bridge", "session"})
  /\ strays \in Nat
  /\ up \in [pc: {"read", "check", "send", "write"}, taken: Nat, chunk: Seq(Nat)]
  /\ typed \in Nat

\* The queue tells bridge and session apart but not one write of the bridge from
\* another: a bridge that has a job there is waiting for it.
JobsAwaited ==
  /\ \A i \in 1..Len(queue) : queue[i] = "bridge" => up.pc = "write"
  /\ \A i, j \in 1..Len(queue) : queue[i] = "bridge" /\ queue[j] = "bridge" => i = j

\* A write that is past its look at the lock has not been counted, and none has
\* before it: the bridge cannot have got past that look in the time of this hold.
PastTheLook ==
  hold = "exclusive" /\ up.pc \in {"send", "write"} => strays = 0

StrayInv == UpTyped /\ JobsAwaited /\ PastTheLook /\ OneStray

-----------------------------------------------------------------------------
(* The bridge under an exclusive hold: lemmas.                             *)

\* A job that is added to the write queue comes after all that were there.
LEMMA Queued ==
  ASSUME NEW S, NEW q \in Seq(S), NEW e \in S
  PROVE  /\ Append(q, e) \in Seq(S) /\ Len(Append(q, e)) = Len(q) + 1
         /\ \A i \in 1..Len(q) + 1 : Append(q, e)[i] = IF i = Len(q) + 1 THEN e ELSE q[i]
OBVIOUS

\* The owner takes jobs from the front of the write queue.
LEMMA Unqueued ==
  ASSUME NEW S, NEW q \in Seq(S), q # <<>>
  PROVE  /\ Tail(q) \in Seq(S) /\ Len(q) \in Nat \ {0} /\ Len(Tail(q)) = Len(q) - 1
         /\ Head(q) = q[1]
         /\ \A i \in 1..Len(q) - 1 : Tail(q)[i] = q[i + 1]
OBVIOUS

\* What the task up is when it is ready to read again, and what it is when it
\* is about to send.
LEMMA UpGoesOn ==
  ASSUME UpTyped
  PROVE  /\ UpReady \in [pc: {"read", "check", "send", "write"}, taken: Nat, chunk: Seq(Nat)]
         /\ UpReady.pc = "read"
         /\ \A pc \in {"read", "check", "send", "write"} :
              /\ [up EXCEPT !.pc = pc] \in
                   [pc: {"read", "check", "send", "write"}, taken: Nat, chunk: Seq(Nat)]
              /\ [up EXCEPT !.pc = pc].pc = pc
<1>1. <<>> \in Seq(Nat)
  OBVIOUS
<1> QED
  BY <1>1 DEF UpTyped, UpReady

\* Before anything has happened the bridge owes nothing.
LEMMA StrayInit == Init => StrayInv
  BY DEF Init, StrayInv, UpTyped, JobsAwaited, PastTheLook, OneStray

\* Every step of either task, of the owner and of the session keeps the
\* invariant.
LEMMA StrayNext == StrayInv /\ [Next]_vars => StrayInv'
<1> SUFFICES ASSUME StrayInv, [Next]_vars PROVE StrayInv'
  OBVIOUS
<1> USE DEF StrayInv, UpTyped, JobsAwaited, PastTheLook, OneStray
<1>1. CASE ToolTypes
  BY <1>1 DEF ToolTypes
<1>2. CASE UpRead
  <2>1. PICK n \in 1..MaxChunk :
          up' = [pc |-> "check", taken |-> up.taken + n,
                 chunk |-> [i \in 1..n |-> up.taken + i - 1]]
    BY <1>2 DEF UpRead
  <2>2. n \in Nat /\ n > 0
    BY BridgeConstants
  <2>3. \A i \in 1..n : up.taken + i - 1 \in Nat
    BY <2>2
  <2>4. [i \in 1..n |-> up.taken + i - 1] \in Seq(Nat)
    BY <2>2, <2>3
  <2>5. up'.pc = "check" /\ UpTyped'
    BY <1>2, <2>1, <2>2, <2>4 DEF UpRead
  <2>6. \A i \in 1..Len(queue) : queue[i] # "bridge"
    BY <1>2 DEF UpRead
  <2> QED
    BY <1>2, <2>5, <2>6 DEF UpRead
<1>3. CASE UpCheck
  <2>1. UpTyped' /\ (up'.pc = "read" \/ (up'.pc = "send" /\ hold # "exclusive"))
    BY <1>3, UpGoesOn DEF UpCheck
  <2>2. \A i \in 1..Len(queue) : queue[i] # "bridge"
    BY <1>3 DEF UpCheck
  <2> QED
    BY <1>3, <2>1, <2>2 DEF UpCheck
<1>4. CASE UpSend
  <2>1. up'.pc = "write" /\ UpTyped'
    BY <1>4, UpGoesOn, Queued DEF UpSend
  <2>2. \A i \in 1..Len(queue) : queue[i] # "bridge"
    BY <1>4 DEF UpSend
  <2>3. JobsAwaited'
    BY <1>4, <2>1, <2>2, Queued DEF UpSend
  <2> QED
    BY <1>4, <2>1, <2>3 DEF UpSend
<1>5. CASE Written
  <2>1. up.pc = "write" /\ queue \in Seq({"bridge", "session"}) /\ queue # <<>>
    BY <1>5, Unqueued DEF Written
  <2>2. up' = UpReady /\ queue' = Tail(queue) /\ hold' = hold /\ typed' = typed
    BY <1>5 DEF Written
  <2>3. strays' \in Nat
    BY <1>5 DEF Written
  <2>4. up'.pc = "read" /\ UpTyped'
    BY <2>1, <2>2, <2>3, UpGoesOn, Unqueued
  <2>5. \A i \in 1..Len(queue') : queue'[i] # "bridge"
    BY <1>5, <2>1, <2>2, Unqueued DEF Written
  <2>6. hold = "exclusive" => strays' <= 1
    BY <1>5, <2>1 DEF Written
  <2> QED
    BY <2>2, <2>4, <2>5, <2>6
<1>6. CASE TakeLock
  BY <1>6 DEF TakeLock
<1>7. CASE FreeLock
  BY <1>7 DEF FreeLock
<1>8. CASE SessionSends
  <2>1. UpTyped' /\ JobsAwaited'
    BY <1>8, Queued DEF SessionSends
  <2> QED
    BY <1>8, <2>1 DEF SessionSends
<1>9. CASE SessionWritten
  <2>1. UpTyped' /\ JobsAwaited'
    BY <1>9, Unqueued DEF SessionWritten
  <2> QED
    BY <1>9, <2>1 DEF SessionWritten
<1>10. CASE UNCHANGED upVars
  BY <1>10 DEF upVars
<1>11. \/ PushBytes \/ NotifyWaiters \/ DownStart \/ DownRead \/ DownPark
       \/ DownWrite \/ GiveUp \/ ToolReads \/ UNCHANGED vars
       => UNCHANGED upVars
  BY DEF PushBytes, NotifyWaiters, DownStart, DownRead, DownPark, DownWrite, GiveUp, ToolReads,
         vars, upVars
<1> QED
  BY <1>1, <1>2, <1>3, <1>4, <1>5, <1>6, <1>7, <1>8, <1>9, <1>10, <1>11 DEF Next

-----------------------------------------------------------------------------
(* The bridge under an exclusive hold: the theorem.                        *)

\* Of the bridge's writes one at most reaches the wire in the time of an
\* exclusive hold: the one that had looked at the lock before it was taken
\* (tetherd/pty.rs lets go of the lock between its look and its write).
THEOREM OneStraySafe == Spec => []OneStray
<1>1. StrayInv => OneStray
  BY DEF StrayInv
<1> QED
  BY StrayInit, StrayNext, <1>1, PTL DEF Spec

-----------------------------------------------------------------------------
(* The pipe from the tool to the device.                                   *)

\* What the task up has in hand are the tool's bytes from the first that is not
\* settled to the last it has read; it has none when it reads.
UpInHand ==
  /\ typed \in Nat /\ UpNext \in Nat /\ UpNext <= up.taken /\ up.taken <= typed
  /\ up.chunk = Stretch(UpNext, up.taken)
  /\ up.pc = "read" => UpNext = up.taken
  /\ wire \in Seq(Nat)

\* A pipe out of which nothing comes and in which nothing is lost.
LEMMA UpRests ==
  ASSUME UpTyped, UpInHand, wire' = wire, up'.taken = up.taken, up'.chunk = up.chunk,
         typed' \in Nat, typed' >= typed, up'.pc = "read" => up.pc = "read"
  PROVE  UpInHand' /\ [UpPipe!Next]_<<typed, UpNext, wire>>
<1>1. UpNext' = UpNext
  BY DEF UpNext
<1>2. UpInHand'
  BY <1>1 DEF UpInHand, UpTyped
<1>3. UpPipe!Next
  BY <1>1 DEF UpInHand, UpTyped, UpPipe!Next, UpPipe!Comes
<1> QED
  BY <1>2, <1>3

\* Being ready to read again, the task has let go of everything.
LEMMA UpLetGo ==
  ASSUME UpTyped, UpInHand, up' = UpReady
  PROVE  UpNext' = up.taken /\ up'.taken = up.taken /\ up'.chunk = Stretch(up.taken, up.taken)
<1>1. PICK pc \in {"read", "check", "send", "write"}, taken \in Nat, chunk \in Seq(Nat) :
        up = [pc |-> pc, taken |-> taken, chunk |-> chunk]
  BY DEF UpTyped
<1>2. up' = [pc |-> "read", taken |-> taken, chunk |-> <<>>]
  BY <1>1 DEF UpReady
<1>3. Len(<<>>) = 0 /\ taken - 0 = taken
  BY <1>1
<1>4. Stretch(taken, taken) = <<>>
  BY <1>1, StretchNothing
<1> QED
  BY <1>1, <1>2, <1>3, <1>4 DEF UpNext

\* Every step of the task up, of the owner and of the tool is a step of the pipe, or
\* none.
LEMMA UpPipeStep ==
  ASSUME StrayInv, UpInHand, [Next]_vars
  PROVE  UpInHand' /\ [UpPipe!Next]_<<typed, UpNext, wire>>
<1>t. /\ UpTyped /\ typed \in Nat /\ UpNext \in Nat /\ up.taken \in Nat
      /\ UpNext <= up.taken /\ up.taken <= typed
      /\ wire \in Seq(Nat) /\ up.chunk = Stretch(UpNext, up.taken)
      /\ Len(up.chunk) = up.taken - UpNext
  BY StretchSeq DEF StrayInv, UpInHand, UpTyped
<1>1. CASE ToolTypes
  BY <1>1, <1>t, UpRests DEF ToolTypes
<1>2. CASE UpRead
  <2>1. PICK n \in 1..MaxChunk :
          /\ up.taken + n <= typed
          /\ up' = [pc |-> "check", taken |-> up.taken + n,
                    chunk |-> [i \in 1..n |-> up.taken + i - 1]]
    BY <1>2 DEF UpRead
  <2> DEFINE more == up.taken + n
  <2>2. n \in Nat /\ more \in Nat /\ up.taken <= more /\ more - up.taken = n /\ more <= typed
    BY <1>t, <2>1, BridgeConstants
  <2>3. up'.taken = more /\ up'.pc = "check"
    BY <2>1
  <2> HIDE DEF more
  <2>4. up'.chunk = Stretch(up.taken, more)
    BY <2>1, <2>2 DEF Stretch
  <2>5. Len(up'.chunk) = n
    BY <1>t, <2>2, <2>4, StretchSeq
  <2>6. UpNext' = up.taken /\ UpNext = up.taken
    BY <1>2, <1>t, <2>2, <2>3, <2>5 DEF UpNext, UpRead, UpInHand
  <2>7. typed' = typed /\ wire' = wire
    BY <1>2 DEF UpRead
  <2>8. UpInHand'
    BY <1>t, <2>2, <2>3, <2>4, <2>6, <2>7 DEF UpInHand
  <2> QED
    BY <2>6, <2>7, <2>8
<1>3. CASE UpCheck
  <2>1. typed' = typed /\ wire' = wire
    BY <1>3 DEF UpCheck
  <2>2. CASE hold = "exclusive"
    <3>1. up' = UpReady
      BY <1>3, <2>2 DEF UpCheck
    <3>2. UpNext' = up.taken /\ up'.taken = up.taken
          /\ up'.chunk = Stretch(up.taken, up.taken)
      BY <1>t, <3>1, UpLetGo
    <3>3. UpInHand'
      BY <1>t, <2>1, <3>2 DEF UpInHand
    <3>4. UpPipe!Next
      BY <1>t, <2>1, <3>2 DEF UpPipe!Next, UpPipe!Comes
    <3> QED
      BY <3>3, <3>4
  <2>3. CASE hold # "exclusive"
    <3>1. up' = [up EXCEPT !.pc = "send"]
      BY <1>3, <2>3 DEF UpCheck
    <3>2. up'.taken = up.taken /\ up'.chunk = up.chunk /\ up'.pc = "send"
      BY <1>t, <3>1 DEF UpTyped
    <3> QED
      BY <1>t, <2>1, <3>2, UpRests
  <2> QED
    BY <2>2, <2>3
<1>4. CASE UpSend
  <2>1. up'.taken = up.taken /\ up'.chunk = up.chunk /\ up'.pc = "write"
    BY <1>4, <1>t DEF UpSend, UpTyped
  <2> QED
    BY <1>4, <1>t, <2>1, UpRests DEF UpSend
<1>5. CASE Written
  <2>1. PICK k \in 0..Len(up.chunk) : wire' = wire \o SubSeq(up.chunk, 1, k)
    BY <1>5 DEF Written
  <2>2. up' = UpReady /\ typed' = typed
    BY <1>5 DEF Written
  <2>3. UpNext' = up.taken /\ up'.taken = up.taken
        /\ up'.chunk = Stretch(up.taken, up.taken)
    BY <1>t, <2>2, UpLetGo
  <2> DEFINE lo == UpNext
             hi == up.taken
             new == wire \o SubSeq(Stretch(lo, hi), 1, k)
  <2>4. lo \in Nat /\ hi \in Nat /\ lo <= hi /\ k \in 0 .. hi - lo /\ wire' = new
    BY <1>t, <2>1
  <2> HIDE DEF lo, hi
  <2>5. /\ new \in Seq(Nat) /\ Len(new) >= Len(wire)
        /\ \A i \in 1 .. Len(wire) : new[i] = wire[i]
        /\ \A i \in Len(wire) + 1 .. Len(new) : new[i] \in lo .. lo + k - 1
        /\ \A i, j \in Len(wire) + 1 .. Len(new) : i < j => new[i] < new[j]
    BY <1>t, <2>4, PartAdded
  <2> HIDE DEF new
  <2>6. \A x \in lo .. lo + k - 1 : x \in lo .. hi - 1
    BY <2>4
  <2>7. UpInHand'
    BY <1>t, <2>2, <2>3, <2>4, <2>5 DEF UpInHand
  <2>8. UpPipe!Comes
    BY <2>3, <2>4, <2>5, <2>6 DEF UpPipe!Comes, lo, hi
  <2>9. UpPipe!Next
    BY <1>t, <2>2, <2>3, <2>4, <2>5, <2>8 DEF UpPipe!Next
  <2> QED
    BY <2>7, <2>9
<1>6. CASE UNCHANGED <<typed, up, wire>>
  BY <1>6, <1>t, UpRests
<1> QED
  BY <1>1, <1>2, <1>3, <1>4, <1>5, <1>6
     DEF Next, TakeLock, FreeLock, SessionSends, SessionWritten, PushBytes, NotifyWaiters,
         DownStart, DownRead, DownPark, DownWrite, GiveUp, ToolReads, upVars, vars

\* What the tool sends reaches the device once and in order, or never: the refinement
\* that the run checks on two bytes.
THEOREM ToolToDeviceKept == Spec => ToolToDevice
<1>1. Init => UpInHand /\ UpPipe!Init
  <2> SUFFICES ASSUME Init PROVE UpInHand /\ UpPipe!Init
    OBVIOUS
  <2>1. Stretch(0, 0) \in Seq(Nat) /\ Len(Stretch(0, 0)) = 0
    BY StretchSeq
  <2>2. Stretch(0, 0) = <<>>
    BY <2>1, EmptySeq
  <2>3. UpNext = 0
    BY DEF Init, UpNext
  <2> QED
    BY <2>2, <2>3 DEF Init, UpInHand, UpPipe!Init
<1>2. StrayInv /\ UpInHand /\ [Next]_vars => UpInHand' /\ [UpPipe!Next]_<<typed, UpNext, wire>>
  BY UpPipeStep
<1> QED
  BY <1>1, <1>2, StrayInit, StrayNext, PTL DEF Spec, ToolToDevice, UpPipe!Spec

-----------------------------------------------------------------------------
(* The pipe from the device to the tool.                                   *)

DownTyped ==
  /\ down \in [pc: {"start", "read", "park", "parked", "write"}, cursor: Nat, chunk: Seq(Nat)]
  /\ shown \in Seq(Nat)

\* Once it has begun, what the task down has in hand are the device's bytes from the
\* first that is not settled up to its cursor, and the device is not behind that; it
\* has none in hand except to write them.
DownInHand ==
  /\ down.pc = "start" => down.chunk = <<>>
  /\ down.pc # "start" =>
       /\ DownNext \in Nat /\ DownNext <= down.cursor /\ down.cursor <= ring.head_seq
       /\ down.chunk = Stretch(DownNext, down.cursor)
  /\ down.pc \in {"read", "park", "parked"} => DownNext = down.cursor

DownInv == DownTyped /\ Sound(ring) /\ DownInHand

\* A pipe out of which nothing comes and in which nothing is lost, however much goes
\* in.
LEMMA DownRests ==
  ASSUME DownInv, Sound(ring'), ring'.head_seq >= ring.head_seq, shown' = shown,
         down' \in [pc: {"start", "read", "park", "parked", "write"}, cursor: Nat, chunk: Seq(Nat)],
         down'.chunk = down.chunk,
         \/ down'.pc = "start" /\ down.pc = "start"
         \/ /\ down'.pc # "start" /\ down.pc # "start" /\ down'.cursor = down.cursor
            /\ down'.pc \in {"read", "park", "parked"} => down.pc # "write"
  PROVE  DownInv' /\ DownPipe!Next
<1>1. ring.head_seq \in Nat /\ ring'.head_seq \in Nat
  BY DEF DownInv, Sound
<1>2. CASE down'.pc = "start" /\ down.pc = "start"
  <2>1. DownNext' = ring'.head_seq /\ DownNext = ring.head_seq
    BY <1>2 DEF DownNext
  <2>2. DownInv'
    BY <1>2, <2>1 DEF DownInv, DownTyped, DownInHand
  <2>3. DownPipe!Next
    BY <1>1, <2>1 DEF DownInv, DownTyped, DownPipe!Next, DownPipe!Comes
  <2> QED
    BY <2>2, <2>3
<1>3. CASE /\ down'.pc # "start" /\ down.pc # "start" /\ down'.cursor = down.cursor
           /\ down'.pc \in {"read", "park", "parked"} => down.pc # "write"
  <2>1. DownNext' = DownNext
    BY <1>3 DEF DownNext
  <2>2. down.pc \in {"read", "park", "parked", "write"} /\ down.cursor \in Nat
    BY <1>3 DEF DownInv, DownTyped
  <2>3. DownNext \in Nat /\ DownNext <= down.cursor /\ down.cursor <= ring.head_seq
    BY <1>3 DEF DownInv, DownInHand
  <2>4. DownInv'
    BY <1>1, <1>3, <2>1, <2>2, <2>3 DEF DownInv, DownTyped, DownInHand
  <2>5. DownPipe!Next
    BY <1>1, <2>1, <2>2, <2>3 DEF DownInv, DownTyped, DownPipe!Next, DownPipe!Comes
  <2> QED
    BY <2>4, <2>5
<1> QED
  BY <1>2, <1>3

\* Being ready to read again, the task has let go of everything.
LEMMA DownLetGo ==
  ASSUME DownTyped, down' = DownReady
  PROVE  /\ down' \in [pc: {"start", "read", "park", "parked", "write"}, cursor: Nat,
                       chunk: Seq(Nat)]
         /\ down'.pc = "read" /\ down'.cursor = down.cursor /\ down.cursor \in Nat
         /\ DownNext' = down.cursor
         /\ down'.chunk = Stretch(down.cursor, down.cursor)
<1>1. PICK pc \in {"start", "read", "park", "parked", "write"}, cursor \in Nat,
           chunk \in Seq(Nat) : down = [pc |-> pc, cursor |-> cursor, chunk |-> chunk]
  BY DEF DownTyped
<1>2. down' = [pc |-> "read", cursor |-> cursor, chunk |-> <<>>]
  BY <1>1 DEF DownReady
<1>3. Len(<<>>) = 0 /\ cursor - 0 = cursor /\ <<>> \in Seq(Nat)
  BY <1>1
<1> QED
  BY <1>1, <1>2, <1>3, StretchNothing DEF DownNext

\* Bytes that the task has in hand are let go of up to some point, of which some may
\* have come out.
LEMMA DownMoves ==
  ASSUME DownInv, down.pc = "write", down'.pc # "start", down'.cursor = down.cursor,
         down' \in [pc: {"start", "read", "park", "parked", "write"}, cursor: Nat, chunk: Seq(Nat)],
         ring' = ring,
         NEW k \in 0 .. down.cursor - DownNext,
         shown' = shown \o SubSeq(down.chunk, 1, k),
         DownNext' \in DownNext + k .. down.cursor,
         down'.chunk = Stretch(DownNext', down.cursor),
         down'.pc \in {"read", "park", "parked"} => DownNext' = down.cursor
  PROVE  DownInv' /\ DownPipe!Next
<1> DEFINE lo == DownNext
           hi == down.cursor
           new == shown \o SubSeq(Stretch(lo, hi), 1, k)
<1>1. /\ lo \in Nat /\ hi \in Nat /\ lo <= hi /\ hi <= ring.head_seq
      /\ ring.head_seq \in Nat /\ shown \in Seq(Nat)
      /\ DownNext' \in lo + k .. hi /\ k \in 0 .. hi - lo
      /\ shown' = new
  BY DEF DownInv, DownTyped, DownInHand, Sound
<1> HIDE DEF lo, hi
<1>2. /\ new \in Seq(Nat) /\ Len(new) >= Len(shown)
      /\ \A i \in 1 .. Len(shown) : new[i] = shown[i]
      /\ \A i \in Len(shown) + 1 .. Len(new) : new[i] \in lo .. lo + k - 1
      /\ \A i, j \in Len(shown) + 1 .. Len(new) : i < j => new[i] < new[j]
  BY <1>1, PartAdded
<1> HIDE DEF new
<1>3. /\ \A x \in lo .. lo + k - 1 : x \in lo .. DownNext' - 1
      /\ DownNext' \in Nat /\ DownNext' <= hi /\ DownNext' \in lo .. ring.head_seq
  <2>1. PICK m \in lo + k .. hi : DownNext' = m
    BY <1>1
  <2>2. m \in Nat /\ lo + k <= m /\ m <= hi /\ m \in lo .. ring.head_seq
    BY <1>1
  <2>3. \A x \in lo .. lo + k - 1 : x \in lo .. m - 1
    BY <1>1, <2>2
  <2> QED
    BY <2>1, <2>2, <2>3
<1>4. DownTyped' /\ Sound(ring')
  BY <1>1, <1>2 DEF DownTyped, DownInv
<1>5. DownInHand'
  BY <1>1, <1>3 DEF DownInHand, hi
<1>6. DownPipe!Comes
  BY <1>1, <1>2, <1>3 DEF DownPipe!Comes, lo
<1>7. DownPipe!Next
  <2>1. ring'.head_seq = ring.head_seq /\ ring.head_seq >= ring.head_seq
    BY <1>1
  <2>2. DownNext' \in DownNext .. ring'.head_seq
    BY <1>3, <2>1 DEF lo
  <2> QED
    BY <1>1, <1>2, <1>6, <2>1, <2>2 DEF DownPipe!Next
<1> QED
  BY <1>4, <1>5, <1>7 DEF DownInv

\* A read moves the cursor to the newest byte and settles what the ring has lost.
LEMMA DownReadMoves ==
  ASSUME DownInv, DownRead
  PROVE  DownInv' /\ DownPipe!Next
<1> DEFINE head == ring.head_seq
           from == down.cursor
           got == ReadFrom(ring, from)
<1>1. /\ Sound(ring) /\ head \in Nat /\ from \in Nat /\ from <= head
      /\ DownNext = from /\ down.chunk = Stretch(from, from)
      /\ shown \in Seq(Nat) /\ ring.tail_seq \in Nat
  BY DEF DownInv, DownTyped, DownInHand, DownRead, Sound
<1>2. /\ down' = [pc |-> IF got.data = <<>> THEN "park" ELSE "write",
                  cursor |-> got.cursor, chunk |-> got.data]
      /\ ring' = ring /\ shown' = shown
  BY DEF DownRead
<1>3. /\ got \in Reads
      /\ from >= head => got.data = <<>> /\ got.cursor = from
      /\ from < head => /\ got.cursor = head /\ got.resume < head /\ from <= got.resume
                        /\ got.data = Stretch(got.resume, head)
  <2>1. /\ got \in Reads
        /\ from >= head => got.data = <<>>
        /\ from < head => Wanted(ring, from, got) /\ got.resume < head
    BY <1>1, ReadWanted
  <2>2. from >= head => got.cursor = from
    BY DEF ReadFrom
  <2>3. from < head => from <= got.resume
    BY <1>1, <2>1 DEF Wanted
  <2> QED
    BY <2>1, <2>2, <2>3 DEF Wanted
<1> HIDE DEF got, head, from
<1>4. PICK first \in Nat :
        /\ from <= first /\ first <= got.cursor /\ got.cursor <= head /\ got.cursor \in Nat
        /\ got.data = Stretch(first, got.cursor) /\ got.data \in Seq(Nat)
        /\ got.data = <<>> => first = got.cursor
  <2>1. got.cursor \in Nat /\ got.data \in Seq(Nat) /\ got.resume \in Nat
    BY <1>3 DEF Reads
  <2>2. CASE from >= head
    BY <1>1, <1>3, <2>1, <2>2, StretchNothing
  <2>3. CASE from < head
    <3>1. got.data # <<>>
      BY <1>1, <1>3, <2>1, <2>3, StretchEmpty
    <3> QED
      BY <1>1, <1>3, <2>1, <2>3, <3>1
  <2> QED
    BY <1>1, <2>2, <2>3
<1>5. Len(got.data) = got.cursor - first
  BY <1>4, StretchSeq
<1>6. DownNext' = first
  BY <1>2, <1>4, <1>5 DEF DownNext
<1>7. /\ down' \in [pc: {"start", "read", "park", "parked", "write"}, cursor: Nat, chunk: Seq(Nat)]
      /\ down'.cursor = got.cursor /\ down'.chunk = got.data
      /\ \/ down'.pc = "park" /\ got.data = <<>>
         \/ down'.pc = "write"
  BY <1>2, <1>4
<1>8. DownInv'
  BY <1>1, <1>2, <1>4, <1>6, <1>7 DEF DownInv, DownTyped, DownInHand, head
<1>9. DownPipe!Next
  BY <1>1, <1>2, <1>4, <1>6 DEF DownPipe!Next, DownPipe!Comes, head
<1> QED
  BY <1>8, <1>9

\* Every step is one of the pipe, or none.
LEMMA DownPipeStep ==
  ASSUME DownInv, [Next]_vars
  PROVE  DownInv' /\ [DownPipe!Next]_<<ring.head_seq, DownNext, shown>>
<1>t. /\ DownTyped /\ Sound(ring) /\ DownInHand /\ ring.head_seq \in Nat
      /\ \A pc \in {"read", "park", "parked"} :
           /\ [down EXCEPT !.pc = pc] \in
                [pc: {"start", "read", "park", "parked", "write"}, cursor: Nat, chunk: Seq(Nat)]
           /\ [down EXCEPT !.pc = pc].pc = pc
           /\ [down EXCEPT !.pc = pc].cursor = down.cursor
           /\ [down EXCEPT !.pc = pc].chunk = down.chunk
  BY DEF DownInv, DownTyped, Sound
<1>1. CASE PushBytes
  <2>1. PICK n \in 1..MaxChunk : ring' = Push(ring, Fresh(ring, n))
    BY <1>1 DEF PushBytes
  <2>2. n \in Nat \ {0}
    BY BridgeConstants
  <2>3. Sound(ring') /\ ring'.head_seq >= ring.head_seq
    BY <1>t, <2>1, <2>2, PushSound
  <2>4. down' = down /\ shown' = shown
    BY <1>1 DEF PushBytes
  <2> QED
    BY <1>t, <2>3, <2>4, DownRests DEF DownTyped
<1>2. CASE NotifyWaiters
  <2>1. ring' = ring /\ shown' = shown /\ ring'.head_seq >= ring.head_seq
    BY <1>2, <1>t DEF NotifyWaiters
  <2>2. CASE down.pc = "parked" /\ down' = [down EXCEPT !.pc = "read"]
    BY <1>t, <2>1, <2>2, DownRests
  <2>3. CASE down' = down
    BY <1>t, <2>1, <2>3, DownRests DEF DownTyped
  <2> QED
    BY <1>2, <2>2, <2>3 DEF NotifyWaiters
<1>3. CASE DownStart
  <2>1. PICK cursor \in Nat, chunk \in Seq(Nat) :
          down = [pc |-> "start", cursor |-> cursor, chunk |-> chunk]
    BY <1>3, <1>t DEF DownStart, DownTyped
  <2>2. down' = [pc |-> "read", cursor |-> ring.head_seq, chunk |-> <<>>]
    BY <1>3, <1>t, <2>1 DEF DownStart, DownInHand
  <2>3. DownNext = ring.head_seq /\ DownNext' = ring.head_seq /\ ring' = ring /\ shown' = shown
    <3>1. down'.pc = "read" /\ down'.cursor = ring.head_seq /\ Len(down'.chunk) = 0
      BY <2>2
    <3>2. DownNext' = ring.head_seq
      BY <1>t, <3>1 DEF DownNext
    <3> QED
      BY <1>3, <3>2 DEF DownNext, DownStart
  <2>4. Stretch(ring.head_seq, ring.head_seq) = <<>> /\ <<>> \in Seq(Nat)
    BY <1>t, StretchNothing
  <2>5. DownInv'
    BY <1>t, <2>2, <2>3, <2>4 DEF DownInv, DownTyped, DownInHand
  <2> QED
    BY <2>3, <2>5
<1>4. CASE DownRead
  BY <1>4, DownReadMoves
<1>5. CASE DownPark
  <2>1. /\ ring' = ring /\ shown' = shown /\ ring'.head_seq >= ring.head_seq
        /\ down.pc = "park" /\ down' = [down EXCEPT !.pc = "parked"]
    BY <1>5, <1>t DEF DownPark
  <2> QED
    BY <1>t, <2>1, DownRests
<1>6. CASE DownWrite
  <2>1. PICK n \in 1..Len(down.chunk) :
          /\ shown' = shown \o SubSeq(down.chunk, 1, n)
          /\ down' = IF n = Len(down.chunk) THEN DownReady
                     ELSE [down EXCEPT !.chunk = SubSeq(@, n + 1, Len(@))]
    BY <1>6 DEF DownWrite
  <2>2. down.pc = "write" /\ ring' = ring
    BY <1>6 DEF DownWrite
  <2>3. /\ DownNext \in Nat /\ down.cursor \in Nat /\ DownNext <= down.cursor
        /\ down.chunk = Stretch(DownNext, down.cursor)
        /\ Len(down.chunk) = down.cursor - DownNext
    BY <1>t, <2>2, StretchSeq DEF DownInHand, DownTyped
  <2>4. n \in 0 .. down.cursor - DownNext
    BY <2>3
  <2>5. CASE n = Len(down.chunk)
    <3>1. down' = DownReady
      BY <2>1, <2>5
    <3>2. DownNext' \in DownNext + n .. down.cursor
      BY <1>t, <2>3, <2>5, <3>1, DownLetGo
    <3> QED
      BY <1>t, <2>1, <2>2, <2>4, <3>1, <3>2, DownLetGo, DownMoves
  <2>6. CASE n # Len(down.chunk)
    <3> DEFINE lo == DownNext
               mid == DownNext + n
               hi == down.cursor
               rest == SubSeq(Stretch(lo, hi), mid - lo + 1, hi - lo)
    <3>1. /\ lo \in Nat /\ mid \in Nat /\ hi \in Nat /\ lo <= mid /\ mid <= hi
          /\ mid \in lo + n .. hi /\ mid - lo = n
      BY <2>3, <2>4
    <3>2. down' = [down EXCEPT !.chunk = SubSeq(down.chunk, n + 1, Len(down.chunk))]
      BY <2>1, <2>6
    <3>3. SubSeq(down.chunk, n + 1, Len(down.chunk)) = rest
      BY <2>3, <3>1
    <3> HIDE DEF lo, mid, hi
    <3>4. rest = Stretch(mid, hi)
      BY <3>1, StretchDrop
    <3>5. Stretch(mid, hi) \in Seq(Nat) /\ Len(Stretch(mid, hi)) = hi - mid
      BY <3>1, StretchSeq
    <3> HIDE DEF rest
    <3>6. PICK cursor \in Nat, chunk \in Seq(Nat) :
            down = [pc |-> "write", cursor |-> cursor, chunk |-> chunk]
      BY <1>t, <2>2 DEF DownTyped
    <3>7. down' = [pc |-> "write", cursor |-> hi, chunk |-> Stretch(mid, hi)]
      BY <3>2, <3>3, <3>4, <3>6 DEF hi
    <3>8. /\ down' \in [pc: {"start", "read", "park", "parked", "write"}, cursor: Nat,
                        chunk: Seq(Nat)]
          /\ down'.pc = "write" /\ down'.cursor = hi /\ down'.chunk = Stretch(mid, hi)
      BY <3>1, <3>5, <3>7
    <3>9. DownNext' = mid
      BY <3>1, <3>5, <3>8 DEF DownNext
    <3> QED
      BY <1>t, <2>1, <2>2, <2>4, <3>1, <3>8, <3>9, DownMoves DEF lo, hi
  <2> QED
    BY <2>5, <2>6
<1>7. CASE GiveUp
  <2>1. down.pc = "write" /\ down' = DownReady /\ ring' = ring /\ shown' = shown
    BY <1>7 DEF GiveUp
  <2>2. /\ DownNext \in Nat /\ down.cursor \in Nat /\ DownNext <= down.cursor
    BY <1>t, <2>1 DEF DownInHand, DownTyped
  <2>3. 0 \in 0 .. down.cursor - DownNext /\ DownNext' \in DownNext + 0 .. down.cursor
    BY <1>t, <2>1, <2>2, DownLetGo
  <2>4. shown' = shown \o SubSeq(down.chunk, 1, 0)
    <3>1. down.chunk \in Seq(Nat) /\ shown \in Seq(Nat)
      BY <1>t DEF DownTyped
    <3>2. SubSeq(down.chunk, 1, 0) = <<>>
      BY <3>1
    <3> QED
      BY <2>1, <3>1, <3>2
  <2> QED
    BY <1>t, <2>1, <2>3, <2>4, DownLetGo, DownMoves
<1>8. CASE UNCHANGED <<ring, down, shown>>
  <2>1. DownNext' = DownNext
    BY <1>8 DEF DownNext
  <2>2. DownInv'
    BY <1>8, <2>1 DEF DownInv, DownTyped, DownInHand
  <2> QED
    BY <1>8, <2>1, <2>2
<1> QED
  BY <1>1, <1>2, <1>3, <1>4, <1>5, <1>6, <1>7, <1>8
     DEF Next, ToolTypes, UpRead, UpCheck, UpSend, Written, TakeLock, FreeLock, SessionSends,
         SessionWritten, ToolReads, downVars, vars

\* What the device sends reaches the tool once and in order, or never, however much the
\* ring has lost and however often the tool was too slow.
THEOREM DeviceToToolKept == Spec => DeviceToTool
<1>1. Init => DownInv /\ DownPipe!Init
  <2> SUFFICES ASSUME Init PROVE DownInv /\ DownPipe!Init
    OBVIOUS
  <2>1. DownNext = 0 /\ ring.head_seq = 0
    BY DEF Init, DownNext, EmptyRing
  <2>2. DownTyped /\ DownInHand
    BY DEF Init, DownTyped, DownInHand
  <2> QED
    BY <2>1, <2>2, EmptySound DEF Init, DownInv, DownPipe!Init
<1>2. DownInv /\ [Next]_vars => DownInv' /\ [DownPipe!Next]_<<ring.head_seq, DownNext, shown>>
  BY DownPipeStep
<1> QED
  BY <1>1, <1>2, PTL DEF Spec, DeviceToTool, DownPipe!Spec

-----------------------------------------------------------------------------
(* The links.                                                              *)

\* A link that leads to a process is the one in its slot, and there only from
\* its creation to its removal; likewise a pid in a sidecar.
OwnFiles ==
  \A p \in Procs, s \in Slots :
    /\ link[s] = p => proc[p].slot = s /\ proc[p].pc \in {"stamp", "held", "drop", "killed"}
    /\ sidecar[s] = p =>
         proc[p].slot = s /\ proc[p].pc \in {"held", "drop", "drop2", "killed"}

LinkInv == LinkTypeOK /\ OwnFiles

\* Claims do not overlap.
ClaimsAlone ==
  \A p, q \in Procs : proc[p].pc \in Claiming /\ proc[q].pc \in Claiming => p = q

\* A link is its maker's until he removes it; a sidecar may be lost to the last
\* removal of the slot's former holder.
Kept ==
  \A p \in Procs :
    /\ proc[p].pc \in {"stamp", "held", "drop"} => link[proc[p].slot] = p
    /\ proc[p].pc \in {"held", "drop"} => sidecar[proc[p].slot] \in {p, None}

\* What a claimant has read is still there, or gone, and what it is about to
\* clear belongs to nobody who serves it.
ClaimantKnows ==
  \A q \in Procs :
    /\ proc[q].pc = "probe" => sidecar[proc[q].slot] \in {proc[q].read, None}
    /\ \A p \in Procs : proc[p].pc \in {"held", "drop"} /\ proc[p].slot = proc[q].slot =>
         /\ proc[q].pc = "probe" => proc[q].read \in {p, None}
         /\ proc[q].pc \notin {"clear", "clear2"}

ClaimInv == ClaimsAlone /\ Kept /\ ClaimantKnows

\* A signal takes the process out of whatever it does.
Killed(p) == Go(p, "killed") /\ UNCHANGED <<link, sidecar>>

LinkMove(p) == LinkStep(p) \/ StartClaim(p) \/ EndBridge(p) \/ Killed(p)

\* Before the first claim.
LEMMA LinksBegin == LinkInit => LinkInv /\ ClaimInv
<1> SUFFICES ASSUME LinkInit PROVE LinkInv /\ ClaimInv
  OBVIOUS
<1> USE LinkConstants
<1>1. /\ link \in [Slots -> {Gone, None}] /\ sidecar \in [Slots -> {Gone, None}]
      /\ \A p \in Procs : proc[p].pc = "new" /\ proc[p].slot = 1
      /\ proc = [p \in Procs |-> [pc |-> "new", slot |-> 1, read |-> None]]
  <2>1. PICK old \in Remains :
          /\ link = [s \in Slots |-> IF s = 1 THEN old[1] ELSE None]
          /\ sidecar = [s \in Slots |-> IF s = 1 THEN old[2] ELSE None]
    BY DEF LinkInit
  <2>2. old[1] \in {Gone, None} /\ old[2] \in {Gone, None}
    BY DEF Remains
  <2> QED
    BY <2>1, <2>2 DEF LinkInit
<1>2. LinkTypeOK
  BY <1>1 DEF LinkTypeOK, Slots
<1>3. OwnFiles
  BY <1>1 DEF OwnFiles
<1>4. ClaimInv
  BY <1>1 DEF ClaimInv, ClaimsAlone, Kept, ClaimantKnows, Claiming
<1> QED
  BY <1>2, <1>3, <1>4 DEF LinkInv

Places == {"new", "held", "left"} \cup Claiming \cup Dropping \cup Over
Pids == Procs \cup {Gone, None}
ProcType == [pc: Places, slot: Slots, read: Pids]

\* LinkTypeOK by the sets it is made of.
LEMMA LinkTypeIs ==
  LinkTypeOK <=> link \in [Slots -> Pids] /\ sidecar \in [Slots -> Pids]
                   /\ proc \in [Procs -> ProcType]
BY DEF LinkTypeOK, ProcType, Places, Pids

\* A process that goes from place to place keeps its type.
LEMMA ProcGoes ==
  ASSUME NEW p \in Procs, NEW pc \in Places, proc \in [Procs -> ProcType]
  PROVE  [proc EXCEPT ![p].pc = pc] \in [Procs -> ProcType]
BY DEF ProcType

\* The same when it also reads a pid, ...
LEMMA ProcReads ==
  ASSUME NEW p \in Procs, NEW pc \in Places, NEW q \in Pids, proc \in [Procs -> ProcType]
  PROVE  [proc EXCEPT ![p].pc = pc, ![p].read = q] \in [Procs -> ProcType]
BY DEF ProcType

\* ... or turns to another slot.
LEMMA ProcTurns ==
  ASSUME NEW p \in Procs, NEW pc \in Places, NEW s \in Slots, NEW q \in Pids,
         proc \in [Procs -> ProcType]
  PROVE  [proc EXCEPT ![p].pc = pc, ![p].slot = s, ![p].read = q] \in [Procs -> ProcType]
BY DEF ProcType

\* Every step of a process on its links keeps their shape.
LEMMA LinkTypeKept ==
  ASSUME NEW p \in Procs, LinkTypeOK, LinkMove(p)
  PROVE  LinkTypeOK'
<1>1. /\ link \in [Slots -> Pids] /\ sidecar \in [Slots -> Pids]
      /\ proc \in [Procs -> ProcType] /\ proc[p].slot \in Slots
      /\ p \in Pids /\ None \in Pids
      /\ Places = {"new", "held", "left", "claim", "look", "probe", "clear", "clear2", "stamp",
                   "drop", "drop2", "gone", "killed"}
  BY LinkTypeIs DEF ProcType, Pids, Places, Claiming, Dropping, Over
<1>2. link' \in [Slots -> Pids] /\ sidecar' \in [Slots -> Pids]
  BY <1>1 DEF LinkMove, LinkStep, Symlink, ReadSidecar, Probe, ClearLink, ClearSidecar, Stamp,
              DropLink, DropSidecar, Exit, StartClaim, EndBridge, Killed
<1>3. CASE \E pc \in Places : Go(p, pc)
  <2>1. PICK pc \in Places : proc' = [proc EXCEPT ![p].pc = pc]
    BY <1>3 DEF Go
  <2>2. proc' \in [Procs -> ProcType]
    BY <1>1, <2>1, ProcGoes
  <2> QED
    BY <1>2, <2>2 DEF LinkTypeOK, ProcType, Places, Pids
<1>4. CASE ReadSidecar(p)
  <2>1. proc' \in [Procs -> ProcType]
    BY ZenonT(40), <1>1, <1>4, ProcReads DEF ReadSidecar
  <2> QED
    BY <1>2, <2>1 DEF LinkTypeOK, ProcType, Places, Pids
<1>5. CASE ClearSidecar(p)
  <2>1. proc' \in [Procs -> ProcType]
    BY <1>1, <1>5, ProcReads DEF ClearSidecar
  <2> QED
    BY <1>2, <2>1 DEF LinkTypeOK, ProcType, Places, Pids
<1>6. CASE NextSlot(p)
  <2> DEFINE next == proc[p].slot + 1
  <2>1. proc[p].slot # LastSlot => next \in Slots
    BY <1>1, LinkConstants DEF Slots
  <2>2. \/ proc' = [proc EXCEPT ![p].pc = "left", ![p].read = None]
        \/ /\ proc[p].slot # LastSlot
           /\ proc' = [proc EXCEPT ![p].pc = "claim", ![p].slot = next, ![p].read = None]
    BY SMTT(20), <1>6 DEF NextSlot
  <2> HIDE DEF next
  <2>3. CASE proc' = [proc EXCEPT ![p].pc = "left", ![p].read = None]
    <3>1. proc' \in [Procs -> ProcType]
      BY <1>1, <2>3, ProcReads
    <3> QED
      BY <1>2, <3>1 DEF LinkTypeOK, ProcType, Places, Pids
  <2>4. CASE /\ proc[p].slot # LastSlot
             /\ proc' = [proc EXCEPT ![p].pc = "claim", ![p].slot = next, ![p].read = None]
    <3>1. "claim" \in Places /\ next \in Slots
      BY <1>1, <2>1, <2>4
    <3>2. ASSUME NEW pc \in Places, NEW s \in Slots, NEW q \in Pids
          PROVE  [proc EXCEPT ![p].pc = pc, ![p].slot = s, ![p].read = q] \in [Procs -> ProcType]
      <4>1. proc \in [Procs -> ProcType]
        BY <1>1
      <4>2. QED
        BY ZenonT(40), <4>1, ProcTurns
    <3>3. [proc EXCEPT ![p].pc = "claim", ![p].slot = next, ![p].read = None] \in [Procs -> ProcType]
      BY <1>1, <3>1, <3>2
    <3>4. proc' \in [Procs -> ProcType]
      BY <2>4, <3>3
    <3> QED
      BY <1>2, <3>4 DEF LinkTypeOK, ProcType, Places, Pids
  <2> QED
    BY <2>2, <2>3, <2>4
<1>7. \/ \E pc \in Places : Go(p, pc)
      \/ ReadSidecar(p) \/ ClearSidecar(p) \/ NextSlot(p)
  BY <1>1 DEF LinkMove, LinkStep, Symlink, Probe, ClearLink, Stamp, DropLink, DropSidecar, Exit,
              StartClaim, EndBridge, Killed
<1> QED
  BY <1>3, <1>4, <1>5, <1>6, <1>7

\* They keep what the link files say of processes.
LEMMA OwnFilesKept ==
  ASSUME NEW p \in Procs, LinkInv, LinkMove(p)
  PROVE  OwnFiles'
<1> USE LinkConstants DEF LinkInv, LinkTypeOK, OwnFiles
<1>1. CASE Symlink(p)
  BY <1>1 DEF Symlink, At, Go
<1>2. CASE ReadSidecar(p)
  BY <1>2 DEF ReadSidecar, At, Go
<1>3. CASE Probe(p)
  BY <1>3 DEF Probe, At, Go, NextSlot
<1>4. CASE ClearLink(p)
  BY <1>4 DEF ClearLink, At, Go
<1>5. CASE ClearSidecar(p)
  BY <1>5 DEF ClearSidecar, At, Go
<1>6. CASE Stamp(p)
  BY <1>6 DEF Stamp, At, Go
<1>7. CASE DropLink(p)
  BY <1>7 DEF DropLink, At, Go
<1>8. CASE DropSidecar(p)
  BY <1>8 DEF DropSidecar, At, Go
<1>9. CASE Exit(p)
  BY <1>9 DEF Exit, At, Go
<1>10. CASE StartClaim(p)
  BY <1>10 DEF StartClaim, At, Go
<1>11. CASE EndBridge(p)
  BY <1>11 DEF EndBridge, At, Go
<1>12. CASE Killed(p)
  BY <1>12 DEF Killed, At, Go
<1> QED
  BY <1>1, <1>2, <1>3, <1>4, <1>5, <1>6, <1>7, <1>8, <1>9, <1>10, <1>11, <1>12 DEF LinkMove, LinkStep

\* If claims wait for each other, they keep what a claimant knows.
LEMMA ClaimsKept ==
  ASSUME OneAtATime, NEW p \in Procs, LinkInv, ClaimInv, LinkMove(p)
  PROVE  ClaimInv'
<1> USE LinkConstants DEF LinkInv, LinkTypeOK, OwnFiles, ClaimInv, ClaimsAlone, Kept, ClaimantKnows, Claiming, Over, Dead
<1>1. CASE Symlink(p)
  BY SMTT(20), <1>1 DEF Symlink, At, Go
<1>2. CASE ReadSidecar(p)
  BY <1>2 DEF ReadSidecar, At, Go
<1>3. CASE Probe(p)
  BY <1>3 DEF Probe, At, Go, NextSlot
<1>4. CASE ClearLink(p)
  BY <1>4 DEF ClearLink, At, Go
<1>5. CASE ClearSidecar(p)
  BY <1>5 DEF ClearSidecar, At, Go
<1>6. CASE Stamp(p)
  BY <1>6 DEF Stamp, At, Go
<1>7. CASE DropLink(p)
  BY <1>7 DEF DropLink, At, Go
<1>8. CASE DropSidecar(p)
  BY <1>8 DEF DropSidecar, At, Go
<1>9. CASE Exit(p)
  BY <1>9 DEF Exit, At, Go
<1>10. CASE StartClaim(p)
  BY <1>10 DEF StartClaim, At, Go
<1>11. CASE EndBridge(p)
  BY <1>11 DEF EndBridge, At, Go
<1>12. CASE Killed(p)
  BY <1>12 DEF Killed, At, Go
<1> QED
  BY <1>1, <1>2, <1>3, <1>4, <1>5, <1>6, <1>7, <1>8, <1>9, <1>10, <1>11, <1>12 DEF LinkMove, LinkStep

-----------------------------------------------------------------------------
(* Daemons and the clients that bring them.                                *)

\* A client's daemon, socket and log, at each place the client can be in.
GuardedFiles ==
  \A c \in Clients :
    /\ socket[c] # Nobody => socket[c] = c /\ daemon[c] # "off"
    /\ client[c] \in {"new", "probe", "spawn"} => dials[c] = Default
    /\ dials[c] \in {c, Default}
    /\ dials[c] = Default => daemon[c] = "off"
    /\ client[c] \in {"wait", "kill", "unlink"} => dials[c] = c
    /\ client[c] = "unlink" => daemon[c] \in {"dead", "failed"}
    /\ daemon[c] # "crashed"

\* What is left of a client that came to its end by itself.
Tidy ==
  \A c \in Clients : client[c] = "gone" =>
    /\ daemon[c] \in {"off", "dead", "failed"} /\ socket[c] = Nobody
    /\ c \in log => daemon[c] = "off"

\* Whoever is behind the default socket got to bind it; and if nobody is, though
\* somebody listens, then a daemon is about to bind it, has failed to, or has
\* crashed.
DefaultServed ==
  /\ socket[Default] \in Servers =>
       daemon[socket[Default]] \in {"listen", "serve", "crashed"}
  /\ socket[Default] \in Servers \cup {Nobody, Stale}
  /\ (\E d \in Servers : daemon[d] \in {"listen", "serve"}) =>
       /\ socket[Default] # Stale
       /\ socket[Default] = Nobody => \E e \in Servers : daemon[e] \in {"bind", "failed", "crashed"}

StandaloneInv == StandaloneTypeOK /\ GuardedFiles /\ Tidy /\ DefaultServed

\* A step of a client or of a daemon.
ClientMove(c) == ClientStep(c) \/ EndSession(c) \/ KillClient(c)
DaemonMove(d) == DaemonStep(d) \/ StartServer(d) \/ Crash(d)

\* Before anything was started.
LEMMA DaemonsBegin == StandaloneInit => StandaloneInv
  BY StandaloneConstants
  DEF StandaloneInit, StandaloneInv, StandaloneTypeOK, GuardedFiles, Tidy, DefaultServed,
      Daemons, Sockets, Starting

\* Steps of clients.
LEMMA ClientMoveKeeps ==
  ASSUME NEW c \in Clients, StandaloneInv, ClientMove(c)
  PROVE  StandaloneInv'
<1> USE StandaloneConstants
    DEF StandaloneInv, StandaloneTypeOK, GuardedFiles, Tidy, DefaultServed, Daemons, Sockets,
        Starting, Move, Becomes
<1>1. CASE Scan(c)
  BY <1>1 DEF Scan
<1>2. CASE AskDaemon(c)
  BY <1>2 DEF AskDaemon
<1>3. CASE Spawn(c)
  BY <1>3 DEF Spawn
<1>4. CASE Wait(c)
  BY <1>4 DEF Wait
<1>5. CASE Dial(c)
  BY <1>5 DEF Dial, Leave, Guarded
<1>6. CASE KillDaemon(c)
  BY <1>6 DEF KillDaemon
<1>7. CASE UnlinkFiles(c)
  BY <1>7 DEF UnlinkFiles
<1>8. CASE EndSession(c)
  BY <1>8 DEF EndSession, Leave, Guarded
<1>9. CASE KillClient(c)
  BY <1>9 DEF KillClient
<1> QED
  BY <1>1, <1>2, <1>3, <1>4, <1>5, <1>6, <1>7, <1>8, <1>9 DEF ClientMove, ClientStep

\* Steps of daemons.
LEMMA DaemonMoveKeeps ==
  ASSUME NEW d \in Daemons, StandaloneInv, DaemonMove(d)
  PROVE  StandaloneInv'
<1> USE StandaloneConstants
    DEF StandaloneInv, StandaloneTypeOK, GuardedFiles, Tidy, DefaultServed, Daemons, Sockets,
        Starting, Becomes, SocketOf
<1>1. CASE OpenDevice(d)
  BY <1>1 DEF OpenDevice
<1>2. CASE CheckSocket(d)
  BY <1>2 DEF CheckSocket
<1>3. CASE RemoveSocket(d)
  <2>1. StandaloneTypeOK' /\ GuardedFiles' /\ Tidy'
    BY <1>3 DEF RemoveSocket
  <2>2. CASE d \in Clients
    BY <1>3, <2>1, <2>2 DEF RemoveSocket
  <2>3. CASE d \in Servers
    <3>1. CASE Becomes(d, "dead") /\ UNCHANGED socket
      <4>1. ASSUME NEW x \in Servers, daemon'[x] \in {"listen", "serve"}, socket[Default] = Nobody
            PROVE  \E e \in Servers : daemon'[e] \in {"bind", "failed", "crashed"}
        <5>1. daemon[x] \in {"listen", "serve"}
          BY <3>1, <4>1
        <5>2. PICK e \in Servers : daemon[e] \in {"bind", "failed", "crashed"}
          BY <4>1, <5>1
        <5>3. e # d
          BY <1>3, <5>2 DEF RemoveSocket
        <5> QED
          BY <3>1, <5>2, <5>3
      <4>2. DefaultServed'
        BY <1>3, <2>3, <3>1, <4>1 DEF RemoveSocket
      <4> QED
        BY <2>1, <4>2
    <3>2. CASE /\ socket' = [socket EXCEPT ![SocketOf(d)] = Nobody]
               /\ Becomes(d, "bind")
      <4>1. daemon'[d] = "bind" /\ socket'[Default] = Nobody
        BY <2>3, <3>2
      <4>2. DefaultServed'
        BY <2>3, <4>1
      <4> QED
        BY <2>1, <4>2
    <3> QED
      BY <1>3, <3>1, <3>2 DEF RemoveSocket
  <2> QED
    BY <2>2, <2>3
<1>4. CASE BindSocket(d)
  BY <1>4 DEF BindSocket
<1>5. CASE Listen(d)
  BY <1>5 DEF Listen
<1>6. CASE StartServer(d)
  BY <1>6 DEF StartServer
<1>7. CASE Crash(d)
  BY <1>7 DEF Crash
<1> QED
  BY <1>1, <1>2, <1>3, <1>4, <1>5, <1>6, <1>7 DEF DaemonMove, DaemonStep

-----------------------------------------------------------------------------
(* Both together.                                                          *)

\* A process touches links in its session only, and leaves that with its link
\* dropped or never claimed; a signal ends both parts of it.
Phases ==
  \A c \in Clients :
    /\ client[c] \in {"new", "probe", "spawn", "wait", "dial"} => proc[c].pc = "new"
    /\ client[c] \in {"kill", "unlink", "gone"} => proc[c].pc \in {"new", "left", "gone"}
    /\ client[c] = "session" => proc[c].pc \notin Over
    /\ client[c] = "killed" => proc[c].pc = "killed"

HostInv == LinkInv /\ StandaloneInv /\ Phases /\ (OneAtATime => ClaimInv)

\* Before any process was started.
LEMMA HostBegins == HostInit => HostInv
<1>1. HostInit => Phases
  BY OneProcess DEF HostInit, Phases, LinkInit, StandaloneInit
<1> QED
  BY <1>1, LinksBegin, DaemonsBegin DEF HostInit, HostInv

\* The parts that a step leaves alone keep their invariants.
LEMMA LinksAlone ==
  ASSUME UNCHANGED linkVars
  PROVE  (LinkInv => LinkInv') /\ (ClaimInv => ClaimInv')
BY DEF linkVars, LinkInv, LinkTypeOK, OwnFiles, ClaimInv, ClaimsAlone, Kept, ClaimantKnows

\* The same for daemons and clients.
LEMMA DaemonsAlone ==
  ASSUME UNCHANGED standaloneVars
  PROVE  StandaloneInv => StandaloneInv'
BY DEF standaloneVars, StandaloneInv, StandaloneTypeOK, GuardedFiles, Tidy, DefaultServed

\* A step on links keeps the invariant of links, and of claims.
LEMMA LinkMoveKeeps ==
  ASSUME NEW p \in Procs, LinkInv, OneAtATime => ClaimInv, LinkMove(p)
  PROVE  LinkInv' /\ (OneAtATime => ClaimInv')
BY LinkTypeKept, OwnFilesKept, ClaimsKept DEF LinkInv

\* What a step on links does to the places of processes.
LEMMA LinkMovePlaces ==
  ASSUME NEW p \in Procs, LinkTypeOK, LinkStep(p) \/ StartClaim(p) \/ EndBridge(p)
  PROVE  /\ \A q \in Procs \ {p} : proc'[q].pc = proc[q].pc
         /\ proc'[p].pc # "killed"
         /\ proc'[p].pc = "gone" => Exit(p)
<1> USE DEF LinkTypeOK, At, Go
<1>1. CASE Symlink(p)
  BY <1>1 DEF Symlink
<1>2. CASE ReadSidecar(p)
  BY <1>2 DEF ReadSidecar
<1>3. CASE Probe(p)
  BY <1>3 DEF Probe, NextSlot
<1>4. CASE ClearLink(p) \/ ClearSidecar(p)
  BY <1>4 DEF ClearLink, ClearSidecar
<1>5. CASE Stamp(p)
  BY <1>5 DEF Stamp
<1>6. CASE DropLink(p) \/ DropSidecar(p)
  BY <1>6 DEF DropLink, DropSidecar
<1>7. CASE Exit(p)
  BY <1>7 DEF Exit
<1>8. CASE StartClaim(p) \/ EndBridge(p)
  BY <1>8 DEF StartClaim, EndBridge
<1> QED
  BY <1>1, <1>2, <1>3, <1>4, <1>5, <1>6, <1>7, <1>8 DEF LinkStep

\* Every step of the machine keeps the invariant.
LEMMA HostNextKeeps == HostInv /\ [HostNext]_hostVars => HostInv'
<1> SUFFICES ASSUME HostInv, [HostNext]_hostVars PROVE HostInv'
  OBVIOUS
<1> USE OneProcess DEF HostInv
<1>1. ASSUME NEW c \in Clients, Outside(c) PROVE HostInv'
  <2>1. StandaloneInv'
    BY <1>1, ClientMoveKeeps DEF Outside, ClientMove
  <2>2. Phases'
    BY <1>1 DEF Outside, ClientStep, Scan, AskDaemon, Spawn, Wait, Dial, KillDaemon, UnlinkFiles,
                Leave, Move, Phases, linkVars, StandaloneInv, StandaloneTypeOK, Over
  <2> QED
    BY <1>1, <2>1, <2>2, LinksAlone DEF Outside
<1>2. ASSUME NEW c \in Clients, InSession(c) \/ UserActs(c) PROVE HostInv'
  <2>1. client[c] = "session" /\ (LinkStep(c) \/ StartClaim(c) \/ EndBridge(c)) /\ ~Exit(c)
        /\ UNCHANGED standaloneVars
    BY <1>2 DEF InSession, UserActs, At, Exit, StartClaim, EndBridge
  <2>2. LinkInv' /\ (OneAtATime => ClaimInv')
    BY <2>1, LinkMoveKeeps DEF LinkMove
  <2>3. Phases'
    BY <2>1, LinkMovePlaces DEF Phases, LinkInv, standaloneVars, Over
  <2> QED
    BY <2>1, <2>2, <2>3, DaemonsAlone
<1>3. ASSUME NEW c \in Clients, Unwind(c) PROVE HostInv'
  <2>1. StandaloneInv'
    BY <1>3, ClientMoveKeeps DEF Unwind, ClientMove
  <2>2. Phases'
    BY <1>3 DEF Unwind, EndSession, Leave, Move, Phases, linkVars, At, StandaloneInv,
                StandaloneTypeOK, Over
  <2> QED
    BY <1>3, <2>1, <2>2, LinksAlone DEF Unwind
<1>4. ASSUME NEW c \in Clients, Leaves(c) PROVE HostInv'
  <2>1. LinkInv' /\ (OneAtATime => ClaimInv')
    BY <1>4, LinkMoveKeeps DEF Leaves, LinkMove, LinkStep
  <2>2. Phases'
    BY <1>4 DEF Leaves, Exit, Go, At, Phases, standaloneVars, LinkInv, LinkTypeOK, Over
  <2> QED
    BY <1>4, <2>1, <2>2, DaemonsAlone DEF Leaves
<1>5. ASSUME NEW c \in Clients, KillProcess(c) PROVE HostInv'
  <2>1. StandaloneInv'
    BY <1>5, ClientMoveKeeps DEF KillProcess, ClientMove
  <2>2. LinkInv' /\ (OneAtATime => ClaimInv')
    BY <1>5, LinkMoveKeeps DEF KillProcess, LinkMove, Killed
  <2>3. Phases'
    BY <1>5 DEF KillProcess, KillClient, Go, Move, Phases, LinkInv, LinkTypeOK, StandaloneInv,
                StandaloneTypeOK, Over
  <2> QED
    BY <2>1, <2>2, <2>3
<1>6. ASSUME NEW d \in Daemons, DaemonMoves(d) PROVE HostInv'
  <2>1. StandaloneInv'
    BY <1>6, DaemonMoveKeeps DEF DaemonMoves, DaemonMove
  <2>2. Phases'
    BY <1>6 DEF DaemonMoves, DaemonStep, OpenDevice, CheckSocket, RemoveSocket, BindSocket, Listen,
                Phases, linkVars
  <2> QED
    BY <1>6, <2>1, <2>2, LinksAlone DEF DaemonMoves
<1>7. ASSUME NEW d \in Servers, ServerChurn(d) PROVE HostInv'
  <2>1. StandaloneInv'
    BY <1>7, DaemonMoveKeeps DEF ServerChurn, DaemonMove, Daemons
  <2>2. Phases'
    BY <1>7 DEF ServerChurn, StartServer, Crash, Phases, linkVars
  <2> QED
    BY <1>7, <2>1, <2>2, LinksAlone DEF ServerChurn
<1>8. CASE UNCHANGED hostVars
  <2>1. UNCHANGED linkVars /\ UNCHANGED standaloneVars
    BY <1>8 DEF hostVars, linkVars, standaloneVars
  <2>2. Phases'
    BY <2>1 DEF Phases, linkVars, standaloneVars
  <2> QED
    BY <2>1, <2>2, LinksAlone, DaemonsAlone
<1> QED
  BY <1>1, <1>2, <1>3, <1>4, <1>5, <1>6, <1>7, <1>8 DEF HostNext

\* The invariant holds in every behaviour.
LEMMA HostSafe == HostSpec => []HostInv
  BY HostBegins, HostNextKeeps, PTL DEF HostSpec

-----------------------------------------------------------------------------
(* Links, daemons and their clients: the theorems.                         *)

\* A client that was not killed leaves no daemon, no socket, and no log but one that
\* it made in vain, whatever daemons there are on the default socket and whichever
\* of them it met (tether.rs, DaemonGuard).
THEOREM NothingOutlivesSafe == HostSpec => []NothingOutlivesClient
<1>1. HostInv => NothingOutlivesClient
  BY DEF HostInv, StandaloneInv, Tidy, NothingOutlivesClient
<1> QED
  BY <1>1, HostSafe, PTL

\* Its link leads nowhere by the time it stops its daemon, also when links are
\* contended (tether.rs, PtyLinkGuard inside DaemonGuard).
THEOREM LinkGoneSafe == HostSpec => []LinkGoneBeforeDaemon
<1>1. HostInv => LinkGoneBeforeDaemon
  BY OneProcess DEF HostInv, LinkInv, OwnFiles, Phases, LinkGoneBeforeDaemon
<1> QED
  BY <1>1, HostSafe, PTL

\* Unless a daemon crashed, failed to bind, or is starting, the default socket leads
\* to one that serves if there is one (tetherd/main.rs: the old socket is removed by
\* a daemon that binds it next, or tries to).
THEOREM ServerReachedSafe == HostSpec => []SomeServerReached
<1>1. HostInv => SomeServerReached
  BY StandaloneConstants DEF HostInv, StandaloneInv, DefaultServed, SomeServerReached, Answers, Daemons
<1> QED
  BY <1>1, HostSafe, PTL

\* Of processes whose claims do not overlap, one that serves a link has it, however
\* the others end (tether.rs, claim_link and PtyLinkGuard).
THEOREM HolderKeepsSafe == OneAtATime => (HostSpec => []HolderKeepsLink)
<1> SUFFICES ASSUME OneAtATime PROVE HostSpec => []HolderKeepsLink
  OBVIOUS
<1>1. HostInv => HolderKeepsLink
  BY DEF HostInv, ClaimInv, Kept, HolderKeepsLink, At
<1> QED
  BY <1>1, HostSafe, PTL

\* And a leftover with both its files is cleared away, not passed by (tether.rs,
\* reclaim_if_stale).
THEOREM StaleReusedSafe == OneAtATime => (HostSpec => StaleSlotIsReused)
<1> SUFFICES ASSUME OneAtATime PROVE HostSpec => StaleSlotIsReused
  OBVIOUS
<1> DEFINE Reuses ==
      \A p \in Procs :
        LET s == proc[p].slot IN
        At(p, "probe") /\ proc'[p].pc \in {"claim", "left"} =>
          ~(link[s] # None /\ Dead(link[s]) /\ sidecar[s] = link[s])
<1>1. HostInv /\ [HostNext]_hostVars => [Reuses]_linkVars
  <2> SUFFICES ASSUME HostInv, [HostNext]_hostVars,
                      NEW p \in Procs, proc[p].pc = "probe", proc'[p].pc \in {"claim", "left"}
               PROVE  LET s == proc[p].slot IN
                      ~(link[s] # None /\ Dead(link[s]) /\ sidecar[s] = link[s])
    BY DEF At
  <2>1. Probe(p)
    <3> USE OneProcess DEF HostInv, LinkInv
    <3>1. ASSUME NEW q \in Procs, LinkStep(q) \/ StartClaim(q) \/ EndBridge(q)
          PROVE  Probe(p)
      <4>1. q = p
        BY <3>1, LinkMovePlaces
      <4> QED
        BY <3>1, <4>1 DEF LinkStep, Symlink, ReadSidecar, ClearLink, ClearSidecar, Stamp, DropLink,
                          DropSidecar, Exit, StartClaim, EndBridge, At
    <3>2. ASSUME NEW c \in Clients, KillProcess(c) PROVE FALSE
      BY <3>2 DEF KillProcess, Go, LinkTypeOK
    <3>3. ~UNCHANGED linkVars
      BY DEF linkVars
    <3>4. (\E c \in Clients : KillProcess(c))
          \/ (\E q \in Procs : LinkStep(q) \/ StartClaim(q) \/ EndBridge(q))
      BY <3>3 DEF HostNext, Outside, InSession, UserActs, Unwind, Leaves, DaemonMoves, ServerChurn,
                  LinkStep, hostVars, linkVars
    <3> QED
      BY <3>1, <3>2, <3>4
  <2>2. sidecar[proc[p].slot] \in {proc[p].read, None}
    BY DEF HostInv, ClaimInv, ClaimantKnows
  <2>3. ~Dead(proc[p].read)
    BY <2>1 DEF Probe, Go, HostInv, LinkInv, LinkTypeOK
  <2> QED
    BY <2>2, <2>3
<1> QED
  BY <1>1, HostSafe, PTL DEF HostSpec, StaleSlotIsReused

=============================================================================
