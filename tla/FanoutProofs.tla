---------------------------- MODULE FanoutProofs ----------------------------
(***************************************************************************)
(* The fan-out for every capacity, every number of sessions and pushes of  *)
(* any size: the state is well typed, and what the sessions are sent is    *)
(* what StreamPromise promises.                                            *)
(***************************************************************************)
EXTENDS Fanout, RingBufferProofs, WellFoundedInduction

-----------------------------------------------------------------------------
(* The inductive invariant.                                                *)

Known(s) == note[s] # NoNote

\* Only sessions that have been attached, once, are in the connection's set.
SessionsKnown ==
  /\ attached \subseteq Sessions
  /\ \A s \in attached : Known(s)
  /\ attaching # NoAttach => attaching.sess \in Sessions /\ ~Known(attaching.sess)

\* What is in the fan-out task's hand continues what its session was sent,
\* and what it is about to own up to has left the ring.
ReadInHand ==
  fan.pc = "emit" =>
    /\ fan.sess \in Sessions /\ Known(fan.sess)
    /\ fan.got.data = Stretch(fan.got.resume, fan.got.cursor)
    /\ fan.got.resume < fan.got.cursor /\ fan.got.cursor <= ring.head_seq
    /\ fan.got.lag => /\ note[fan.sess].hi < fan.got.resume
                      /\ fan.got.resume <= ring.tail_seq
    /\ ~fan.got.lag => note[fan.sess].hi = fan.got.resume

\* A session's cursor is where its last notification ended, except between
\* a lag and the data that goes with it.
CursorsFollow ==
  \A s \in Sessions :
    Known(s) /\ ~(fan.pc = "emit" /\ fan.sess = s /\ ~fan.got.lag)
      => notify_cursor[s] = note[s].hi

StreamInv == Sound(ring) /\ SessionsKnown /\ ReadInHand /\ CursorsFollow

-----------------------------------------------------------------------------
(* Type correctness, with the ring's soundness.                            *)

\* The fan-out task at the start of a pass, and asleep, is well typed.
LEMMA PassType ==
  ASSUME attached \in SUBSET Sessions
  PROVE  /\ NewPass \in Fans
         /\ [NewPass EXCEPT !.pc = "parked", !.todo = {}] \in Fans
<1>1. NoRead \in Reads
  BY DEF NoRead, Reads
<1>2. QED
  BY <1>1 DEF NewPass, Fans

\* The initial state is well typed and its ring is sound.
LEMMA InitTypeOK == Init => TypeOK /\ Sound(ring)
<1> SUFFICES ASSUME Init PROVE TypeOK /\ Sound(ring)
  OBVIOUS
<1>1. ring = EmptyRing /\ Sound(ring)
  BY EmptySound DEF Init
<1>2. /\ ring \in [buf: Seq(Nat), head_seq: Nat, tail_seq: Nat]
      /\ Len(ring.buf) <= Capacity
  BY <1>1, SoundType DEF EmptyRing
<1>3. fan \in Fans
  BY PassType DEF Init
<1>4. note \in [Sessions -> Notes] /\ attaching \in [sess: Sessions \cup {NoSession}, cursor: Nat]
  BY DEF Init, NoNote, Note, Notes, Kinds, NoAttach
<1>5. QED
  BY <1>1, <1>2, <1>3, <1>4 DEF Init, TypeOK

\* Every step keeps the state well typed and the ring sound.
LEMMA NextTypeOK == TypeOK /\ StreamInv /\ [Next]_vars => (TypeOK /\ Sound(ring))'
<1> SUFFICES ASSUME TypeOK, StreamInv, [Next]_vars PROVE (TypeOK /\ Sound(ring))'
  OBVIOUS
<1>a. Sound(ring)
  BY DEF StreamInv
<1>1. CASE PushBytes
  <2>1. PICK n \in 1..MaxChunk : ring' = Push(ring, Fresh(ring, n))
    BY <1>1 DEF PushBytes
  <2>2. n \in Nat \ {0}
    BY FanoutConstants
  <2>a. Sound(Push(ring, Fresh(ring, n)))
    BY <1>a, <2>2, PushSound
  <2>3. Sound(ring')
    BY <2>1, <2>a
  <2>4. ring' = [buf |-> ring'.buf, head_seq |-> ring'.head_seq, tail_seq |-> ring'.tail_seq]
    BY <2>1 DEF Push
  <2>5. /\ ring' \in [buf: Seq(Nat), head_seq: Nat, tail_seq: Nat]
        /\ Len(ring'.buf) <= Capacity
    BY <2>3, <2>4, SoundType
  <2>6. QED
    BY <1>1, <2>3, <2>5 DEF PushBytes, TypeOK, Sound
<1>2. CASE NotifyWaiters
  <2>1. fan' \in Fans
    BY <1>2, PassType DEF NotifyWaiters, TypeOK
  <2>2. pass' \in [head: Nat, sessions: SUBSET Sessions]
    BY <1>a, <1>2 DEF NotifyWaiters, TypeOK, Now, Sound
  <2>3. Sound(ring)'
    BY <1>a, <1>2 DEF NotifyWaiters, Sound
  <2>4. QED
    BY <1>2, <2>1, <2>2, <2>3 DEF NotifyWaiters, TypeOK
<1>3. ASSUME NEW s \in Sessions, Visit(s) PROVE (TypeOK /\ Sound(ring))'
  <2>1. ReadFrom(ring, notify_cursor[s]) \in Reads
    BY <1>a, ReadWanted DEF TypeOK
  <2>2. fan' \in Fans
    BY <1>3, <2>1 DEF Visit, TypeOK, Fans
  <2>3. QED
    BY <1>a, <1>3, <2>2 DEF Visit, TypeOK, Sound
<1>4. CASE EmitLag
  <2>1. fan' \in Fans
    BY <1>4 DEF EmitLag, TypeOK, Fans, Reads
  <2>2. fan.sess \in Sessions /\ fan.got.resume \in Nat
    BY <1>4 DEF EmitLag, TypeOK, Fans, Reads, StreamInv, ReadInHand
  <2>3. Note("lag", notify_cursor[fan.sess], fan.got.resume, <<>>) \in Notes
    BY <2>2 DEF TypeOK, Notes, Note, Kinds
  <2>4. note' \in [Sessions -> Notes]
    BY <1>4, <2>3 DEF EmitLag, TypeOK
  <2>5. QED
    BY <1>a, <1>4, <2>1, <2>4 DEF EmitLag, TypeOK, Sound, Now
<1>5. CASE EmitData
  <2>1. fan' \in Fans
    <3>1. NoRead \in Reads
      BY DEF NoRead, Reads
    <3>2. QED
      BY <1>5, <3>1 DEF EmitData, TypeOK, Fans
  <2>2. /\ fan.sess \in Sessions /\ fan.got \in Reads
        /\ fan.got.data = Stretch(fan.got.resume, fan.got.cursor)
        /\ fan.got.resume < fan.got.cursor
    BY <1>5 DEF EmitData, TypeOK, Fans, StreamInv, ReadInHand
  <2>3. fan.got.resume \in Nat /\ fan.got.cursor \in Nat /\ fan.got.data \in Seq(Nat)
    BY <2>2 DEF Reads
  <2>4. Len(fan.got.data) = fan.got.cursor - fan.got.resume
    <3>1. fan.got.resume <= fan.got.cursor
      BY <2>2, <2>3
    <3>2. QED
      BY <2>2, <2>3, <3>1, StretchSeq
  <2>5. fan.got.cursor - Len(fan.got.data) \in Nat
    BY <2>3, <2>4
  <2>6. Note("data", fan.got.cursor - Len(fan.got.data), fan.got.cursor, fan.got.data)
          \in Notes
    BY <2>3, <2>5 DEF Notes, Note, Kinds
  <2>7. note' \in [Sessions -> Notes] /\ notify_cursor' \in [Sessions -> Nat]
    BY <1>5, <2>3, <2>6 DEF EmitData, TypeOK
  <2>8. QED
    BY <1>a, <1>5, <2>1, <2>7 DEF EmitData, TypeOK, Sound, Now
<1>6. CASE EndPass
  <2>1. fan' \in Fans
    BY <1>6, PassType DEF EndPass, TypeOK
  <2>2. QED
    BY <1>a, <1>6, <2>1 DEF EndPass, TypeOK, Now, Sound
<1>7. ASSUME NEW s \in Sessions, AttachLook(s) PROVE (TypeOK /\ Sound(ring))'
  <2>1. attaching' \in [sess: Sessions \cup {NoSession}, cursor: Nat]
    BY <1>7, FanoutConstants DEF AttachLook, TypeOK
  <2>2. QED
    BY <1>a, <1>7, <2>1 DEF AttachLook, TypeOK, Sound
<1>8. CASE AttachAdd
  <2>1. attaching.sess \in Sessions /\ attaching.cursor \in Nat
    BY <1>8 DEF AttachAdd, TypeOK, StreamInv, SessionsKnown
  <2>2. Note("attach", attaching.cursor, attaching.cursor, <<>>) \in Notes
    BY <2>1 DEF Notes, Note, Kinds
  <2>3. /\ note' \in [Sessions -> Notes] /\ notify_cursor' \in [Sessions -> Nat]
        /\ attached' \in SUBSET Sessions
    BY <1>8, <2>1, <2>2 DEF AttachAdd, TypeOK
  <2>4. attaching' \in [sess: Sessions \cup {NoSession}, cursor: Nat]
    BY <1>8 DEF AttachAdd, NoAttach
  <2>5. QED
    BY <1>a, <1>8, <2>3, <2>4 DEF AttachAdd, TypeOK, Sound
<1>9. ASSUME NEW s \in Sessions, Detach(s) PROVE (TypeOK /\ Sound(ring))'
  BY <1>a, <1>9 DEF Detach, TypeOK, Sound
<1>10. CASE UNCHANGED vars
  BY <1>a, <1>10 DEF vars, TypeOK, Sound
<1>11. QED
  BY <1>1, <1>2, <1>3, <1>4, <1>5, <1>6, <1>7, <1>8, <1>9, <1>10 DEF Next

-----------------------------------------------------------------------------
(* The inductive step, one conjunct after the other.                       *)

\* An attach makes its session known for good.
LEMMA NextSessionsKnown ==
  TypeOK /\ StreamInv /\ [Next]_vars => SessionsKnown'
<1> SUFFICES ASSUME TypeOK, StreamInv, [Next]_vars PROVE SessionsKnown'
  OBVIOUS
<1> USE DEF SessionsKnown, Known, StreamInv
<1>1. CASE PushBytes
  BY <1>1 DEF PushBytes
<1>2. CASE NotifyWaiters
  BY <1>2 DEF NotifyWaiters
<1>3. ASSUME NEW s \in Sessions, Visit(s) PROVE SessionsKnown'
  BY <1>3 DEF Visit
<1>4. CASE EmitLag
  <2>1. fan.sess \in Sessions /\ Known(fan.sess)
    BY <1>4 DEF EmitLag, ReadInHand
  <2>2. \A u \in Sessions \ {fan.sess} : note'[u] = note[u]
    BY <1>4 DEF EmitLag, TypeOK
  <2>3. note'[fan.sess] # NoNote
    BY <1>4, <2>1 DEF EmitLag, TypeOK, Note, NoNote
  <2>4. attaching' = attaching /\ attached' = attached
    BY <1>4 DEF EmitLag
  <2>5. QED
    BY <2>1, <2>2, <2>3, <2>4
<1>5. CASE EmitData
  <2>1. fan.sess \in Sessions /\ Known(fan.sess)
    BY <1>5 DEF EmitData, ReadInHand
  <2>2. \A u \in Sessions \ {fan.sess} : note'[u] = note[u]
    BY <1>5 DEF EmitData, TypeOK
  <2>3. note'[fan.sess] # NoNote
    BY <1>5, <2>1 DEF EmitData, TypeOK, Note, NoNote
  <2>4. attaching' = attaching /\ attached' = attached
    BY <1>5 DEF EmitData
  <2>5. QED
    BY <2>1, <2>2, <2>3, <2>4
<1>6. CASE EndPass
  BY <1>6 DEF EndPass
<1>7. ASSUME NEW s \in Sessions, AttachLook(s) PROVE SessionsKnown'
  BY <1>7 DEF AttachLook
<1>8. CASE AttachAdd
  <2>1. attaching.sess \in Sessions
    BY <1>8 DEF AttachAdd
  <2>2. \A u \in Sessions \ {attaching.sess} : note'[u] = note[u]
    BY <1>8 DEF AttachAdd, TypeOK
  <2>3. note'[attaching.sess] # NoNote
    BY <1>8, <2>1 DEF AttachAdd, TypeOK, Note, NoNote
  <2>4. attaching' = NoAttach /\ attached' = attached \cup {attaching.sess}
    BY <1>8 DEF AttachAdd
  <2>5. QED
    BY <2>1, <2>2, <2>3, <2>4
<1>9. ASSUME NEW s \in Sessions, Detach(s) PROVE SessionsKnown'
  BY <1>9 DEF Detach
<1>10. CASE UNCHANGED vars
  BY <1>10 DEF vars
<1>11. QED
  BY <1>1, <1>2, <1>3, <1>4, <1>5, <1>6, <1>7, <1>8, <1>9, <1>10 DEF Next

\* The ring only moves forward.
LEMMA RingMonotone ==
  ASSUME TypeOK, StreamInv, [Next]_vars
  PROVE  ring'.head_seq >= ring.head_seq /\ ring'.tail_seq >= ring.tail_seq
<1>a. Sound(ring) /\ Sound(ring)'
  BY NextTypeOK DEF StreamInv
<1>1. CASE PushBytes
  <2>1. PICK n \in 1..MaxChunk : ring' = Push(ring, Fresh(ring, n))
    BY <1>1 DEF PushBytes
  <2>2. n \in Nat \ {0}
    BY FanoutConstants
  <2>3. ring'.head_seq = ring.head_seq + n
    BY <1>a, <2>1, <2>2, PushSound
  <2>4. QED
    BY <1>a, <2>2, <2>3, CapacityPositive DEF Sound
<1>2. CASE ring' = ring
  BY <1>a, <1>2 DEF Sound
<1>3. QED
  BY <1>1, <1>2 DEF Next, vars, NotifyWaiters, Visit, EmitLag, EmitData, EndPass,
     AttachLook, AttachAdd, Detach

\* A read in hand keeps continuing what its session was sent.
LEMMA NextReadInHand ==
  TypeOK /\ StreamInv /\ [Next]_vars => ReadInHand'
<1> SUFFICES ASSUME TypeOK, StreamInv, [Next]_vars PROVE ReadInHand'
  OBVIOUS
<1>a. /\ ring'.head_seq >= ring.head_seq /\ ring'.tail_seq >= ring.tail_seq
      /\ ring.head_seq \in Nat /\ ring.tail_seq \in Nat
      /\ ring'.head_seq \in Nat /\ ring'.tail_seq \in Nat
  BY RingMonotone, NextTypeOK DEF TypeOK
<1>b. ASSUME fan' = fan, fan.pc = "emit" => note'[fan.sess] = note[fan.sess]
      PROVE  ReadInHand'
  <2> SUFFICES ASSUME fan.pc = "emit" PROVE ReadInHand'
    BY <1>b DEF ReadInHand
  <2>1. fan.got.cursor \in Nat /\ fan.got.resume \in Nat
    BY DEF TypeOK, Fans, Reads
  <2>2. fan.got.cursor <= ring'.head_seq
    BY <1>a, <2>1 DEF StreamInv, ReadInHand
  <2>3. fan.got.resume <= ring.tail_seq => fan.got.resume <= ring'.tail_seq
    BY <1>a, <2>1
  <2>4. QED
    BY <1>b, <2>2, <2>3 DEF StreamInv, ReadInHand, Known
<1>1. CASE PushBytes
  BY <1>1, <1>b DEF PushBytes
<1>2. CASE NotifyWaiters
  <2>1. CASE fan.pc = "parked"
    BY <1>2, <2>1 DEF NotifyWaiters, NewPass, ReadInHand
  <2>2. CASE fan.pc # "parked"
    BY <1>2, <1>b, <2>2 DEF NotifyWaiters
  <2>3. QED
    BY <2>1, <2>2
<1>3. ASSUME NEW s \in Sessions, Visit(s) PROVE ReadInHand'
  <2> DEFINE got == ReadFrom(ring, notify_cursor[s])
             from == notify_cursor[s]
  <2>1. CASE s \notin attached \/ (got.data = <<>> /\ ~got.lag)
    BY <1>3, <2>1 DEF Visit, TypeOK, Fans, ReadInHand
  <2>2. CASE s \in attached /\ ~(got.data = <<>> /\ ~got.lag)
    <3>1. from \in Nat /\ Sound(ring)
      BY DEF TypeOK, StreamInv
    <3>2. from < ring.head_seq
      BY <1>a, <2>2, <3>1, ReadWanted
    <3>3. Wanted(ring, from, got) /\ got.resume < ring.head_seq
      BY <3>1, <3>2, ReadWanted
    <3>4. fan'.pc = "emit" /\ fan'.sess = s /\ fan'.got = got
      BY <1>3, <2>2 DEF Visit, TypeOK, Fans
    <3>5. Known(s) /\ from = note[s].hi
      BY <1>3, <2>2 DEF StreamInv, SessionsKnown, CursorsFollow, Visit
    <3>6. note' = note /\ ring' = ring
      BY <1>3 DEF Visit
    <3> HIDE DEF got, from
    <3>7. /\ got.data = Stretch(got.resume, got.cursor)
          /\ got.cursor = ring.head_seq /\ got.resume < got.cursor
          /\ got.lag => from < got.resume /\ got.resume <= ring.tail_seq
          /\ ~got.lag => from = got.resume
      BY <1>a, <3>1, <3>3 DEF Wanted
    <3>8. QED
      BY <1>a, <3>4, <3>5, <3>6, <3>7 DEF ReadInHand, Known
  <2>3. QED
    BY <2>1, <2>2
<1>4. CASE EmitLag
  <2>1. /\ fan.pc = "emit" /\ fan.sess \in Sessions /\ fan.got.lag
        /\ fan.got \in Reads
        /\ fan.got.data = Stretch(fan.got.resume, fan.got.cursor)
        /\ fan.got.resume < fan.got.cursor /\ fan.got.cursor <= ring.head_seq
    BY <1>4 DEF EmitLag, TypeOK, Fans, StreamInv, ReadInHand
  <2>2. fan.got.data # <<>>
    BY <2>1, StretchEmpty DEF Reads
  <2>3. /\ fan'.pc = "emit" /\ fan'.sess = fan.sess /\ fan'.got.lag = FALSE
        /\ fan'.got.data = fan.got.data /\ fan'.got.resume = fan.got.resume
        /\ fan'.got.cursor = fan.got.cursor
    BY <1>4, <2>1, <2>2 DEF EmitLag, TypeOK, Fans, Reads
  <2>4. /\ note'[fan.sess].hi = fan.got.resume
        /\ note'[fan.sess] # NoNote
    BY <1>4, <2>1 DEF EmitLag, TypeOK, Note, NoNote
  <2>5. ring' = ring
    BY <1>4 DEF EmitLag
  <2>6. QED
    BY <2>1, <2>3, <2>4, <2>5 DEF ReadInHand, Known
<1>5. CASE EmitData
  <2>1. fan'.pc = "pass"
    BY <1>5 DEF EmitData, TypeOK, Fans
  <2>2. QED
    BY <2>1 DEF ReadInHand
<1>6. CASE EndPass
  <2>1. fan' = NewPass \/ fan' = [NewPass EXCEPT !.pc = "parked", !.todo = {}]
    BY <1>6 DEF EndPass
  <2>2. NewPass.pc = "pass"
    BY DEF NewPass
  <2>3. [NewPass EXCEPT !.pc = "parked", !.todo = {}].pc = "parked"
    BY DEF NewPass
  <2>4. fan'.pc # "emit"
    BY <2>1, <2>2, <2>3
  <2>5. QED
    BY <2>4 DEF ReadInHand
<1>7. ASSUME NEW s \in Sessions, AttachLook(s) PROVE ReadInHand'
  BY <1>7, <1>b DEF AttachLook
<1>8. CASE AttachAdd
  <2>1. fan.pc = "emit" => fan.sess # attaching.sess /\ fan.sess \in Sessions
    BY <1>8 DEF AttachAdd, StreamInv, SessionsKnown, ReadInHand
  <2>2. fan.pc = "emit" => note'[fan.sess] = note[fan.sess]
    BY <1>8, <2>1 DEF AttachAdd, TypeOK
  <2>3. QED
    BY <1>8, <1>b, <2>2 DEF AttachAdd
<1>9. ASSUME NEW s \in Sessions, Detach(s) PROVE ReadInHand'
  BY <1>9, <1>b DEF Detach
<1>10. CASE UNCHANGED vars
  BY <1>10, <1>b DEF vars
<1>11. QED
  BY <1>1, <1>2, <1>3, <1>4, <1>5, <1>6, <1>7, <1>8, <1>9, <1>10 DEF Next

\* A session's cursor follows its notifications.
LEMMA NextCursorsFollow ==
  TypeOK /\ StreamInv /\ [Next]_vars => CursorsFollow'
<1> SUFFICES ASSUME TypeOK, StreamInv, [Next]_vars PROVE CursorsFollow'
  OBVIOUS
<1>a. CursorsFollow
  BY DEF StreamInv
<1>b. ASSUME UNCHANGED <<fan, note, notify_cursor>> PROVE CursorsFollow'
  BY <1>a, <1>b DEF CursorsFollow, Known
<1>c. ASSUME fan.pc # "emit", UNCHANGED <<note, notify_cursor>> PROVE CursorsFollow'
  BY <1>a, <1>c DEF CursorsFollow, Known
<1>1. CASE PushBytes
  BY <1>1, <1>b DEF PushBytes
<1>2. CASE NotifyWaiters
  BY <1>2, <1>b, <1>c DEF NotifyWaiters
<1>3. ASSUME NEW s \in Sessions, Visit(s) PROVE CursorsFollow'
  BY <1>3, <1>c DEF Visit
<1>4. CASE EmitLag
  <2>1. /\ fan.pc = "emit" /\ fan.sess \in Sessions /\ fan.got \in Reads
        /\ fan.got.data # <<>>
    BY <1>4, StretchEmpty DEF EmitLag, TypeOK, Fans, Reads, StreamInv, ReadInHand
  <2>2. fan'.pc = "emit" /\ fan'.sess = fan.sess /\ fan'.got.lag = FALSE
    BY <1>4, <2>1 DEF EmitLag, TypeOK, Fans, Reads
  <2>3. \A u \in Sessions \ {fan.sess} : note'[u] = note[u]
    BY <1>4 DEF EmitLag, TypeOK
  <2>4. notify_cursor' = notify_cursor
    BY <1>4 DEF EmitLag
  <2>5. QED
    BY <1>a, <2>1, <2>2, <2>3, <2>4 DEF CursorsFollow, Known
<1>5. CASE EmitData
  <2>1. fan.pc = "emit" /\ fan.sess \in Sessions
    BY <1>5 DEF EmitData, StreamInv, ReadInHand
  <2>2. note'[fan.sess].hi = fan.got.cursor /\ notify_cursor'[fan.sess] = fan.got.cursor
    BY <1>5, <2>1 DEF EmitData, TypeOK, Note
  <2>3. \A u \in Sessions \ {fan.sess} :
          note'[u] = note[u] /\ notify_cursor'[u] = notify_cursor[u]
    BY <1>5 DEF EmitData, TypeOK
  <2>4. QED
    BY <1>a, <2>1, <2>2, <2>3 DEF CursorsFollow, Known
<1>6. CASE EndPass
  BY <1>6, <1>c DEF EndPass
<1>7. ASSUME NEW s \in Sessions, AttachLook(s) PROVE CursorsFollow'
  BY <1>7, <1>b DEF AttachLook
<1>8. CASE AttachAdd
  <2>1. attaching.sess \in Sessions
    BY <1>8 DEF AttachAdd, StreamInv, SessionsKnown
  <2>2. /\ note'[attaching.sess].hi = attaching.cursor
        /\ notify_cursor'[attaching.sess] = attaching.cursor
    BY <1>8, <2>1 DEF AttachAdd, TypeOK, Note
  <2>3. \A u \in Sessions \ {attaching.sess} :
          note'[u] = note[u] /\ notify_cursor'[u] = notify_cursor[u]
    BY <1>8 DEF AttachAdd, TypeOK
  <2>4. fan' = fan
    BY <1>8 DEF AttachAdd
  <2>5. QED
    BY <1>a, <2>1, <2>2, <2>3, <2>4 DEF CursorsFollow, Known
<1>9. ASSUME NEW s \in Sessions, Detach(s) PROVE CursorsFollow'
  BY <1>9, <1>b DEF Detach
<1>10. CASE UNCHANGED vars
  BY <1>10, <1>b DEF vars
<1>11. QED
  BY <1>1, <1>2, <1>3, <1>4, <1>5, <1>6, <1>7, <1>8, <1>9, <1>10 DEF Next

-----------------------------------------------------------------------------
(* The invariant, and what follows from it.                                *)

\* The invariant holds to begin with.
LEMMA InitStreamInv == Init => TypeOK /\ StreamInv
<1> SUFFICES ASSUME Init PROVE TypeOK /\ StreamInv
  OBVIOUS
<1>1. TypeOK /\ Sound(ring)
  BY InitTypeOK
<1>2. SessionsKnown
  BY DEF Init, SessionsKnown
<1>3. ReadInHand
  BY DEF Init, NewPass, ReadInHand
<1>4. CursorsFollow
  BY DEF Init, CursorsFollow, Known
<1>5. QED
  BY <1>1, <1>2, <1>3, <1>4 DEF StreamInv

\* The invariant always holds.
LEMMA StreamInvariant == Spec => [](TypeOK /\ StreamInv)
<1>1. TypeOK /\ StreamInv /\ [Next]_vars => (TypeOK /\ StreamInv)'
  BY NextTypeOK, NextSessionsKnown, NextReadInHand, NextCursorsFollow DEF StreamInv
<1>2. QED
  BY <1>1, InitStreamInv, PTL DEF Spec

\* The state is well typed and the ring never outgrows its capacity, however
\* many bytes a push brings (buffer.rs, `push`).
THEOREM TypeCorrect == Spec => []TypeOK
<1>1. QED
  BY StreamInvariant, PTL

\* The oldest byte the ring holds is the oldest StreamPromise counts as kept.
LEMMA OldestIsTail ==
  ASSUME Sound(ring)
  PROVE  Promise!Oldest = ring.tail_seq
BY DEF Promise!Oldest, Sound

\* The first and later notifications of a session are those of the promise.
LEMMA NotePromised ==
  ASSUME TypeOK, StreamInv, Next
  PROVE  [Promise!Next]_<<ring.head_seq, note>>
<1>a. /\ Sound(ring) /\ ring.head_seq \in Nat /\ ring.tail_seq \in Nat
      /\ Promise!NoNote = NoNote
  BY OldestIsTail DEF StreamInv, Sound, Promise!NoNote, NoNote, Note
<1>b. ASSUME UNCHANGED <<ring, note>> PROVE UNCHANGED <<ring.head_seq, note>>
  BY <1>b
<1>1. CASE PushBytes
  <2>1. PICK n \in 1..MaxChunk : ring' = Push(ring, Fresh(ring, n))
    BY <1>1 DEF PushBytes
  <2>2. n \in Nat \ {0}
    BY FanoutConstants
  <2>3. ring'.head_seq = ring.head_seq + n
    BY <1>a, <2>1, <2>2, PushSound
  <2>4. note' = note
    BY <1>1 DEF PushBytes
  <2>5. Promise!Produce
    BY <1>a, <2>2, <2>3, <2>4 DEF Promise!Produce
  <2>6. QED
    BY <2>5 DEF Promise!Next
<1>2. CASE AttachAdd
  <2> DEFINE s == attaching.sess
             p == attaching.cursor
  <2>1. s \in Sessions /\ note[s] = NoNote /\ p \in Nat
    BY <1>2 DEF AttachAdd, TypeOK, StreamInv, SessionsKnown, Known
  <2>2. note' = [note EXCEPT ![s] = Note("attach", p, p, <<>>)]
    BY <1>2 DEF AttachAdd
  <2>3. note'[s].hi = p
    BY <2>1, <2>2 DEF TypeOK, Note
  <2>4. ring' = ring
    BY <1>2 DEF AttachAdd
  <2> HIDE DEF s, p
  <2>5. Promise!Open(s)
    BY <1>a, <2>1, <2>2, <2>3, <2>4 DEF Promise!Open, Note
  <2>6. QED
    BY <2>1, <2>5 DEF Promise!Next
<1>3. CASE EmitLag
  <2> DEFINE s == fan.sess
             hi == fan.got.resume
             lo == note[s].hi
  <2>1. /\ fan.pc = "emit" /\ fan.got.lag /\ s \in Sessions /\ note[s] # NoNote
        /\ lo < hi /\ hi <= ring.tail_seq
    BY <1>3 DEF EmitLag, StreamInv, ReadInHand, Known
  <2>2. hi \in Nat /\ lo \in Nat
    BY <2>1 DEF TypeOK, Fans, Reads, Notes
  <2>3. notify_cursor[s] = lo
    BY <2>1 DEF StreamInv, CursorsFollow, Known
  <2>4. note' = [note EXCEPT ![s] = Note("lag", lo, hi, <<>>)]
    BY <1>3, <2>3 DEF EmitLag
  <2>5. ring' = ring
    BY <1>3 DEF EmitLag
  <2>6. Promise!Oldest = ring.tail_seq
    BY <1>a, OldestIsTail
  <2>7. hi \in lo + 1 .. Promise!Oldest
    BY <1>a, <2>1, <2>2, <2>6
  <2> DEFINE new == Note("lag", lo, hi, <<>>)
  <2>8. new = [kind |-> "lag", lo |-> note[s].hi, hi |-> hi, data |-> <<>>]
    BY DEF Note
  <2> HIDE DEF s, hi, new
  <2>9. note' = [note EXCEPT ![s] =
                   [kind |-> "lag", lo |-> @.hi, hi |-> hi, data |-> <<>>]]
    BY <2>1, <2>4, <2>8 DEF TypeOK, new
  <2>10. Promise!Lag(s)
    BY <1>a, <2>1, <2>5, <2>7, <2>9 DEF Promise!Lag
  <2>11. QED
    BY <2>1, <2>10 DEF Promise!Next
<1>4. CASE EmitData
  <2> DEFINE s == fan.sess
             hi == fan.got.cursor
             lo == note[s].hi
  <2>1. /\ fan.pc = "emit" /\ ~fan.got.lag /\ s \in Sessions /\ note[s] # NoNote
        /\ lo = fan.got.resume /\ lo < hi /\ hi <= ring.head_seq
        /\ fan.got.data = Stretch(lo, hi)
    BY <1>4 DEF EmitData, StreamInv, ReadInHand, Known
  <2>2. hi \in Nat /\ lo \in Nat
    BY <2>1 DEF TypeOK, Fans, Reads, Notes
  <2>3. Len(fan.got.data) = hi - lo
    <3>1. lo <= hi
      BY <2>1, <2>2
    <3>2. QED
      BY <2>1, <2>2, <3>1, StretchSeq
  <2>4. hi - Len(fan.got.data) = lo
    BY <2>2, <2>3
  <2>5. note' = [note EXCEPT ![s] = Note("data", lo, hi, Stretch(lo, hi))]
    BY <1>4, <2>1, <2>4 DEF EmitData
  <2>6. ring' = ring
    BY <1>4 DEF EmitData
  <2>7. hi \in lo + 1 .. ring.head_seq
    BY <1>a, <2>1, <2>2
  <2> DEFINE new == Note("data", lo, hi, Stretch(lo, hi))
  <2>8. new = [kind |-> "data", lo |-> note[s].hi, hi |-> hi,
               data |-> [i \in 1 .. hi - note[s].hi |-> note[s].hi + i - 1]]
    BY DEF Note, Stretch
  <2> HIDE DEF s, hi, new
  <2>9. note' = [note EXCEPT ![s] =
                   [kind |-> "data", lo |-> @.hi, hi |-> hi,
                    data |-> [i \in 1 .. hi - @.hi |-> @.hi + i - 1]]]
    BY <2>1, <2>5, <2>8 DEF TypeOK, new
  <2>10. Promise!Data(s)
    BY <1>a, <2>1, <2>6, <2>7, <2>9 DEF Promise!Data
  <2>11. QED
    BY <2>1, <2>10 DEF Promise!Next
<1>5. QED
  BY <1>1, <1>2, <1>3, <1>4, <1>b DEF Next, NotifyWaiters, Visit, EndPass, AttachLook, Detach

\* What the sessions are sent, the lags for a ring that was overrun included,
\* is what the protocol promises them (conn.rs, `fanout_loop`; buffer.rs).
THEOREM StreamPromiseKept == Spec => KeepsStreamPromise
<1>1. Init => Promise!Init
  BY DEF Init, Promise!Init, EmptyRing, NoNote, Note, Promise!NoNote
<1>2. TypeOK /\ StreamInv /\ [Next]_vars => [Promise!Next]_<<ring.head_seq, note>>
  <2> SUFFICES ASSUME TypeOK, StreamInv, [Next]_vars
               PROVE  [Promise!Next]_<<ring.head_seq, note>>
    OBVIOUS
  <2>1. CASE Next
    BY <2>1, NotePromised
  <2>2. CASE UNCHANGED vars
    BY <2>2 DEF vars
  <2>3. QED
    BY <2>1, <2>2
<1>3. QED
  BY <1>1, <1>2, StreamInvariant, PTL DEF Spec, KeepsStreamPromise, Promise!Spec

-----------------------------------------------------------------------------
(* How much the fan-out task can sleep through.                            *)

\* The task is through with s in the present pass and sent nothing in it.
Passed(s) ==
  \/ fan.pc = "parked"
  \/ fan.pc \in {"pass", "emit"} /\ ~fan.emitted /\ s \notin fan.todo
                                /\ ~(fan.pc = "emit" /\ s = fan.sess)

\* The pass began with sessions that were attached and with what the ring held.
PassPast ==
  /\ pass.head <= ring.head_seq
  /\ \A s \in pass.sessions : Known(s)

\* A session that was passed over had all that was there when the pass began.
PassedServed ==
  \A s \in attached \cap pass.sessions : Passed(s) => notify_cursor[s] >= pass.head

PassInv == PassPast /\ PassedServed

\* The record of the pass stays one of the past.
LEMMA NextPassPast ==
  TypeOK /\ StreamInv /\ PassPast /\ [Next]_vars => PassPast'
<1> SUFFICES ASSUME TypeOK, StreamInv, PassPast, [Next]_vars PROVE PassPast'
  OBVIOUS
<1>a. /\ ring'.head_seq >= ring.head_seq
      /\ ring.head_seq \in Nat /\ ring'.head_seq \in Nat /\ pass.head \in Nat
  BY RingMonotone, NextTypeOK DEF TypeOK
<1>b. \A s \in Sessions : Known(s) => note'[s] # NoNote
  <2>1. CASE AttachAdd
    BY <2>1 DEF AttachAdd, StreamInv, SessionsKnown, Known, TypeOK, Note, NoNote
  <2>2. CASE EmitLag
    BY <2>2 DEF EmitLag, StreamInv, ReadInHand, Known, TypeOK, Note, NoNote
  <2>3. CASE EmitData
    BY <2>3 DEF EmitData, StreamInv, ReadInHand, Known, TypeOK, Note, NoNote
  <2>4. CASE note' = note
    BY <2>4 DEF Known
  <2>5. QED
    BY <2>1, <2>2, <2>3, <2>4 DEF Next, vars, PushBytes, NotifyWaiters, Visit, EndPass,
       AttachLook, Detach
<1>1. CASE pass' = pass
  <2>1. pass.sessions \subseteq Sessions
    BY DEF TypeOK
  <2>2. pass.head <= ring'.head_seq
    BY <1>a DEF PassPast
  <2>3. QED
    BY <1>1, <1>b, <2>1, <2>2 DEF PassPast, Known
<1>2. CASE pass' = Now /\ UNCHANGED <<ring, attached>>
  <2>1. \A s \in attached : s \in Sessions /\ Known(s)
    BY DEF StreamInv, SessionsKnown
  <2>2. pass'.sessions = attached /\ pass'.head = ring'.head_seq
    BY <1>2 DEF Now
  <2>3. QED
    BY <1>a, <1>b, <2>1, <2>2 DEF PassPast, Known
<1>3. QED
  BY <1>1, <1>2 DEF Next, vars, PushBytes, NotifyWaiters, Visit, EmitLag, EmitData, EndPass,
     AttachLook, AttachAdd, Detach

\* A step passes over no session that had something to read when the pass
\* began.
LEMMA NextPassedServed ==
  TypeOK /\ StreamInv /\ PassInv /\ [Next]_vars => PassedServed'
<1> SUFFICES ASSUME TypeOK, StreamInv, PassInv, [Next]_vars PROVE PassedServed'
  OBVIOUS
<1>a. ASSUME UNCHANGED <<fan, pass, notify_cursor>>, attached' \subseteq attached
      PROVE  PassedServed'
  BY <1>a DEF PassInv, PassedServed, Passed
<1>b. ASSUME fan' = NewPass, pass' = Now, attached' = attached
      PROVE  PassedServed'
  <2>1. fan'.pc = "pass" /\ fan'.todo = attached
    BY <1>b DEF NewPass
  <2>2. QED
    BY <1>b, <2>1 DEF PassedServed, Passed
<1>c. ASSUME fan'.emitted = TRUE, fan'.pc \in {"pass", "emit"} PROVE PassedServed'
  BY <1>c DEF PassedServed, Passed
<1>1. CASE PushBytes
  BY <1>1, <1>a DEF PushBytes
<1>2. CASE NotifyWaiters
  BY <1>2, <1>a, <1>b DEF NotifyWaiters
<1>3. ASSUME NEW s \in Sessions, Visit(s) PROVE PassedServed'
  <2> DEFINE from == notify_cursor[s]
             got == ReadFrom(ring, from)
  <2>1. /\ fan.pc = "pass" /\ fan'.todo = fan.todo \ {s} /\ fan'.emitted = fan.emitted
        /\ UNCHANGED <<pass, notify_cursor, attached>>
    BY <1>3 DEF Visit, TypeOK, Fans
  <2>2. ASSUME NEW u \in attached \cap pass.sessions, Passed(u)', u # s
        PROVE  notify_cursor[u] >= pass.head
    <3>1. Passed(u)
      <4>1. fan'.pc # "parked"
        BY <1>3 DEF Visit, TypeOK, Fans
      <4>2. QED
        BY <2>1, <2>2, <4>1 DEF Passed
    <3>2. QED
      BY <3>1 DEF PassInv, PassedServed
  <2>3. ASSUME s \in attached \cap pass.sessions, Passed(s)'
        PROVE  notify_cursor[s] >= pass.head
    <3>1. got.data = <<>> /\ ~got.lag
      <4>1. SUFFICES ASSUME ~(got.data = <<>> /\ ~got.lag) PROVE FALSE
        OBVIOUS
      <4>2. fan'.pc = "emit" /\ fan'.sess = s
        BY <1>3, <2>3, <4>1 DEF Visit, TypeOK, Fans
      <4>3. QED
        BY <2>3, <4>2 DEF Passed
    <3>2. from \in Nat /\ Sound(ring)
      BY DEF TypeOK, StreamInv
    <3>3. from >= ring.head_seq
      <4>1. SUFFICES ASSUME from < ring.head_seq PROVE FALSE
        BY <3>2 DEF TypeOK
      <4>2. Wanted(ring, from, got) /\ got.resume < ring.head_seq /\ got \in Reads
        BY <3>2, <4>1, ReadWanted
      <4>3. got.data = Stretch(got.resume, ring.head_seq)
        BY <4>2 DEF Wanted
      <4> HIDE DEF got
      <4>4. QED
        BY <3>1, <4>2, <4>3, StretchEmpty DEF TypeOK, Reads
    <3>4. pass.head <= ring.head_seq /\ pass.head \in Nat /\ ring.head_seq \in Nat
      BY DEF PassInv, PassPast, TypeOK
    <3>5. QED
      BY <3>2, <3>3, <3>4
  <2>4. QED
    BY <2>1, <2>2, <2>3 DEF PassedServed
<1>4. CASE EmitLag
  <2>1. fan'.emitted = TRUE
    BY <1>4 DEF EmitLag, TypeOK, Fans
  <2>2. fan'.pc \in {"pass", "emit"}
    BY <1>4 DEF EmitLag, TypeOK, Fans
  <2>3. QED
    BY <1>c, <2>1, <2>2
<1>5. CASE EmitData
  <2>1. fan'.emitted = TRUE
    BY <1>5 DEF EmitData, TypeOK, Fans
  <2>2. fan'.pc \in {"pass", "emit"}
    BY <1>5 DEF EmitData, TypeOK, Fans
  <2>3. QED
    BY <1>c, <2>1, <2>2
<1>6. CASE EndPass
  <2>1. CASE fan.emitted
    BY <1>6, <1>b, <2>1 DEF EndPass
  <2>2. CASE ~fan.emitted
    <3>1. \A s \in attached \cap pass.sessions : Passed(s)
      BY <1>6, <2>2 DEF EndPass, Passed
    <3>2. UNCHANGED <<pass, notify_cursor, attached>>
      BY <1>6, <2>2 DEF EndPass
    <3>3. QED
      BY <3>1, <3>2 DEF PassInv, PassedServed
  <2>3. QED
    BY <2>1, <2>2
<1>7. ASSUME NEW s \in Sessions, AttachLook(s) PROVE PassedServed'
  BY <1>7, <1>a DEF AttachLook
<1>8. CASE AttachAdd
  <2>1. attaching.sess \in Sessions /\ attaching.sess \notin pass.sessions
    BY <1>8 DEF AttachAdd, StreamInv, SessionsKnown, PassInv, PassPast
  <2>2. \A u \in Sessions \ {attaching.sess} : notify_cursor'[u] = notify_cursor[u]
    BY <1>8 DEF AttachAdd, TypeOK
  <2>3. UNCHANGED <<fan, pass>> /\ attached' = attached \cup {attaching.sess}
    BY <1>8 DEF AttachAdd
  <2>4. pass.sessions \subseteq Sessions
    BY DEF TypeOK
  <2>5. QED
    BY <2>1, <2>2, <2>3, <2>4 DEF PassInv, PassedServed, Passed
<1>9. ASSUME NEW s \in Sessions, Detach(s) PROVE PassedServed'
  BY <1>9, <1>a DEF Detach
<1>10. CASE UNCHANGED vars
  BY <1>10, <1>a DEF vars
<1>11. QED
  BY <1>1, <1>2, <1>3, <1>4, <1>5, <1>6, <1>7, <1>8, <1>9, <1>10 DEF Next

\* A sleeping fan-out task has served every session up to what the ring held
\* when it last sent anything and when its last pass began: whatever the
\* wakeup it can lose (`wait`, buffer.rs) costs, it is never more than what
\* came during one pass that found nothing.
THEOREM SleepSafe == Spec => []SleepMissesOnlyItsPass
<1>1. Init => PassInv
  <2> SUFFICES ASSUME Init PROVE PassInv
    OBVIOUS
  <2>1. pass.head = 0 /\ pass.sessions = {} /\ ring.head_seq = 0
    BY DEF Init, EmptyRing
  <2>2. QED
    BY <2>1 DEF PassInv, PassPast, PassedServed
<1>2. TypeOK /\ StreamInv /\ PassInv /\ [Next]_vars => PassInv'
  BY NextPassPast, NextPassedServed DEF PassInv
<1>3. PassInv => SleepMissesOnlyItsPass
  BY DEF PassInv, PassedServed, Passed, SleepMissesOnlyItsPass
<1>4. QED
  BY <1>1, <1>2, <1>3, StreamInvariant, PTL DEF Spec

-----------------------------------------------------------------------------
(* The closed form of `push` is its loop.                                  *)

\* A set of numbers has a least one.
LEMMA Least ==
  ASSUME NEW T \in SUBSET Nat, T # {}
  PROVE  \E x \in T : \A y \in T : x <= y
<1> DEFINE R == OpToRel(<, Nat)
<1>1. IsWellFoundedOn(R, Nat)
  BY NatLessThanWellFounded
<1>2. R = {ss \in Nat \X Nat : ss[1] < ss[2]}
  BY DEF OpToRel
<1> HIDE DEF R
<1>3. \E x \in T : \A y \in T : ~ (<<y, x>> \in R)
  BY <1>1, WFMin
<1>4. PICK x \in T : \A y \in T : ~ (<<y, x>> \in R)
  BY <1>3
<1>5. ASSUME NEW y \in T PROVE x <= y
  <2>1. x \in Nat /\ y \in Nat /\ (y < x => <<y, x>> \in R)
    BY <1>2
  <2>2. QED
    BY <2>1, <1>4
<1>6. QED
  BY <1>5

\* A stretch and the byte after it.
LEMMA StretchAppend ==
  ASSUME NEW lo \in Nat, NEW hi \in Nat, lo <= hi
  PROVE  Append(Stretch(lo, hi), hi) = Stretch(lo, hi + 1)
<1> DEFINE a == Stretch(lo, hi)
           b == Append(a, hi)
           c == Stretch(lo, hi + 1)
<1>1. /\ a \in Seq(Nat) /\ Len(a) = hi - lo
      /\ \A i \in 1 .. hi - lo : a[i] = lo + i - 1
  BY StretchSeq
<1>2. /\ c \in Seq(Nat) /\ Len(c) = (hi + 1) - lo
      /\ \A i \in 1 .. (hi + 1) - lo : c[i] = lo + i - 1
  BY StretchSeq
<1> HIDE DEF a, c
<1>3. /\ b \in Seq(Nat) /\ Len(b) = Len(a) + 1 /\ Len(b) = Len(c)
      /\ \A i \in 1 .. Len(a) : b[i] = a[i]
      /\ b[Len(a) + 1] = hi
  <2>1. /\ b \in Seq(Nat) /\ Len(b) = Len(a) + 1
        /\ \A i \in 1 .. Len(a) : b[i] = a[i]
        /\ b[Len(a) + 1] = hi
    BY <1>1, AppendProperties
  <2>2. QED
    BY <1>1, <1>2, <2>1
<1> HIDE DEF b
<1>4. ASSUME NEW i \in 1 .. Len(b) PROVE b[i] = c[i]
  <2>1. CASE i <= hi - lo
    BY <1>1, <1>2, <1>3, <2>1
  <2>2. CASE ~(i <= hi - lo)
    <3>1. i = Len(a) + 1 /\ i = (hi - lo) + 1
      BY <1>1, <1>2, <1>3, <2>2
    <3>2. b[i] = hi
      BY <1>3, <3>1
    <3>3. QED
      BY <1>2, <3>1, <3>2
  <2>3. QED
    BY <2>1, <2>2
<1>5. b = c
  BY <1>2, <1>3, <1>4, SeqEqual
<1>6. QED
  BY <1>5 DEF a, b, c

\* A stretch without its first byte.
LEMMA StretchTail ==
  ASSUME NEW lo \in Nat, NEW hi \in Nat, lo < hi
  PROVE  Tail(Stretch(lo, hi)) = Stretch(lo + 1, hi)
<1>1. SubSeq(Stretch(lo, hi), (lo + 1) - lo + 1, hi - lo) = Stretch(lo + 1, hi)
  BY StretchDrop
<1>2. Stretch(lo, hi) \in Seq(Nat) /\ Len(Stretch(lo, hi)) = hi - lo /\ (lo + 1) - lo + 1 = 2
  BY StretchSeq
<1>3. Stretch(lo, hi) # <<>>
  BY StretchEmpty
<1>4. Tail(Stretch(lo, hi)) = SubSeq(Stretch(lo, hi), 2, Len(Stretch(lo, hi)))
  BY <1>2, <1>3, TailIsSubSeq
<1>5. QED
  BY <1>1, <1>2, <1>4

\* The oldest byte that is kept of so many.
Oldest(total) == IF total > Capacity THEN total - Capacity ELSE 0

\* The ring after the first i turns of the loop, which leaves head_seq alone.
After(r, i) ==
  [buf |-> Stretch(Oldest(r.head_seq + i), r.head_seq + i),
   head_seq |-> r.head_seq, tail_seq |-> Oldest(r.head_seq + i)]

\* What the body of the loop makes of a full ring, and of one with room.
LEMMA ByteTaken ==
  ASSUME NEW buf, NEW head, NEW tail, NEW b,
         NEW r, r = [buf |-> buf, head_seq |-> head, tail_seq |-> tail]
  PROVE  /\ Len(buf) = Capacity =>
              PushByte(r, b) = [buf |-> Append(Tail(buf), b), head_seq |-> head, tail_seq |-> tail + 1]
         /\ Len(buf) # Capacity =>
              PushByte(r, b) = [buf |-> Append(buf, b), head_seq |-> head, tail_seq |-> tail]
<1> DEFINE full == Append(Tail(buf), b)
           more == Append(buf, b)
           next == tail + 1
           cut == [r EXCEPT !.buf = full]
<1>1. r.buf = buf /\ r.tail_seq = tail
  OBVIOUS
<1>2. PushByte(r, b) = IF Len(buf) = Capacity
                       THEN [r EXCEPT !.buf = full, !.tail_seq = next]
                       ELSE [r EXCEPT !.buf = more]
  BY <1>1 DEF PushByte
<1> HIDE DEF full, more, next
<1>3. cut = [buf |-> full, head_seq |-> head, tail_seq |-> tail]
  OBVIOUS
<1>4. [r EXCEPT !.buf = full, !.tail_seq = next] = [cut EXCEPT !.tail_seq = next]
  OBVIOUS
<1> HIDE DEF cut
<1>5. [cut EXCEPT !.tail_seq = next] = [buf |-> full, head_seq |-> head, tail_seq |-> next]
  BY <1>3
<1>6. [r EXCEPT !.buf = more] = [buf |-> more, head_seq |-> head, tail_seq |-> tail]
  OBVIOUS
<1>7. QED
  BY <1>2, <1>4, <1>5, <1>6 DEF full, more, next

\* One turn.
LEMMA TurnOfLoop ==
  ASSUME NEW r, Sound(r), NEW i \in Nat \ {0}
  PROVE  PushByte(After(r, i - 1), r.head_seq + i - 1) = After(r, i)
<1> DEFINE before == r.head_seq + (i - 1)
           lo == Oldest(before)
<1>1. /\ before \in Nat /\ r.head_seq + i = before + 1 /\ r.head_seq + i - 1 = before
      /\ Capacity \in Nat \ {0} /\ lo \in Nat /\ lo <= before
  BY CapacityPositive DEF Sound, Oldest
<1>2. After(r, i - 1) = [buf |-> Stretch(lo, before), head_seq |-> r.head_seq, tail_seq |-> lo]
  BY DEF After
<1>3. After(r, i) = [buf |-> Stretch(Oldest(before + 1), before + 1),
                     head_seq |-> r.head_seq, tail_seq |-> Oldest(before + 1)]
  BY <1>1 DEF After
<1>4. Len(Stretch(lo, before)) = before - lo
  BY <1>1, StretchSeq
<1>5. CASE before >= Capacity
  <2>1. before - lo = Capacity /\ Oldest(before + 1) = lo + 1 /\ lo < before
    BY <1>1, <1>5 DEF Oldest
  <2>2. Append(Tail(Stretch(lo, before)), before) = Stretch(lo + 1, before + 1)
    <3>1. lo + 1 \in Nat /\ lo + 1 <= before
      BY <1>1, <2>1
    <3> HIDE DEF lo, before
    <3>2. Tail(Stretch(lo, before)) = Stretch(lo + 1, before)
      BY <1>1, <2>1, StretchTail
    <3>3. Append(Stretch(lo + 1, before), before) = Stretch(lo + 1, before + 1)
      BY <1>1, <3>1, StretchAppend
    <3>4. QED
      BY <3>2, <3>3
  <2> HIDE DEF lo, before
  <2>3. PushByte(After(r, i - 1), before) =
          [buf |-> Append(Tail(Stretch(lo, before)), before), head_seq |-> r.head_seq,
           tail_seq |-> lo + 1]
    <3>1. Len(Stretch(lo, before)) = Capacity
      BY <1>4, <2>1
    <3>2. QED
      BY <1>2, <3>1, ByteTaken
  <2>4. QED
    BY <1>1, <1>3, <2>1, <2>2, <2>3
<1>6. CASE ~(before >= Capacity)
  <2>1. before - lo # Capacity /\ Oldest(before + 1) = lo /\ lo = 0
    BY <1>1, <1>6 DEF Oldest
  <2>2. Append(Stretch(lo, before), before) = Stretch(lo, before + 1)
    BY <1>1, StretchAppend
  <2> HIDE DEF lo, before
  <2>3. PushByte(After(r, i - 1), before) =
          [buf |-> Append(Stretch(lo, before), before), head_seq |-> r.head_seq, tail_seq |-> lo]
    <3>1. Len(Stretch(lo, before)) # Capacity
      BY <1>4, <2>1
    <3>2. QED
      BY SMTT(20), <1>2, <3>1, ByteTaken
  <2>4. QED
    BY <1>1, <1>3, <2>1, <2>2, <2>3
<1>7. QED
  BY <1>5, <1>6

\* The loop over n bytes, as a function of the turns taken.
Loop(r, n) ==
  LET bytes == Fresh(r, n)
      loop[i \in 0..n] == IF i = 0 THEN r ELSE PushByte(loop[i - 1], bytes[i])
  IN loop

\* Turn by turn it does what After says: there is a function that does, and the
\* first turn at which another differed from it would be a turn too early.
LEMMA LoopIsAfter ==
  ASSUME NEW r, Sound(r), NEW n \in Nat,
         r = [buf |-> r.buf, head_seq |-> r.head_seq, tail_seq |-> r.tail_seq]
  PROVE  Loop(r, n)[n] = After(r, n)
<1> DEFINE bytes == Fresh(r, n)
           IsLoop(f) == f = [i \in 0..n |-> IF i = 0 THEN r ELSE PushByte(f[i - 1], bytes[i])]
           w == [i \in 0..n |-> After(r, i)]
           loop == CHOOSE f : IsLoop(f)
<1>1. r.head_seq \in Nat /\ After(r, 0) = r
  BY DEF Sound, After, Oldest
<1>2. ASSUME NEW i \in 1..n PROVE bytes[i] = r.head_seq + i - 1 /\ i - 1 \in 0..n /\ i \in Nat \ {0}
  BY DEF Fresh
<1>3. ASSUME NEW i \in 0..n
      PROVE  w[i] = IF i = 0 THEN r ELSE PushByte(w[i - 1], bytes[i])
  <2>1. CASE i = 0
    BY <1>1, <2>1
  <2>2. CASE i # 0
    <3>1. i \in 1..n
      BY <2>2
    <3>2. w[i - 1] = After(r, i - 1) /\ w[i] = After(r, i) /\ bytes[i] = r.head_seq + i - 1
      BY <1>2, <3>1
    <3>3. PushByte(After(r, i - 1), r.head_seq + i - 1) = After(r, i)
      BY <1>2, <3>1, TurnOfLoop
    <3> HIDE DEF w, bytes
    <3>4. QED
      BY <2>2, <3>2, <3>3
  <2>3. QED
    BY <2>1, <2>2
<1>4. IsLoop(w)
  <2>1. w = [i \in 0..n |-> w[i]]
    OBVIOUS
  <2> HIDE DEF w, bytes
  <2>2. QED
    BY <1>3, <2>1
<1>5. IsLoop(loop)
  <2> HIDE DEF IsLoop, w
  <2>1. QED
    BY <1>4 DEF loop
<1>6. ASSUME NEW i \in 0..n
      PROVE  loop[i] = IF i = 0 THEN r ELSE PushByte(loop[i - 1], bytes[i])
  <2> HIDE DEF loop, bytes
  <2>1. QED
    BY <1>5
<1> HIDE DEF loop, w, bytes, IsLoop
<1> DEFINE Wrong == {i \in 0..n : loop[i] # w[i]}
<1>7. Wrong = {}
  <2>1. SUFFICES ASSUME Wrong # {} PROVE FALSE
    OBVIOUS
  <2>2. Wrong \in SUBSET Nat
    OBVIOUS
  <2> HIDE DEF Wrong
  <2>3. PICK i \in Wrong : \A j \in Wrong : i <= j
    BY <2>1, <2>2, Least
  <2>4. i \in 0..n /\ loop[i] # w[i]
    BY DEF Wrong
  <2>5. i # 0
    BY <1>3, <1>6, <2>4
  <2>6. i - 1 \in 0..n /\ ~(i <= i - 1)
    BY <2>4, <2>5
  <2>7. loop[i - 1] = w[i - 1]
    BY <2>3, <2>6 DEF Wrong
  <2>8. QED
    BY <1>3, <1>6, <2>4, <2>5, <2>7
<1>8. n \in 0..n /\ w[n] = After(r, n)
  BY DEF w
<1>9. loop[n] = After(r, n)
  BY <1>7, <1>8
<1>10. Loop(r, n) = loop
  BY DEF Loop, loop, IsLoop, bytes
<1>11. QED
  BY <1>9, <1>10

\* The model's one step for all the bytes of a push is the loop of the code (`push`,
\* buffer.rs), whatever the ring holds and however many they are.
THEOREM PushIsLoop == Spec => []PushIsBytewise
<1>1. TypeOK /\ StreamInv => PushIsBytewise
  <2> SUFFICES ASSUME TypeOK, StreamInv, NEW n \in 1..MaxChunk
               PROVE  Push(ring, Fresh(ring, n)) = [Loop(ring, n)[n] EXCEPT !.head_seq = @ + n]
    BY DEF PushIsBytewise, Loop
  <2>1. n \in Nat \ {0} /\ n \in Nat
    BY FanoutConstants
  <2>2. Sound(ring) /\ ring = [buf |-> ring.buf, head_seq |-> ring.head_seq, tail_seq |-> ring.tail_seq]
    BY DEF StreamInv, TypeOK
  <2>3. Loop(ring, n)[n] = After(ring, n)
    BY <2>1, <2>2, LoopIsAfter
  <2> DEFINE pushed == Push(ring, Fresh(ring, n))
             total == ring.head_seq + n
  <2>4. Sound(pushed) /\ pushed.head_seq = total
    BY <2>1, <2>2, PushSound
  <2>5. pushed = [buf |-> pushed.buf, head_seq |-> pushed.head_seq, tail_seq |-> pushed.tail_seq]
    BY DEF Push
  <2> HIDE DEF pushed
  <2>6. pushed.tail_seq = Oldest(total) /\ pushed.buf = Stretch(Oldest(total), total)
    BY <2>4 DEF Sound, Oldest
  <2>7. [After(ring, n) EXCEPT !.head_seq = @ + n] =
          [buf |-> Stretch(Oldest(total), total), head_seq |-> total, tail_seq |-> Oldest(total)]
    BY DEF After
  <2>8. pushed = [Loop(ring, n)[n] EXCEPT !.head_seq = @ + n]
    BY <2>3, <2>4, <2>5, <2>6, <2>7
  <2>9. QED
    BY <2>8 DEF pushed
<1>2. QED
  BY <1>1, StreamInvariant, PTL
=============================================================================
