-------------------------- MODULE RingBufferProofs --------------------------
(***************************************************************************)
(* What the operators of the ring buffer compute, for every capacity and   *)
(* pushes of any size.                                                     *)
(***************************************************************************)
EXTENDS RingBuffer, SequenceTheorems, TLAPS

-----------------------------------------------------------------------------
(* The bytes of a stretch of output, and the ring as such a stretch.       *)

\* The bytes numbered lo to hi - 1.
Stretch(lo, hi) == [i \in 1 .. hi - lo |-> lo + i - 1]

\* The ring holds the last Capacity bytes of the output, in order.
Sound(r) ==
  /\ r.head_seq \in Nat /\ r.tail_seq \in Nat
  /\ r.tail_seq = IF r.head_seq > Capacity THEN r.head_seq - Capacity ELSE 0
  /\ r.buf = Stretch(r.tail_seq, r.head_seq)

\* A stretch is a sequence of numbers of the right length.
LEMMA StretchSeq ==
  ASSUME NEW lo \in Nat, NEW hi \in Nat, lo <= hi
  PROVE  /\ Stretch(lo, hi) \in Seq(Nat)
         /\ Len(Stretch(lo, hi)) = hi - lo
         /\ \A i \in 1 .. hi - lo : Stretch(lo, hi)[i] = lo + i - 1
<1>1. Stretch(lo, hi) \in [1 .. hi - lo -> Nat]
  BY DEF Stretch
<1>2. hi - lo \in Nat
  OBVIOUS
<1>3. QED
  BY <1>1, <1>2 DEF Stretch

\* Two stretches that meet make one.
LEMMA StretchConcat ==
  ASSUME NEW lo \in Nat, NEW mid \in Nat, NEW hi \in Nat, lo <= mid, mid <= hi
  PROVE  Stretch(lo, mid) \o Stretch(mid, hi) = Stretch(lo, hi)
<1> DEFINE a == Stretch(lo, mid)
           b == Stretch(mid, hi)
           c == Stretch(lo, hi)
<1>1. /\ a \in Seq(Nat) /\ Len(a) = mid - lo
      /\ \A i \in 1 .. mid - lo : a[i] = lo + i - 1
  BY StretchSeq
<1>2. /\ b \in Seq(Nat) /\ Len(b) = hi - mid
      /\ \A i \in 1 .. hi - mid : b[i] = mid + i - 1
  BY StretchSeq
<1>3. /\ c \in Seq(Nat) /\ Len(c) = hi - lo
      /\ \A i \in 1 .. hi - lo : c[i] = lo + i - 1
  BY StretchSeq
<1> HIDE DEF a, b, c
<1>4. /\ a \o b \in Seq(Nat) /\ Len(a \o b) = Len(a) + Len(b)
      /\ \A i \in 1 .. Len(a) + Len(b) :
           (a \o b)[i] = IF i <= Len(a) THEN a[i] ELSE b[i - Len(a)]
  BY <1>1, <1>2, ConcatProperties
<1>a. Len(a) + Len(b) = hi - lo
  BY <1>1, <1>2
<1>5. ASSUME NEW i \in 1 .. hi - lo PROVE (a \o b)[i] = c[i]
  <2>1. CASE i <= mid - lo
    BY <1>1, <1>3, <1>4, <1>a, <2>1
  <2>2. CASE i > mid - lo
    <3>1. (a \o b)[i] = b[i - (mid - lo)]
      BY SMTT(20), <1>1, <1>4, <1>a, <2>2
    <3>2. i - (mid - lo) \in 1 .. hi - mid
      BY <2>2
    <3>3. QED
      BY <1>2, <1>3, <3>1, <3>2
  <2>3. i \in Int /\ mid - lo \in Int
    OBVIOUS
  <2>4. i <= mid - lo \/ i > mid - lo
    BY <2>3
  <2>5. QED
    BY <2>1, <2>2, <2>4, Zenon
<1>b. Len(a \o b) = hi - lo /\ Len(c) = hi - lo
  BY <1>3, <1>4, <1>a
<1>6. a \o b = c
  BY <1>3, <1>4, <1>b, <1>5, SeqEqual
<1>7. QED
  BY <1>6 DEF a, b, c

\* A stretch without its first bytes is a stretch.
LEMMA StretchDrop ==
  ASSUME NEW lo \in Nat, NEW mid \in Nat, NEW hi \in Nat, lo <= mid, mid <= hi
  PROVE  SubSeq(Stretch(lo, hi), mid - lo + 1, hi - lo) = Stretch(mid, hi)
<1> DEFINE from == mid - lo + 1
           to == hi - lo
           c == Stretch(lo, hi)
           d == Stretch(mid, hi)
           e == SubSeq(c, from, to)
<1>1. /\ c \in Seq(Nat) /\ Len(c) = hi - lo
      /\ \A i \in 1 .. hi - lo : c[i] = lo + i - 1
  BY StretchSeq
<1>2. /\ d \in Seq(Nat) /\ Len(d) = hi - mid
      /\ \A i \in 1 .. hi - mid : d[i] = mid + i - 1
  BY StretchSeq
<1> HIDE DEF c, d
<1>3. /\ e \in Seq(Nat)
      /\ Len(e) = IF from <= to THEN to - from + 1 ELSE 0
      /\ \A i \in 1 .. to - from + 1 : e[i] = c[from + i - 1]
  <2>1. \A i \in from .. to : c[i] \in Nat
    BY <1>1
  <2>2. from \in Int /\ to \in Int
    OBVIOUS
  <2>3. QED
    BY <2>1, <2>2, SubSeqProperties
<1> HIDE DEF e
<1>4. Len(e) = hi - mid /\ to - from + 1 = hi - mid
  BY <1>3
<1>5. ASSUME NEW i \in 1 .. hi - mid PROVE e[i] = d[i]
  <2>1. e[i] = c[from + i - 1] /\ d[i] = mid + i - 1
    BY <1>2, <1>3, <1>4
  <2>2. from + i - 1 \in 1 .. hi - lo /\ lo + (from + i - 1) - 1 = mid + i - 1
    OBVIOUS
  <2>3. QED
    BY <1>1, <2>1, <2>2
<1>6. e = d
  BY <1>2, <1>3, <1>4, <1>5, SeqEqual
<1>7. QED
  BY <1>6 DEF c, d, e

\* The first bytes of a stretch are a stretch, and so is what is left of it.
LEMMA StretchTake ==
  ASSUME NEW lo \in Nat, NEW hi \in Nat, lo <= hi, NEW k \in 0 .. hi - lo
  PROVE  SubSeq(Stretch(lo, hi), 1, k) = Stretch(lo, lo + k)
<1> DEFINE mid == lo + k
           c == Stretch(lo, hi)
           d == Stretch(lo, mid)
           e == SubSeq(c, 1, k)
<1>0. mid \in Nat /\ lo <= mid /\ mid <= hi /\ mid - lo = k /\ k \in Nat
  OBVIOUS
<1> HIDE DEF mid
<1>1. /\ c \in Seq(Nat) /\ Len(c) = hi - lo
      /\ \A i \in 1 .. hi - lo : c[i] = lo + i - 1
  BY StretchSeq
<1>2. /\ d \in Seq(Nat) /\ Len(d) = k
      /\ \A i \in 1 .. k : d[i] = lo + i - 1
  BY <1>0, StretchSeq
<1> HIDE DEF c, d
<1>3. /\ e \in Seq(Nat) /\ Len(e) = k
      /\ \A i \in 1 .. k : e[i] = c[i]
  <2>1. \A i \in 1 .. k : c[i] \in Nat
    BY <1>0, <1>1
  <2>2. QED
    BY <1>0, <1>1, <2>1, SubSeqProperties
<1>4. \A i \in 1 .. k : e[i] = d[i]
  BY <1>0, <1>1, <1>2, <1>3
<1>5. e = d
  BY <1>2, <1>3, <1>4, SeqEqual
<1>6. QED
  BY <1>5 DEF c, d, e, mid

\* What a sequence looks like to which a stretch was added.
LEMMA StretchAdded ==
  ASSUME NEW old \in Seq(Nat), NEW lo \in Nat, NEW hi \in Nat, lo <= hi
  PROVE  LET new == old \o Stretch(lo, hi) IN
         /\ new \in Seq(Nat) /\ Len(new) = Len(old) + (hi - lo)
         /\ \A i \in 1 .. Len(old) : new[i] = old[i]
         /\ \A i \in Len(old) + 1 .. Len(new) : new[i] = lo + (i - Len(old)) - 1
<1> DEFINE b == Stretch(lo, hi)
           m == Len(old)
<1>1. /\ b \in Seq(Nat) /\ Len(b) = hi - lo
      /\ \A i \in 1 .. hi - lo : b[i] = lo + i - 1
  BY StretchSeq
<1>2. m \in Nat
  OBVIOUS
<1> HIDE DEF b
<1>3. /\ old \o b \in Seq(Nat) /\ Len(old \o b) = m + Len(b)
      /\ \A i \in 1 .. m + Len(b) : (old \o b)[i] = IF i <= m THEN old[i] ELSE b[i - m]
  BY <1>1, ConcatProperties
<1> HIDE DEF m
<1>4. \A i \in 1 .. m : (old \o b)[i] = old[i]
  BY <1>1, <1>2, <1>3
<1>5. ASSUME NEW i \in m + 1 .. m + (hi - lo) PROVE (old \o b)[i] = lo + (i - m) - 1
  <2>1. i - m \in 1 .. hi - lo /\ ~(i <= m) /\ i \in 1 .. m + Len(b)
    BY <1>1, <1>2
  <2>2. (old \o b)[i] = b[i - m]
    BY <1>3, <2>1
  <2>3. QED
    BY <1>1, <2>1, <2>2
<1>6. QED
  BY <1>1, <1>3, <1>4, <1>5 DEF b, m

\* What a sequence looks like to which the first bytes of a stretch were added: as it
\* was, and then bytes of the stretch in order.
LEMMA PartAdded ==
  ASSUME NEW old \in Seq(Nat), NEW lo \in Nat, NEW hi \in Nat, lo <= hi,
         NEW k \in 0 .. hi - lo
  PROVE  LET new == old \o SubSeq(Stretch(lo, hi), 1, k) IN
         /\ new \in Seq(Nat) /\ Len(new) >= Len(old)
         /\ \A i \in 1 .. Len(old) : new[i] = old[i]
         /\ \A i \in Len(old) + 1 .. Len(new) : new[i] \in lo .. lo + k - 1
         /\ \A i, j \in Len(old) + 1 .. Len(new) : i < j => new[i] < new[j]
<1> DEFINE mid == lo + k
           m == Len(old)
           new == old \o Stretch(lo, mid)
           n == Len(new)
<1>1. mid \in Nat /\ lo <= mid /\ m \in Nat
  OBVIOUS
<1>2. SubSeq(Stretch(lo, hi), 1, k) = Stretch(lo, mid)
  BY StretchTake
<1> HIDE DEF mid
<1>3. /\ new \in Seq(Nat) /\ Len(new) = Len(old) + (mid - lo)
      /\ \A i \in 1 .. Len(old) : new[i] = old[i]
      /\ \A i \in Len(old) + 1 .. Len(new) : new[i] = lo + (i - Len(old)) - 1
  BY <1>1, StretchAdded
<1> HIDE DEF new
<1>4. /\ n = m + (mid - lo)
      /\ \A i \in m + 1 .. n : new[i] = lo + (i - m) - 1
  BY <1>3
<1> HIDE DEF m, n
<1>5. /\ n >= m
      /\ \A i \in m + 1 .. n : new[i] \in lo .. mid - 1
      /\ \A i, j \in m + 1 .. n : i < j => new[i] < new[j]
  BY <1>1, <1>4
<1>6. old \o SubSeq(Stretch(lo, hi), 1, k) = new
  BY <1>2 DEF new
<1>7. \A x \in lo .. mid - 1 : x \in lo .. lo + k - 1
  BY DEF mid
<1>8. QED
  BY <1>3, <1>5, <1>6, <1>7 DEF m, n

-----------------------------------------------------------------------------
(* The operators of RingBuffer.                                            *)

\* The empty ring is sound.
LEMMA EmptySound == Sound(EmptyRing)
<1>1. Stretch(0, 0) \in Seq(Nat) /\ Len(Stretch(0, 0)) = 0
  BY StretchSeq
<1>2. Stretch(0, 0) = <<>>
  BY <1>1, EmptySeq
<1>3. QED
  BY <1>2, CapacityPositive DEF Sound, EmptyRing

\* A push of any size, larger than the ring even, keeps the ring sound and
\* counts its bytes.
LEMMA PushSound ==
  ASSUME NEW r, Sound(r), NEW n \in Nat \ {0}
  PROVE  /\ Sound(Push(r, Fresh(r, n)))
         /\ Push(r, Fresh(r, n)).head_seq = r.head_seq + n
<1> DEFINE bytes == Fresh(r, n)
           all == r.buf \o bytes
           lost == IF Len(all) > Capacity THEN Len(all) - Capacity ELSE 0
           head == r.head_seq
           tail == r.tail_seq
           next == head + n
           first == tail + lost
<1>1. /\ head \in Nat /\ tail \in Nat /\ next \in Nat
      /\ tail <= head /\ head <= next /\ tail <= next /\ next - head = n
      /\ Capacity \in Nat \ {0}
      /\ tail = IF head > Capacity THEN head - Capacity ELSE 0
  BY CapacityPositive DEF Sound
<1>2. bytes = Stretch(head, next) /\ r.buf = Stretch(tail, head)
  BY <1>1 DEF Fresh, Stretch, Sound
<1>3. Push(r, bytes) =
        [buf |-> SubSeq(all, lost + 1, Len(all)),
         head_seq |-> head + Len(bytes), tail_seq |-> first]
  BY DEF Push
<1>4. all = r.buf \o bytes /\ next = head + n
  OBVIOUS
<1> HIDE DEF head, tail, next, all, bytes
<1>5. all = Stretch(tail, next) /\ Len(all) = next - tail /\ Len(bytes) = n
  <2>1. Stretch(tail, head) \o Stretch(head, next) = Stretch(tail, next)
    BY ZenonT(40), <1>1, StretchConcat
  <2>2. Len(Stretch(tail, next)) = next - tail /\ Len(Stretch(head, next)) = next - head
    BY <1>1, StretchSeq
  <2>3. QED
    BY <1>1, <1>2, <1>4, <2>1, <2>2
<1>6. /\ lost = IF next - tail > Capacity THEN next - tail - Capacity ELSE 0
      /\ first = tail + lost
  BY <1>5
<1> HIDE DEF lost, first
<1>7. /\ lost \in Nat /\ first \in Nat /\ first <= next
      /\ first = IF next > Capacity THEN next - Capacity ELSE 0
  <2>1. CASE next - tail > Capacity
    BY <1>1, <1>6, <2>1
  <2>2. CASE ~(next - tail > Capacity)
    BY <1>1, <1>6, <2>2
  <2>3. QED
    BY <2>1, <2>2
<1>8. SubSeq(all, lost + 1, Len(all)) = Stretch(first, next)
  <2>1. SubSeq(Stretch(tail, next), lost + 1, next - tail) = Stretch(first, next)
    <3>1. lost + 1 = first - tail + 1 /\ tail <= first
      BY <1>1, <1>6, <1>7
    <3>2. tail \in Nat /\ first \in Nat /\ next \in Nat /\ first <= next
      BY <1>1, <1>7
    <3>3. SubSeq(Stretch(tail, next), first - tail + 1, next - tail) = Stretch(first, next)
      BY ONLY <3>1, <3>2, StretchDrop
    <3>4. QED
      BY <3>1, <3>3
  <2>2. QED
    BY <1>5, <2>1
<1>9. Push(r, bytes) = [buf |-> Stretch(first, next), head_seq |-> next, tail_seq |-> first]
  BY <1>3, <1>4, <1>5, <1>8
<1>10. Sound(Push(r, bytes)) /\ Push(r, bytes).head_seq = next
  BY <1>1, <1>7, <1>9 DEF Sound
<1>11. QED
  BY <1>10 DEF head, next, bytes

\* What is read begins where it was asked for, or after a lag up to the
\* oldest byte, and goes to the newest.
Wanted(r, from, got) ==
  /\ got.lag <=> from < r.tail_seq
  /\ got.resume = IF got.lag THEN r.tail_seq ELSE from
  /\ got.cursor = r.head_seq
  /\ got.data = Stretch(got.resume, got.cursor)

\* read_from serves what the ring holds from any position, and nothing from a
\* position the ring has not reached.
LEMMA ReadWanted ==
  ASSUME NEW r, Sound(r), NEW from \in Nat
  PROVE  /\ ReadFrom(r, from) \in Reads
         /\ from >= r.head_seq => ReadFrom(r, from).data = <<>> /\ ~ReadFrom(r, from).lag
         /\ from < r.head_seq => /\ Wanted(r, from, ReadFrom(r, from))
                                 /\ ReadFrom(r, from).resume < r.head_seq
<1> DEFINE head == r.head_seq
           tail == r.tail_seq
           resume == IF from < tail THEN tail ELSE from
           skip == resume - tail
           got == ReadFrom(r, from)
<1>1. /\ head \in Nat /\ tail \in Nat /\ tail <= head
      /\ head > 0 => tail < head
      /\ r.buf = Stretch(tail, head)
  BY CapacityPositive DEF Sound
<1>2. got = IF from >= head
            THEN [data |-> <<>>, resume |-> from, cursor |-> from, lag |-> FALSE]
            ELSE [data |-> SubSeq(r.buf, skip + 1, head - tail),
                  resume |-> resume, cursor |-> head, lag |-> from < tail]
  BY DEF ReadFrom
<1>3. ASSUME got.lag <=> from < tail, got.resume = resume, got.cursor = head,
             got.data = Stretch(resume, head)
      PROVE  Wanted(r, from, got)
  BY <1>3 DEF Wanted
<1>4. /\ resume = IF from < tail THEN tail ELSE from
      /\ skip = resume - tail
  OBVIOUS
<1> HIDE DEF head, tail, got, resume, skip
<1>5. CASE from >= head
  <2>1. got = [data |-> <<>>, resume |-> from, cursor |-> from, lag |-> FALSE]
    BY <1>2, <1>5
  <2>2. got \in Reads
    BY <2>1 DEF Reads
  <2>3. QED
    BY <1>1, <1>5, <2>1, <2>2 DEF head, got
<1>6. CASE from < head
  <2>1. /\ resume \in Nat /\ skip \in Nat /\ resume < head
        /\ resume = tail + skip /\ resume <= head
    BY <1>1, <1>4, <1>6
  <2>2. SubSeq(Stretch(tail, head), skip + 1, head - tail) = Stretch(resume, head)
    <3>1. skip + 1 = resume - tail + 1 /\ tail <= resume
      BY <1>1, <1>4, <2>1
    <3>2. SubSeq(Stretch(tail, head), resume - tail + 1, head - tail) = Stretch(resume, head)
      BY <1>1, <2>1, <3>1, StretchDrop
    <3>3. QED
      BY <3>1, <3>2
  <2>3. ~(from >= head)
    BY <1>1, <1>6
  <2>4. got = [data |-> Stretch(resume, head), resume |-> resume, cursor |-> head,
               lag |-> from < tail]
    BY <1>1, <1>2, <2>1, <2>2, <2>3
  <2>5. /\ got.resume = resume /\ got.cursor = head /\ got.data = Stretch(resume, head)
    BY <2>4
  <2>6. got.lag <=> from < tail
    BY <2>4, Zenon
  <2>7. Wanted(r, from, got) /\ got.resume < head
    BY <1>3, <2>1, <2>5, <2>6
  <2>8. Stretch(resume, head) \in Seq(Nat)
    BY <1>1, <2>1, StretchSeq
  <2>9. ASSUME from < tail PROVE got \in Reads
    <3>1. got = [data |-> Stretch(resume, head), resume |-> resume, cursor |-> head,
                 lag |-> TRUE]
      BY <2>4, <2>9
    <3>2. QED
      BY <1>1, <2>1, <2>8, <3>1 DEF Reads
  <2>10. ASSUME ~(from < tail) PROVE got \in Reads
    <3>1. got = [data |-> Stretch(resume, head), resume |-> resume, cursor |-> head,
                 lag |-> FALSE]
      <4>1. (from < tail) = FALSE
        BY <2>10
      <4>2. QED
        BY <2>4, <4>1, Zenon
    <3>2. QED
      BY <1>1, <2>1, <2>8, <3>1 DEF Reads
  <2>11. QED
    BY <2>3, <2>7, <2>9, <2>10 DEF got, head
<1>7. QED
  BY <1>1, <1>5, <1>6 DEF head

\* A stretch that ends where it begins is nothing.
LEMMA StretchNothing ==
  ASSUME NEW n \in Nat
  PROVE  Stretch(n, n) = <<>>
<1>1. Stretch(n, n) \in Seq(Nat) /\ Len(Stretch(n, n)) = 0
  BY StretchSeq
<1>2. QED
  BY <1>1, EmptySeq

\* A stretch is empty only if it ends where it begins.
LEMMA StretchEmpty ==
  ASSUME NEW lo \in Nat, NEW hi \in Nat, lo < hi
  PROVE  Stretch(lo, hi) # <<>>
<1>1. Len(Stretch(lo, hi)) = hi - lo
  BY StretchSeq
<1>2. Len(<<>>) = 0
  OBVIOUS
<1>3. QED
  BY <1>1, <1>2

\* The ring's part of the type follows from its soundness.
LEMMA SoundType ==
  ASSUME NEW r, Sound(r),
         r = [buf |-> r.buf, head_seq |-> r.head_seq, tail_seq |-> r.tail_seq]
  PROVE  /\ r \in [buf: Seq(Nat), head_seq: Nat, tail_seq: Nat]
         /\ Len(r.buf) <= Capacity
<1>1. /\ r.head_seq \in Nat /\ r.tail_seq \in Nat
      /\ r.tail_seq <= r.head_seq
      /\ r.head_seq - r.tail_seq <= Capacity
  BY CapacityPositive DEF Sound
<1>2. r.buf \in Seq(Nat) /\ Len(r.buf) = r.head_seq - r.tail_seq
  BY <1>1, StretchSeq DEF Sound
<1>3. QED
  BY <1>1, <1>2
=============================================================================
