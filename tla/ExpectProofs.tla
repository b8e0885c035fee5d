---------------------------- MODULE ExpectProofs ----------------------------
(***************************************************************************)
(* What `send`, `expect` and `run` promise of their matches, for rings,    *)
(* patterns, texts and numbers of sessions of any size.                    *)
(***************************************************************************)
EXTENDS Expect, RingBufferProofs, WellFoundedInduction

-----------------------------------------------------------------------------
(* Numbers.  The induction theorems of the library have an operator for a  *)
(* parameter; this one has a set.                                          *)

\* A set of numbers has a least one.
LEMMA Least ==
  ASSUME NEW T \in SUBSET Nat, T # {}
  PROVE  Min(T) \in T /\ \A y \in T : Min(T) <= y
<1> DEFINE R == OpToRel(<, Nat)
<1>1. IsWellFoundedOn(R, Nat)
  BY NatLessThanWellFounded
<1>2. R = {ss \in Nat \X Nat : ss[1] < ss[2]}
  BY DEF OpToRel
<1> HIDE DEF R
<1>3. \E x \in T : \A y \in T : ~ (<<y, x>> \in R)
  BY <1>1, WFMin
<1>4. PICK x \in T : \A y \in T : ~ (<<y, x>> \in R)
  BY <1>3
<1>5. ASSUME NEW y \in T PROVE x <= y
  <2>1. x \in Nat /\ y \in Nat /\ (y < x => <<y, x>> \in R)
    BY <1>2
  <2>2. QED
    BY <2>1, <1>4
<1>6. QED
  BY <1>5 DEF Min

\* What holds of 0, and of the next number whenever it holds of one, holds of
\* all.
LEMMA Induction ==
  ASSUME NEW S \in SUBSET Nat, 0 \in S, \A n \in S : n + 1 \in S
  PROVE  S = Nat
<1> DEFINE T == Nat \ S
<1>1. SUFFICES ASSUME T # {} PROVE FALSE
  OBVIOUS
<1> DEFINE x == Min(T)
<1>2. x \in T /\ \A y \in T : x <= y
  BY <1>1, Least
<1> HIDE DEF x
<1>3. x \in Nat /\ x # 0 /\ x - 1 \in Nat
  BY <1>2
<1>4. x - 1 \in S
  BY <1>2, <1>3
<1>5. (x - 1) + 1 \in S /\ (x - 1) + 1 = x
  BY <1>3, <1>4
<1>6. QED
  BY <1>2, <1>5

-----------------------------------------------------------------------------
(* Escape sequences.                                                       *)

StripState == [mode : {"text", "esc", "csi"}, out : Seq(Nat)]
StripStart == [mode |-> "text", out |-> <<>>]

\* A byte is kept or goes.
LEMMA StripByteSound ==
  ASSUME NEW st \in StripState, NEW n \in Nat
  PROVE  /\ StripByte(st, n) \in StripState
         /\ StripByte(st, n).out = st.out \/ StripByte(st, n).out = Append(st.out, n)
<1>1. PICK mode \in {"text", "esc", "csi"}, out \in Seq(Nat) : st = [mode |-> mode, out |-> out]
  BY DEF StripState
<1>2. Append(out, n) \in Seq(Nat)
  OBVIOUS
<1>3. CASE mode = "text"
  BY <1>1, <1>2, <1>3 DEF StripByte, StripState
<1>4. CASE mode = "esc"
  BY <1>1, <1>2, <1>4 DEF StripByte, StripState
<1>5. CASE mode = "csi"
  BY <1>1, <1>2, <1>5 DEF StripByte, StripState
<1>6. QED
  BY <1>3, <1>4, <1>5

\* What FoldLeft goes by.
Folds(it, text, S) ==
  it = [s \in SUBSET S |->
          IF s = {} THEN StripStart
          ELSE LET x == CHOOSE x \in s : \A y \in s : x >= y IN StripByte(it[s \ {x}], text[x])]

\* It exists.
LEMMA FoldExists ==
  ASSUME NEW text, NEW n \in Nat
  PROVE  \E it : Folds(it, text, 1..n)
<1> DEFINE S == {k \in Nat : \E it : Folds(it, text, 1..k)}
<1>1. 0 \in S
  <2> DEFINE it == [s \in SUBSET {} |-> StripStart]
  <2>1. 1..0 = {} /\ \A s \in SUBSET {} : s = {}
    OBVIOUS
  <2>2. Folds(it, text, {})
    BY <2>1 DEF Folds
  <2> HIDE DEF it
  <2>3. QED
    BY <2>1, <2>2
<1>2. ASSUME NEW k \in S PROVE k + 1 \in S
  <2>1. PICK it : Folds(it, text, 1..k)
    BY <1>2
  <2>2. k \in Nat /\ k + 1 \in Nat
    BY <1>2
  <2> DEFINE D == SUBSET (1 .. k + 1)
             jt == [s \in D |-> IF k + 1 \in s THEN StripByte(it[s \ {k + 1}], text[k + 1]) ELSE it[s]]
             top(s) == CHOOSE x \in s : \A y \in s : x >= y
  <2>3. ASSUME NEW s \in D
        PROVE  jt[s] = IF s = {} THEN StripStart ELSE StripByte(jt[s \ {top(s)}], text[top(s)])
    <3>1. CASE s = {}
      <4>1. k + 1 \notin s /\ s \in SUBSET (1..k)
        BY <3>1
      <4>2. jt[s] = it[s]
        BY <4>1
      <4>3. it[s] = StripStart
        BY <2>1, <3>1, <4>1 DEF Folds
      <4>4. QED
        BY <3>1, <4>2, <4>3
    <3>2. CASE k + 1 \in s
      <4>1. \A y \in s : y \in Nat /\ k + 1 >= y
        BY <2>2
      <4>2. top(s) = k + 1
        <5>1. \E x \in s : \A y \in s : x >= y
          BY <3>2, <4>1
        <5>2. top(s) \in s /\ \A y \in s : top(s) >= y
          BY <5>1
        <5>3. top(s) >= k + 1 /\ top(s) \in Nat /\ k + 1 >= top(s)
          BY <3>2, <4>1, <5>2
        <5>4. QED
          BY <2>2, <5>3
      <4>3. s \ {k + 1} \in D /\ k + 1 \notin s \ {k + 1}
        OBVIOUS
      <4>4. jt[s \ {k + 1}] = it[s \ {k + 1}]
        BY <4>3
      <4>5. jt[s] = StripByte(it[s \ {k + 1}], text[k + 1])
        BY <3>2
      <4>6. s # {}
        BY <3>2
      <4> HIDE DEF jt, top
      <4>7. QED
        BY <4>2, <4>4, <4>5, <4>6
    <3>3. CASE k + 1 \notin s /\ s # {}
      <4>1. s \in SUBSET (1..k)
        BY <2>2, <3>3
      <4>2. jt[s] = it[s]
        BY <3>3
      <4>3. it[s] = StripByte(it[s \ {top(s)}], text[top(s)])
        BY <2>1, <3>3, <4>1 DEF Folds
      <4>4. s \ {top(s)} \in D /\ k + 1 \notin s \ {top(s)}
        BY <3>3
      <4> HIDE DEF top
      <4>5. jt[s \ {top(s)}] = it[s \ {top(s)}]
        BY <4>4
      <4> HIDE DEF jt
      <4>6. QED
        BY <3>3, <4>2, <4>3, <4>5
    <3>4. QED
      BY <3>1, <3>2, <3>3
  <2>4. jt = [s \in D |-> IF s = {} THEN StripStart ELSE StripByte(jt[s \ {top(s)}], text[top(s)])]
    <3>1. jt = [s \in D |-> jt[s]]
      OBVIOUS
    <3> HIDE DEF jt, top, D
    <3>2. QED
      BY <2>3, <3>1
  <2>5. Folds(jt, text, 1 .. k + 1)
    <3> HIDE DEF jt
    <3>1. QED
      BY <2>4 DEF Folds
  <2> HIDE DEF jt
  <2>6. QED
    BY <2>2, <2>5
<1>3. S = Nat
  <2>1. S \in SUBSET Nat
    OBVIOUS
  <2> HIDE DEF S
  <2>2. QED
    BY <1>1, <1>2, <2>1, Induction
<1>4. QED
  BY <1>3

\* strip_ansi_bytes goes through the text byte by byte.
Stripping(st, text) ==
  /\ st \in [0..Len(text) -> StripState]
  /\ st[0] = StripStart
  /\ \A k \in 1..Len(text) : st[k] = StripByte(st[k - 1], text[k])
  /\ StripAnsi(text) = st[Len(text)].out

LEMMA StripSteps ==
  ASSUME NEW text \in Seq(Nat)
  PROVE  \E st : Stripping(st, text)
<1> DEFINE n == Len(text)
<1>1. n \in Nat /\ DOMAIN text = 1..n /\ \A k \in 1..n : text[k] \in Nat
  OBVIOUS
<1> HIDE DEF n
<1>2. \E it : Folds(it, text, 1..n)
  BY <1>1, FoldExists
<1>3. \E it : Folds(it, text, 1..n) /\ StripAnsi(text) = it[1..n].out
  <2>1. \E it : Folds(it, text, DOMAIN text)
    BY <1>1, <1>2
  <2>2. \E it : Folds(it, text, DOMAIN text) /\ StripAnsi(text) = it[DOMAIN text].out
    BY <2>1 DEF StripAnsi, FoldLeft, MapThenFoldSet, Max, Folds, StripStart
  <2>3. QED
    BY <1>1, <2>2
<1>4. PICK it : Folds(it, text, 1..n) /\ StripAnsi(text) = it[1..n].out
  BY <1>3
<1> DEFINE st == [k \in 0..n |-> it[1..k]]
<1>5. st[0] = StripStart
  <2>1. 1..0 = {} /\ {} \in SUBSET (1..n)
    OBVIOUS
  <2>2. it[{}] = StripStart
    BY <1>4, <2>1 DEF Folds
  <2>3. QED
    BY <1>1, <2>1, <2>2
<1>6. ASSUME NEW k \in 1..n PROVE st[k] = StripByte(st[k - 1], text[k])
  <2> DEFINE s == 1..k
             x == CHOOSE x \in s : \A y \in s : x >= y
  <2>1. s \in SUBSET (1..n) /\ s # {} /\ k \in s /\ k - 1 \in 0..n
    <3>1. k \in Nat /\ k >= 1 /\ k <= n
      BY <1>1
    <3>2. \A y \in s : y \in 1..n
      BY <1>1, <3>1
    <3>3. k \in s /\ k - 1 \in 0..n
      BY <1>1, <3>1
    <3> HIDE DEF s
    <3>4. QED
      BY <3>2, <3>3
  <2>2. x = k
    <3>1. \A y \in s : k >= y
      OBVIOUS
    <3>2. \E z \in s : \A y \in s : z >= y
      BY <2>1, <3>1
    <3>3. x \in s /\ \A y \in s : x >= y
      BY <3>2
    <3> HIDE DEF x
    <3>4. QED
      BY <2>1, <3>1, <3>3
  <2>3. it[s] = StripByte(it[s \ {x}], text[x])
    BY <1>4, <2>1 DEF Folds
  <2>4. s \ {k} = 1 .. k - 1
    BY <1>1
  <2>5. st[k] = it[s] /\ st[k - 1] = it[1 .. k - 1]
    BY <1>1, <2>1
  <2> HIDE DEF x, st, s
  <2>6. QED
    BY <2>2, <2>3, <2>4, <2>5
<1>7. st = [k \in 0..n |-> st[k]] /\ StripAnsi(text) = st[n].out
  BY <1>1, <1>4
<1> HIDE DEF st
<1>8. \A k \in 0..n : st[k] \in StripState
  <2> DEFINE S == {k \in Nat : k <= n => st[k] \in StripState}
  <2>1. 0 \in S
    <3>1. <<>> \in Seq(Nat)
      OBVIOUS
    <3>2. StripStart \in StripState
      BY <3>1 DEF StripStart, StripState
    <3>3. QED
      BY <1>5, <3>2
  <2>2. ASSUME NEW k \in S PROVE k + 1 \in S
    <3>1. SUFFICES ASSUME k + 1 <= n PROVE st[k + 1] \in StripState
      OBVIOUS
    <3>2. k \in Nat /\ k + 1 \in 1..n /\ (k + 1) - 1 = k /\ st[k] \in StripState
      BY <1>1, <3>1
    <3>3. st[k + 1] = StripByte(st[k], text[k + 1])
      BY <1>6, <3>2
    <3>4. QED
      BY <1>1, <3>2, <3>3, StripByteSound
  <2>3. S = Nat
    <3>1. S \in SUBSET Nat
      OBVIOUS
    <3> HIDE DEF S
    <3>2. QED
      BY <2>1, <2>2, <3>1, Induction
  <2>4. QED
    BY <1>1, <2>3
<1>9. st \in [0..n -> StripState]
  BY <1>7, <1>8
<1>10. QED
  BY <1>5, <1>6, <1>7, <1>9 DEF Stripping, n

\* Each byte of what is left is as far in the text as it is in what is left, or
\* further.
LEMMA StripShape ==
  ASSUME NEW text \in Seq(Nat), NEW lo \in Nat, NEW hi \in Nat,
         \A i \in 1..Len(text) : text[i] >= lo + i - 1 /\ text[i] < hi
  PROVE  /\ StripAnsi(text) \in Seq(Nat) /\ Len(StripAnsi(text)) <= Len(text)
         /\ \A j \in 1..Len(StripAnsi(text)) :
              StripAnsi(text)[j] >= lo + j - 1 /\ StripAnsi(text)[j] < hi
         /\ Len(StripAnsi(text)) = Len(text) => StripAnsi(text) = text
<1> DEFINE n == Len(text)
<1>1. PICK st : Stripping(st, text)
  BY StripSteps
<1>2. /\ n \in Nat /\ st \in [0..n -> StripState] /\ st[0] = StripStart
      /\ \A k \in 1..n : text[k] \in Nat /\ st[k] = StripByte(st[k - 1], text[k])
      /\ StripAnsi(text) = st[n].out
  BY <1>1 DEF Stripping
<1> DEFINE Shape(out, k) ==
             /\ out \in Seq(Nat) /\ Len(out) <= k
             /\ \A j \in 1..Len(out) : out[j] >= lo + j - 1 /\ out[j] < hi
             /\ Len(out) = k => \A j \in 1..k : out[j] = text[j]
           S == {k \in Nat : k <= n => Shape(st[k].out, k)}
<1> HIDE DEF n
<1>3. 0 \in S
  <2>1. st[0].out = <<>> /\ Len(<<>>) = 0 /\ <<>> \in Seq(Nat)
    BY <1>2 DEF StripStart
  <2>2. Shape(<<>>, 0)
    BY <2>1
  <2>3. QED
    BY <2>1, <2>2
<1>4. ASSUME NEW k \in S PROVE k + 1 \in S
  <2>1. SUFFICES ASSUME k + 1 <= n PROVE Shape(st[k + 1].out, k + 1)
    <3>1. k + 1 \in Nat
      OBVIOUS
    <3> HIDE DEF Shape
    <3>2. QED
      BY <3>1
  <2>2. k \in Nat /\ k <= n /\ k + 1 \in 1..n /\ (k + 1) - 1 = k /\ k \in 0..n /\ Shape(st[k].out, k)
    BY <1>2, <2>1
  <2> DEFINE out == st[k].out
             new == st[k + 1].out
             b == text[k + 1]
  <2>3. new = out \/ new = Append(out, b)
    <3>1. st[k] \in StripState /\ b \in Nat /\ st[k + 1] = StripByte(st[k], b)
      BY <1>2, <2>2
    <3>2. QED
      BY <3>1, StripByteSound
  <2>4. b \in Nat /\ b >= lo + (k + 1) - 1 /\ b < hi
    BY <1>2, <2>2 DEF n
  <2>5. /\ out \in Seq(Nat) /\ Len(out) \in Nat /\ Len(out) <= k
        /\ \A j \in 1..Len(out) : out[j] >= lo + j - 1 /\ out[j] < hi
        /\ Len(out) = k => \A j \in 1..k : out[j] = text[j]
    BY <2>2
  <2> HIDE DEF out, new, b
  <2>6. CASE new = out
    <3>1. Len(new) <= k + 1 /\ Len(new) # k + 1
      BY <2>2, <2>5, <2>6
    <3>2. Shape(new, k + 1)
      BY <2>5, <2>6, <3>1
    <3>3. QED
      BY <3>2 DEF new
  <2>7. CASE new = Append(out, b)
    <3>1. /\ new \in Seq(Nat) /\ Len(new) = Len(out) + 1
          /\ \A j \in 1..Len(out) : new[j] = out[j]
          /\ new[Len(out) + 1] = b
      BY <2>4, <2>5, <2>7, AppendProperties
    <3>2. ASSUME NEW j \in 1..Len(new) PROVE new[j] >= lo + j - 1 /\ new[j] < hi
      <4>1. CASE j = Len(out) + 1
        BY <2>2, <2>4, <2>5, <3>1, <4>1
      <4>2. CASE j # Len(out) + 1
        <5>1. j \in 1..Len(out)
          BY <2>5, <3>1, <4>2
        <5>2. QED
          BY <2>5, <3>1, <5>1
      <4>3. QED
        BY <4>1, <4>2
    <3>3. ASSUME Len(new) = k + 1, NEW j \in 1 .. k + 1 PROVE new[j] = text[j]
      <4>1. Len(out) = k
        BY <2>2, <2>5, <3>1, <3>3
      <4>2. CASE j = k + 1
        BY <3>1, <4>1, <4>2 DEF b
      <4>3. CASE j # k + 1
        <5>1. j \in 1..k
          BY <2>2, <4>3
        <5>2. QED
          BY <2>5, <3>1, <4>1, <5>1
      <4>4. QED
        BY <4>2, <4>3
    <3>4. Len(new) <= k + 1
      BY <2>2, <2>5, <3>1
    <3>5. Shape(new, k + 1)
      BY <3>1, <3>2, <3>3, <3>4
    <3>6. QED
      BY <3>5 DEF new
  <2>8. QED
    BY <2>3, <2>6, <2>7
<1>5. Shape(st[n].out, n)
  <2>1. S \in SUBSET Nat
    OBVIOUS
  <2> HIDE DEF S
  <2>2. S = Nat
    BY <1>3, <1>4, <2>1, Induction
  <2>3. n \in S /\ n <= n
    BY <1>2, <2>2
  <2> HIDE DEF Shape
  <2>4. QED
    BY <2>3 DEF S
<1> DEFINE out == StripAnsi(text)
<1>6. Shape(out, n)
  BY <1>2, <1>5
<1> HIDE DEF out
<1>7. Len(out) = n => out = text
  <2>1. SUFFICES ASSUME Len(out) = n PROVE out = text
    OBVIOUS
  <2>2. out \in Seq(Nat) /\ \A j \in 1..Len(out) : out[j] = text[j]
    BY <1>6, <2>1
  <2>3. QED
    BY <2>1, <2>2, SeqEqual DEF n
<1>8. QED
  BY <1>6, <1>7 DEF out, n

\* One text is the beginning of another.
Leads(a, b) == Len(a) <= Len(b) /\ \A i \in 1..Len(a) : a[i] = b[i]

\* What more text brings does not change what is left of the beginning: an escape
\* sequence that the end of the text cuts in two shows nothing meanwhile.
LEMMA StripLeads ==
  ASSUME NEW a \in Seq(Nat), NEW b \in Seq(Nat), Leads(a, b)
  PROVE  Leads(StripAnsi(a), StripAnsi(b))
<1> DEFINE n == Len(a)
           m == Len(b)
<1>1. PICK st : Stripping(st, a)
  BY StripSteps
<1>2. PICK su : Stripping(su, b)
  BY StripSteps
<1>3. /\ n \in Nat /\ st[0] = StripStart
      /\ \A k \in 1..n : st[k] = StripByte(st[k - 1], a[k])
      /\ StripAnsi(a) = st[n].out
  BY <1>1 DEF Stripping
<1>4. /\ m \in Nat /\ su \in [0..m -> StripState] /\ su[0] = StripStart
      /\ \A k \in 1..m : b[k] \in Nat /\ su[k] = StripByte(su[k - 1], b[k])
      /\ StripAnsi(b) = su[m].out
  BY <1>2 DEF Stripping
<1>5. n <= m /\ \A k \in 1..n : a[k] = b[k]
  BY DEF Leads
<1> HIDE DEF n, m
<1> DEFINE S == {k \in Nat : k <= n => st[k] = su[k]}
<1>6. st[n] = su[n]
  <2>1. 0 \in S
    BY <1>3, <1>4
  <2>2. ASSUME NEW k \in S PROVE k + 1 \in S
    <3>1. SUFFICES ASSUME k + 1 <= n PROVE st[k + 1] = su[k + 1]
      OBVIOUS
    <3>2. /\ k \in Nat /\ k + 1 \in 1..n /\ k + 1 \in 1..m /\ (k + 1) - 1 = k /\ st[k] = su[k]
          /\ a[k + 1] = b[k + 1]
      BY <1>3, <1>4, <1>5, <3>1
    <3>3. st[k + 1] = StripByte(st[k], a[k + 1]) /\ su[k + 1] = StripByte(su[k], b[k + 1])
      BY <1>3, <1>4, <3>2
    <3>4. QED
      BY <3>2, <3>3
  <2>3. S \in SUBSET Nat
    OBVIOUS
  <2> HIDE DEF S
  <2>4. S = Nat
    BY <2>1, <2>2, <2>3, Induction
  <2>5. QED
    BY <1>3, <2>4 DEF S
<1> DEFINE T == {k \in Nat : n + k <= m => Leads(su[n].out, su[n + k].out)}
<1>7. 0 \in T
  <2>1. su[n] \in StripState /\ su[n + 0] = su[n]
    BY <1>3, <1>4, <1>5
  <2>2. su[n].out \in Seq(Nat)
    BY <2>1 DEF StripState
  <2>3. Leads(su[n].out, su[n].out)
    BY <2>2 DEF Leads
  <2>4. QED
    BY <2>1, <2>3
<1>8. ASSUME NEW k \in T PROVE k + 1 \in T
  <2>1. SUFFICES ASSUME n + (k + 1) <= m PROVE Leads(su[n].out, su[n + (k + 1)].out)
    OBVIOUS
  <2> DEFINE j == n + k
  <2>2. /\ k \in Nat /\ n + (k + 1) = j + 1 /\ j + 1 \in 1..m /\ (j + 1) - 1 = j /\ j \in 0..m
        /\ n \in 0..m /\ j <= m
    BY <1>3, <1>4, <1>5, <2>1
  <2>3. Leads(su[n].out, su[j].out)
    BY <2>2
  <2> HIDE DEF j
  <2>4. su[n] \in StripState /\ su[j] \in StripState /\ b[j + 1] \in Nat /\ su[j + 1] = StripByte(su[j], b[j + 1])
    BY <1>4, <2>2
  <2> DEFINE o == su[n].out
             p == su[j].out
             q == su[j + 1].out
  <2>5. o \in Seq(Nat) /\ p \in Seq(Nat)
    BY <2>4 DEF StripState
  <2>6. q = p \/ q = Append(p, b[j + 1])
    BY <2>4, StripByteSound
  <2>7. b[j + 1] \in Nat /\ Leads(o, p)
    BY <2>3, <2>4
  <2> HIDE DEF o, p, q
  <2>8. Leads(o, q)
    <3>1. CASE q = p
      BY <2>7, <3>1
    <3>2. CASE q = Append(p, b[j + 1])
      <4>1. Len(q) = Len(p) + 1 /\ \A i \in 1..Len(p) : q[i] = p[i]
        BY <2>5, <2>7, <3>2, AppendProperties
      <4>2. Len(o) \in Nat /\ Len(p) \in Nat
        BY <2>5
      <4>3. QED
        BY <2>7, <4>1, <4>2 DEF Leads
    <3>3. QED
      BY <2>6, <3>1, <3>2
  <2>9. QED
    BY <2>2, <2>8 DEF o, q
<1>9. Leads(su[n].out, su[m].out)
  <2>1. T \in SUBSET Nat
    OBVIOUS
  <2>2. m - n \in Nat /\ n + (m - n) = m
    BY <1>3, <1>4, <1>5
  <2> HIDE DEF T
  <2>3. T = Nat
    BY <1>7, <1>8, <2>1, Induction
  <2>4. m - n \in T
    BY <2>2, <2>3
  <2>5. QED
    BY <1>4, <2>2, <2>4 DEF T
<1>10. QED
  BY <1>3, <1>4, <1>6, <1>9

-----------------------------------------------------------------------------
(* Searching.                                                              *)

\* What is searched is a text like the one collected.
LEMMA HaystackShape ==
  ASSUME NEW strip, NEW text \in Seq(Nat), NEW lo \in Nat, NEW hi \in Nat,
         \A i \in 1..Len(text) : text[i] >= lo + i - 1 /\ text[i] < hi
  PROVE  /\ Haystack(strip, text) \in Seq(Nat)
         /\ \A j \in 1..Len(Haystack(strip, text)) :
              Haystack(strip, text)[j] >= lo + j - 1 /\ Haystack(strip, text)[j] < hi
         /\ Len(Haystack(strip, text)) = Len(text) => Haystack(strip, text) = text
<1>1. CASE strip
  BY <1>1, StripShape DEF Haystack
<1>2. CASE ~strip
  BY <1>2 DEF Haystack
<1>3. QED
  BY <1>1, <1>2

\* It is one of numbers, whatever is collected.
LEMMA HaystackText ==
  ASSUME NEW strip, NEW text \in Seq(Nat)
  PROVE  Haystack(strip, text) \in Seq(Nat)
<1>1. ASSUME NEW t \in Seq(Nat) PROVE StripAnsi(t) \in Seq(Nat)
  <2>1. PICK st : Stripping(st, t)
    BY StripSteps
  <2>2. st[Len(t)] \in StripState /\ StripAnsi(t) = st[Len(t)].out
    BY SMTT(20), <2>1 DEF Stripping
  <2>3. QED
    BY <2>2 DEF StripState
<1>2. QED
  BY <1>1 DEF Haystack

\* More text begins like less.
LEMMA HaystackLeads ==
  ASSUME NEW strip, NEW a \in Seq(Nat), NEW b \in Seq(Nat), Leads(a, b)
  PROVE  Leads(Haystack(strip, a), Haystack(strip, b))
<1>1. CASE strip
  BY <1>1, StripLeads DEF Haystack
<1>2. CASE ~strip
  BY <1>2 DEF Haystack
<1>3. QED
  BY <1>1, <1>2

\* What is found in the beginning of a text is found in all of it, and the other
\* way round if it fits.
LEMMA FoundLeads ==
  ASSUME NEW a \in Seq(Nat), NEW b \in Seq(Nat), Leads(a, b)
  PROVE  /\ Found(a) \subseteq Found(b)
         /\ \A i \in Found(b) : i + Len(Pattern) - 1 <= Len(a) => i \in Found(a)
<1>1. /\ Len(Pattern) \in Nat \ {0} /\ DOMAIN Pattern = 1..Len(Pattern)
      /\ Len(a) \in Nat /\ Len(b) \in Nat
  BY ExpectConstants
<1>2. Len(a) <= Len(b) /\ \A i \in 1..Len(a) : a[i] = b[i]
  BY DEF Leads
<1>3. ASSUME NEW i \in Nat, i >= 1, i + Len(Pattern) - 1 <= Len(a), NEW k \in DOMAIN Pattern
      PROVE  a[i + k - 1] = b[i + k - 1]
  <2>1. i + k - 1 \in 1..Len(a)
    BY <1>1, <1>3
  <2>2. QED
    BY <1>2, <2>1
<1>4. ASSUME NEW i \in Found(a) PROVE i \in Found(b)
  <2>1. i \in Nat /\ i >= 1 /\ i + Len(Pattern) - 1 <= Len(a) /\ i \in 1 .. Len(b) - Len(Pattern) + 1
    BY <1>1, <1>2 DEF Found
  <2>2. QED
    BY <1>3, <2>1 DEF Found
<1>5. ASSUME NEW i \in Found(b), i + Len(Pattern) - 1 <= Len(a) PROVE i \in Found(a)
  <2>1. i \in Nat /\ i >= 1 /\ i \in 1 .. Len(a) - Len(Pattern) + 1
    BY <1>1, <1>5 DEF Found
  <2>2. QED
    BY <1>3, <1>5, <2>1 DEF Found
<1>6. QED
  BY <1>4, <1>5

\* The first occurrence is one, and none comes before it.
LEMMA FirstFound ==
  ASSUME NEW a \in Seq(Nat), Found(a) # {}
  PROVE  /\ Min(Found(a)) \in Found(a) /\ \A i \in Found(a) : Min(Found(a)) <= i
         /\ Min(Found(a)) \in 1..Len(a)
         /\ Min(Found(a)) + Len(Pattern) - 1 \in 1..Len(a)
<1>1. Len(Pattern) \in Nat \ {0} /\ Len(a) \in Nat
  BY ExpectConstants
<1>2. Found(a) \in SUBSET Nat
  BY <1>1 DEF Found
<1>3. Min(Found(a)) \in Found(a) /\ \A i \in Found(a) : Min(Found(a)) <= i
  BY <1>2, Least
<1>4. Min(Found(a)) \in 1 .. Len(a) - Len(Pattern) + 1
  BY <1>3 DEF Found
<1> DEFINE m == Min(Found(a))
<1> HIDE DEF m
<1>5. m \in 1 .. Len(a) - Len(Pattern) + 1
  BY <1>4 DEF m
<1>6. m \in 1..Len(a) /\ m + Len(Pattern) - 1 \in 1..Len(a)
  BY <1>1, <1>5
<1>7. QED
  BY <1>3, <1>6 DEF m

\* The first occurrence in the beginning of a text is the first in all of it.
LEMMA FirstStays ==
  ASSUME NEW a \in Seq(Nat), NEW b \in Seq(Nat), Leads(a, b), Found(a) # {}
  PROVE  /\ Min(Found(b)) = Min(Found(a))
         /\ b[Min(Found(a))] = a[Min(Found(a))]
         /\ b[Min(Found(a)) + Len(Pattern) - 1] = a[Min(Found(a)) + Len(Pattern) - 1]
<1> DEFINE m == Min(Found(a))
           l == Min(Found(b))
<1>1. /\ m \in Found(a) /\ \A i \in Found(a) : m <= i
      /\ m \in 1..Len(a) /\ m + Len(Pattern) - 1 \in 1..Len(a)
  BY FirstFound
<1>2. m \in Found(b)
  BY <1>1, FoundLeads
<1>3. /\ l \in Found(b) /\ \A i \in Found(b) : l <= i /\ l \in 1..Len(b)
  BY <1>2, FirstFound
<1>4. Len(Pattern) \in Nat \ {0} /\ Len(a) \in Nat /\ Len(b) \in Nat
  BY ExpectConstants
<1> HIDE DEF m, l
<1>5. l <= m /\ l \in Nat /\ m \in Nat
  BY <1>1, <1>2, <1>3
<1>6. l + Len(Pattern) - 1 <= Len(a)
  BY <1>1, <1>4, <1>5
<1>7. l \in Found(a)
  BY <1>3, <1>6, FoundLeads
<1>8. l = m
  BY <1>1, <1>5, <1>7
<1>9. b[m] = a[m] /\ b[m + Len(Pattern) - 1] = a[m + Len(Pattern) - 1]
  BY <1>1 DEF Leads
<1>10. QED
  BY <1>8, <1>9 DEF m, l

-----------------------------------------------------------------------------
(* The invariant.                                                          *)

CallSet ==
  [op : {"none", "send", "expect", "run"}, pc : Pcs, from : Nat, cursor : Nat, acc : Seq(Nat),
   strip : BOOLEAN, timed : BOOLEAN, eat : BOOLEAN, lag : BOOLEAN, late : BOOLEAN, due : Nat]

EndSet ==
  [kind : {"none", "match", "timeout", "overflow"}, from : Nat, strip : BOOLEAN, lag : BOOLEAN,
   due : Nat, lo : Nat, hi : Nat, end_seq : Nat, after : Nat]

\* The shape.
ExpectTyped ==
  /\ script \in Scripts /\ notifying \in BOOLEAN
  /\ Sound(ring) /\ ring.head_seq <= Len(script)
  /\ call \in [Sessions -> CallSet] /\ answer \in [Sessions -> EndSet]
  /\ consumer_cursor \in [Sessions -> Nat] /\ consumed \in [Sessions -> Nat]
  /\ skewed \in [Sessions -> BOOLEAN]

\* What a call holds came, in order, from where it began or from further on, and
\* without a lag there is no byte missing; a turn of the loop begins with no more
\* than max_bytes of it.  The ring has received `head` bytes.
Holds(c, head) ==
  /\ c.cursor >= c.from /\ (c.cursor = c.from \/ c.cursor <= head)
  /\ Len(c.acc) <= c.cursor - c.from
  /\ \A i \in 1..Len(c.acc) : c.acc[i] >= c.from + i - 1 /\ c.acc[i] < head
  /\ ~c.lag => c.acc = Stretch(c.from, c.cursor)
  /\ c.late => c.due <= head \/ c.due <= c.from
  /\ c.late /\ c.pc = "read" => c.due <= c.cursor
  /\ Len(c.acc) <= MaxBytes + Capacity /\ (c.pc # "matched" => Len(c.acc) <= MaxBytes)
  /\ c.pc \in {"idle", "queue", "write", "acked"} => c.acc = <<>> /\ ~c.lag /\ ~c.late

Holding == \A s \in Sessions : Holds(call[s], ring.head_seq)

\* A call that goes to answer a match has one, and one that looks at the clock
\* has none.
HasMatch(c) ==
  /\ c.pc = "matched" => Found(Haystack(c.strip, c.acc)) # {}
  /\ c.pc = "read" => Found(Haystack(c.strip, c.acc)) = {}
Matching == \A s \in Sessions : HasMatch(call[s])

\* A call begins where everything before was matched, unless an answer was counted
\* wrong or the client went back.
Eaten ==
  \A s \in Sessions :
    /\ consumed[s] <= ring.head_seq
    /\ ~skewed[s] => /\ consumed[s] <= consumer_cursor[s]
                     /\ call[s].pc \notin {"idle", "queue", "write"} => consumed[s] <= call[s].from

\* The first two properties, of one answer.
Right(a) ==
  a.kind = "match" /\ ~a.lag =>
    LET text == Haystack(a.strip, Output(a.from, Len(script)))
    IN /\ a.lo = text[Min(Found(text))]
       /\ a.hi = text[Min(Found(text)) + Len(Pattern) - 1]

Honest(a) ==
  a.kind = "timeout" /\ ~a.lag => Found(Haystack(a.strip, Output(a.from, a.due))) = {}

Answers == \A s \in Sessions : Right(answer[s]) /\ Honest(answer[s])

ExpectInv ==
  /\ ExpectTyped /\ Holding /\ Matching /\ Eaten
  /\ Answers /\ ConsumedOnce /\ NeverPastMatch

-----------------------------------------------------------------------------
(* Output and what is held of it.                                          *)

\* Output is a stretch, or nothing.
LEMMA OutputStretch ==
  ASSUME NEW from \in Nat, NEW to \in Nat
  PROVE  /\ Output(from, to) \in Seq(Nat)
         /\ from <= to => Output(from, to) = Stretch(from, to)
         /\ from >= to => Output(from, to) = <<>>
<1>1. CASE from < to
  <2>1. Output(from, to) = Stretch(from, to)
    BY <1>1 DEF Output, Stretch
  <2>2. QED
    BY <1>1, <2>1, StretchSeq
<1>2. CASE from = to
  <2>1. Output(from, to) = <<>> /\ Stretch(from, to) = <<>>
    BY <1>2, StretchNothing DEF Output
  <2>2. QED
    BY <2>1
<1>3. CASE from > to
  <2>1. Output(from, to) = <<>>
    BY <1>3 DEF Output
  <2>2. QED
    BY <1>3, <2>1
<1>4. QED
  BY <1>1, <1>2, <1>3

\* A stretch leads each longer one that begins with it.
LEMMA StretchLeads ==
  ASSUME NEW lo \in Nat, NEW mid \in Nat, NEW hi \in Nat, lo <= mid, mid <= hi
  PROVE  Leads(Stretch(lo, mid), Stretch(lo, hi))
<1> DEFINE a == Stretch(lo, mid)
           b == Stretch(lo, hi)
<1>1. /\ Len(a) = mid - lo /\ \A i \in 1 .. mid - lo : a[i] = lo + i - 1
      /\ Len(b) = hi - lo /\ \A i \in 1 .. hi - lo : b[i] = lo + i - 1
  BY StretchSeq
<1> HIDE DEF a, b
<1>2. Leads(a, b)
  BY <1>1 DEF Leads
<1>3. QED
  BY <1>2 DEF a, b

\* Nothing leads everything.
LEMMA NothingLeads ==
  ASSUME NEW b \in Seq(Nat)
  PROVE  Leads(<<>>, b)
BY DEF Leads

\* A step of the owner does not take away what a call holds.
LEMMA HoldsOn ==
  ASSUME NEW c \in CallSet, NEW h \in Nat, NEW k \in Nat, h <= k, Holds(c, h)
  PROVE  Holds(c, k)
<1>1. c.cursor \in Nat /\ c.from \in Nat /\ c.due \in Nat /\ c.acc \in Seq(Nat)
  BY DEF CallSet
<1>2. \A i \in 1..Len(c.acc) : c.acc[i] \in Nat
  BY <1>1
<1>3. QED
  BY SMTT(20), <1>1, <1>2 DEF Holds

\* A turn of the loop collects what there is.
LEMMA CollectHolds ==
  ASSUME NEW c \in CallSet, NEW r, Sound(r), Holds(c, r.head_seq), c.pc = "look",
         NEW d, d = Collect(c, ReadFrom(r, c.cursor))
  PROVE  /\ d \in CallSet
         /\ d.from = c.from /\ d.strip = c.strip /\ d.due = c.due /\ d.pc = "look"
         /\ d.late = c.late
         /\ d.cursor >= r.head_seq
         /\ Len(d.acc) <= MaxBytes => Holds(d, r.head_seq)
         /\ Holds([d EXCEPT !.pc = "matched"], r.head_seq)
<1> DEFINE got == ReadFrom(r, c.cursor)
           head == r.head_seq
           tail == r.tail_seq
<1>1. /\ c.cursor \in Nat /\ c.from \in Nat /\ c.due \in Nat /\ c.acc \in Seq(Nat)
      /\ c.lag \in BOOLEAN /\ c.late \in BOOLEAN
      /\ head \in Nat /\ tail \in Nat /\ tail <= head /\ head - tail <= Capacity
      /\ Capacity \in Nat /\ MaxBytes \in Nat
  BY CapacityPositive, ExpectConstants DEF CallSet, Sound
<1>2. /\ got \in Reads
      /\ c.cursor >= head => got.data = <<>> /\ ~got.lag /\ got.cursor = c.cursor
      /\ c.cursor < head => Wanted(r, c.cursor, got)
  <2>1. c.cursor >= head => got.cursor = c.cursor
    BY DEF ReadFrom
  <2>2. QED
    BY <1>1, <2>1, ReadWanted
<1>3. PICK data \in Seq(Nat), resume \in Nat, cursor \in Nat, lag \in BOOLEAN :
        got = [data |-> data, resume |-> resume, cursor |-> cursor, lag |-> lag]
  BY <1>2 DEF Reads
<1>4. /\ c.cursor >= head => data = <<>> /\ ~lag /\ cursor = c.cursor
      /\ c.cursor < head =>
           /\ lag <=> c.cursor < tail
           /\ resume = IF lag THEN tail ELSE c.cursor
           /\ cursor = head /\ data = Stretch(resume, head)
  <2>1. c.cursor < head => (lag <=> c.cursor < tail) /\ resume = (IF lag THEN tail ELSE c.cursor) /\ cursor = head
    BY <1>2, <1>3 DEF Wanted
  <2>2. c.cursor < head => data = Stretch(resume, head)
    BY <1>2, <1>3, <2>1 DEF Wanted
  <2>3. QED
    BY <1>2, <1>3, <2>1, <2>2
<1> DEFINE acc == c.acc \o data
           either == c.lag \/ lag
<1>5. d = [c EXCEPT !.cursor = cursor, !.acc = acc, !.lag = either]
  BY <1>3 DEF Collect
<1> HIDE DEF got, head, tail
<1>6. acc \in Seq(Nat) /\ either \in BOOLEAN
  BY <1>1
<1> HIDE DEF acc, either
<1>7. /\ d \in CallSet /\ d.from = c.from /\ d.strip = c.strip /\ d.due = c.due
      /\ d.pc = "look" /\ d.late = c.late
      /\ d.cursor = cursor /\ d.acc = acc /\ d.lag = either
  BY <1>5, <1>6 DEF CallSet
<1>8. /\ cursor >= head /\ cursor >= c.cursor
      /\ cursor = c.from \/ cursor <= head
      /\ c.cursor >= c.from /\ c.from \in Nat
  BY SMTT(20), <1>1, <1>4 DEF Holds, head
<1>9. /\ \A i \in 1..Len(acc) : acc[i] >= c.from + i - 1 /\ acc[i] < head
      /\ Len(acc) <= cursor - c.from /\ Len(acc) <= MaxBytes + Capacity
      /\ ~either => acc = Stretch(c.from, cursor)
  <2>1. /\ \A i \in 1..Len(c.acc) : c.acc[i] >= c.from + i - 1 /\ c.acc[i] < head
        /\ Len(c.acc) <= c.cursor - c.from /\ Len(c.acc) <= MaxBytes
        /\ ~c.lag => c.acc = Stretch(c.from, c.cursor)
    BY DEF Holds, head
  <2>2. CASE c.cursor >= head
    <3>1. acc = c.acc /\ cursor = c.cursor /\ ~lag
      BY <1>1, <1>4, <2>2 DEF acc
    <3>2. QED
      BY <1>1, <2>1, <3>1 DEF either
  <2>3. CASE c.cursor < head
    <3> DEFINE from == c.from
               cur == c.cursor
               held == c.acc
               m == Len(held)
    <3>1. /\ resume \in Nat /\ cur <= resume /\ resume <= head /\ tail <= resume
          /\ data = Stretch(resume, head) /\ cursor = head /\ cur < head
          /\ ~lag => resume = cur
      BY <1>1, <1>4, <2>3
    <3>2. /\ from \in Nat /\ cur \in Nat /\ from <= cur /\ held \in Seq(Nat) /\ m \in Nat
          /\ \A i \in 1..m : held[i] >= from + i - 1 /\ held[i] < head
          /\ m <= cur - from /\ m <= MaxBytes
          /\ ~c.lag => held = Stretch(from, cur)
      BY <1>1, <1>8, <2>1
    <3>3. /\ acc = held \o data
          /\ either = (c.lag \/ lag)
      BY DEF acc, either
    <3>4. SUFFICES /\ \A i \in 1..Len(acc) : acc[i] >= from + i - 1 /\ acc[i] < head
                   /\ Len(acc) <= cursor - from /\ Len(acc) <= MaxBytes + Capacity
                   /\ ~either => acc = Stretch(from, cursor)
      OBVIOUS
    <3> HIDE DEF from, cur, held
    <3>0. /\ held \in Seq(Nat) /\ resume \in Nat /\ head \in Nat /\ resume <= head
          /\ from \in Nat /\ cur \in Nat /\ from <= cur /\ cur <= head
      BY <1>1, <3>1, <3>2
    <3>5. LET both == held \o Stretch(resume, head) IN
          /\ both \in Seq(Nat) /\ Len(both) = Len(held) + (head - resume)
          /\ \A i \in 1 .. Len(held) : both[i] = held[i]
          /\ \A i \in Len(held) + 1 .. Len(both) : both[i] = resume + (i - Len(held)) - 1
      BY ONLY ZenonT(40), <3>0, StretchAdded
    <3> DEFINE new == held \o Stretch(resume, head)
               n == Len(new)
    <3>6. /\ Len(new) = Len(held) + (head - resume)
          /\ \A i \in 1..Len(held) : new[i] = held[i]
          /\ \A i \in Len(held) + 1 .. Len(new) : new[i] = resume + (i - Len(held)) - 1
      BY <3>5
    <3> HIDE DEF m
    <3>7. /\ n = m + (head - resume) /\ n \in Nat
          /\ \A i \in 1..m : new[i] = held[i]
          /\ \A i \in m + 1 .. n : new[i] = resume + (i - m) - 1
      BY <3>0, <3>2, <3>6 DEF m
    <3>8. acc = new /\ Len(acc) = n
      BY <3>1, <3>3
    <3> HIDE DEF new, n
    <3>9. ASSUME NEW i \in 1..n PROVE new[i] >= from + i - 1 /\ new[i] < head
      <4>1. CASE i \in 1..m
        BY <3>2, <3>7, <4>1
      <4>2. CASE i \in m + 1 .. n
        <5>1. new[i] = resume + (i - m) - 1 /\ i \in Nat
          BY <3>2, <3>7, <4>2
        <5>2. i <= m + (head - resume) /\ m <= cur - from
          BY <3>2, <3>7, <4>2
        <5>3. QED
          BY <1>1, <3>1, <3>2, <5>1, <5>2
      <4>3. QED
        BY <3>2, <3>7, <4>1, <4>2
    <3>10. n <= cursor - from /\ n <= MaxBytes + Capacity
      BY <1>1, <3>1, <3>2, <3>7
    <3>11. ASSUME ~either PROVE new = Stretch(from, cursor)
      <4>1. ~c.lag /\ ~lag
        BY <3>3, <3>11
      <4>2. held = Stretch(from, cur) /\ resume = cur
        BY <3>1, <3>2, <4>1
      <4>3. Stretch(from, cur) \o Stretch(cur, head) = Stretch(from, head)
        BY ONLY <3>0, StretchConcat
      <4>4. QED
        BY <3>1, <4>2, <4>3 DEF new
    <3>12. QED
      BY <3>8, <3>9, <3>10, <3>11
  <2>4. QED
    BY <1>1, <2>2, <2>3
<1>10. Len(acc) <= MaxBytes => Holds(d, head)
  BY <1>7, <1>8, <1>9 DEF Holds, head
<1>11. Holds([d EXCEPT !.pc = "matched"], head)
  <2>1. PICK e \in CallSet : e = [d EXCEPT !.pc = "matched"]
    BY <1>7 DEF CallSet, Pcs
  <2>2. /\ e.from = d.from /\ e.cursor = d.cursor /\ e.acc = d.acc /\ e.lag = d.lag
        /\ e.late = d.late /\ e.due = d.due /\ e.pc = "matched"
    BY <1>7, <2>1 DEF CallSet
  <2>3. Holds(e, head)
    BY <1>7, <1>8, <1>9, <2>2 DEF Holds, head
  <2>4. QED
    BY <2>1, <2>3
<1>12. QED
  BY <1>7, <1>8, <1>10, <1>11 DEF head

-----------------------------------------------------------------------------
(* Steps.                                                                  *)

\* The device's text stays, and with it what is found in one.
LEMMA SameScript ==
  ASSUME script' = script
  PROVE  /\ Matching' <=> \A s \in Sessions : HasMatch(call'[s])
         /\ Answers' <=> \A s \in Sessions : Right(answer'[s]) /\ Honest(answer'[s])
<1>1. ASSUME NEW s
      PROVE  Found(Haystack(call[s].strip, call[s].acc))'
               = Found(Haystack(call'[s].strip, call'[s].acc))
  BY DEF Found, Haystack, StripAnsi, StripByte, Says, Final, FoldLeft, MapThenFoldSet
<1>2. ASSUME NEW s
      PROVE  /\ Haystack(answer[s].strip, Output(answer[s].from, Len(script)))'
                  = Haystack(answer'[s].strip, Output(answer'[s].from, Len(script)))
             /\ Found(Haystack(answer[s].strip, Output(answer[s].from, Len(script))))'
                  = Found(Haystack(answer'[s].strip, Output(answer'[s].from, Len(script))))
             /\ Found(Haystack(answer[s].strip, Output(answer[s].from, answer[s].due)))'
                  = Found(Haystack(answer'[s].strip, Output(answer'[s].from, answer'[s].due)))
  BY DEF Found, Haystack, StripAnsi, StripByte, Says, Final, FoldLeft, MapThenFoldSet
<1>3. Matching' <=> \A s \in Sessions : HasMatch(call'[s])
  BY <1>1 DEF Matching, HasMatch
<1>4. Answers' <=> \A s \in Sessions : Right(answer'[s]) /\ Honest(answer'[s])
  BY <1>2 DEF Answers, Right, Honest
<1>5. QED
  BY <1>3, <1>4

\* The handler of one session takes a step: its call becomes c, its answer a, its
\* cursor k, what was consumed e, and w tells whether it was counted wrong.
Goes(s, c, a, k, e, w) ==
  /\ call' = [call EXCEPT ![s] = c]
  /\ answer' = [answer EXCEPT ![s] = a]
  /\ consumer_cursor' = [consumer_cursor EXCEPT ![s] = k]
  /\ consumed' = [consumed EXCEPT ![s] = e]
  /\ skewed' = [skewed EXCEPT ![s] = w]
  /\ UNCHANGED <<script, ring, notifying>>

\* What such a step has to see to.
Keeps(c, a, k, e, w, head) ==
  /\ c \in CallSet /\ a \in EndSet /\ k \in Nat /\ e \in Nat /\ w \in BOOLEAN
  /\ Holds(c, head) /\ HasMatch(c)
  /\ e <= head
  /\ ~w => e <= k /\ (c.pc \notin {"idle", "queue", "write"} => e <= c.from)
  /\ Right(a) /\ Honest(a)
  /\ a.kind = "match" => a.end_seq <= a.hi + 1 /\ (~w => a.lo >= a.after)

LEMMA GoesOn ==
  ASSUME ExpectInv, NEW s \in Sessions, NEW c, NEW a, NEW k, NEW e, NEW w,
         Goes(s, c, a, k, e, w), Keeps(c, a, k, e, w, ring.head_seq)
  PROVE  ExpectInv'
<1>1. /\ script' = script /\ ring' = ring /\ notifying' = notifying
      /\ call' = [call EXCEPT ![s] = c] /\ answer' = [answer EXCEPT ![s] = a]
      /\ consumer_cursor' = [consumer_cursor EXCEPT ![s] = k]
      /\ consumed' = [consumed EXCEPT ![s] = e] /\ skewed' = [skewed EXCEPT ![s] = w]
  BY DEF Goes
<1>2. /\ c \in CallSet /\ a \in EndSet /\ k \in Nat /\ e \in Nat /\ w \in BOOLEAN
  BY DEF Keeps
<1>3. ExpectTyped'
  BY <1>1, <1>2 DEF ExpectInv, ExpectTyped, Sound
<1>4. /\ call'[s] = c /\ answer'[s] = a /\ consumer_cursor'[s] = k /\ consumed'[s] = e
      /\ skewed'[s] = w
      /\ \A t \in Sessions \ {s} :
           /\ call'[t] = call[t] /\ answer'[t] = answer[t]
           /\ consumer_cursor'[t] = consumer_cursor[t]
           /\ consumed'[t] = consumed[t] /\ skewed'[t] = skewed[t]
  BY <1>1 DEF ExpectInv, ExpectTyped
<1>5. Holding'
  <2>1. \A t \in Sessions : Holds(call'[t], ring.head_seq)
    BY <1>4 DEF Keeps, ExpectInv, Holding
  <2>2. QED
    BY <1>1, <2>1 DEF Holding, Holds
<1>6. Matching'
  <2>1. \A t \in Sessions : HasMatch(call'[t])
    BY <1>4 DEF Keeps, ExpectInv, Matching
  <2>2. QED
    BY <1>1, <2>1, SameScript
<1>7. Answers'
  <2>1. \A t \in Sessions : Right(answer'[t]) /\ Honest(answer'[t])
    BY <1>4 DEF Keeps, ExpectInv, Answers
  <2>2. QED
    BY <1>1, <2>1, SameScript
<1>8. Eaten'
  <2>1. ASSUME NEW t \in Sessions
        PROVE  /\ consumed'[t] <= ring.head_seq
               /\ ~skewed'[t] =>
                    /\ consumed'[t] <= consumer_cursor'[t]
                    /\ call'[t].pc \notin {"idle", "queue", "write"} => consumed'[t] <= call'[t].from
    <3>1. CASE t = s
      BY <1>4, <3>1 DEF Keeps
    <3>2. CASE t # s
      BY <1>4, <3>2 DEF ExpectInv, Eaten
    <3>3. QED
      BY <3>1, <3>2
  <2>2. QED
    BY <1>1, <2>1 DEF Eaten
<1>9. ConsumedOnce' /\ NeverPastMatch'
  <2>1. ASSUME NEW t \in Sessions, answer'[t].kind = "match"
        PROVE  /\ answer'[t].end_seq <= answer'[t].hi + 1
               /\ ~skewed'[t] => answer'[t].lo >= answer'[t].after
    <3>1. CASE t = s
      BY <1>4, <2>1, <3>1 DEF Keeps
    <3>2. CASE t # s
      BY <1>4, <2>1, <3>2 DEF ExpectInv, ConsumedOnce, NeverPastMatch
    <3>3. QED
      BY <3>1, <3>2
  <2>2. QED
    BY <2>1 DEF ConsumedOnce, NeverPastMatch
<1>10. QED
  BY <1>3, <1>5, <1>6, <1>7, <1>8, <1>9 DEF ExpectInv

\* The state of a session sees to all that.
LEMMA KeepsNow ==
  ASSUME ExpectInv, NEW s \in Sessions
  PROVE  /\ Keeps(call[s], answer[s], consumer_cursor[s], consumed[s], skewed[s], ring.head_seq)
         /\ ring.head_seq \in Nat
<1>1. /\ call[s] \in CallSet /\ answer[s] \in EndSet /\ consumer_cursor[s] \in Nat
      /\ consumed[s] \in Nat /\ skewed[s] \in BOOLEAN /\ ring.head_seq \in Nat
  BY DEF ExpectInv, ExpectTyped, Sound
<1>2. Holds(call[s], ring.head_seq) /\ HasMatch(call[s]) /\ Right(answer[s]) /\ Honest(answer[s])
  BY DEF ExpectInv, Holding, Matching, Answers
<1>3. /\ consumed[s] <= ring.head_seq
      /\ ~skewed[s] => /\ consumed[s] <= consumer_cursor[s]
                       /\ call[s].pc \notin {"idle", "queue", "write"} => consumed[s] <= call[s].from
  BY DEF ExpectInv, Eaten
<1>4. answer[s].kind = "match" =>
        /\ answer[s].end_seq <= answer[s].hi + 1
        /\ ~skewed[s] => answer[s].lo >= answer[s].after
  BY DEF ExpectInv, ConsumedOnce, NeverPastMatch
<1>5. QED
  BY <1>1, <1>2, <1>3, <1>4 DEF Keeps

\* What a step leaves alone.
LEMMA Alone ==
  ASSUME ExpectInv, NEW s \in Sessions
  PROVE  /\ call = [call EXCEPT ![s] = call[s]]
         /\ answer = [answer EXCEPT ![s] = answer[s]]
         /\ consumer_cursor = [consumer_cursor EXCEPT ![s] = consumer_cursor[s]]
         /\ consumed = [consumed EXCEPT ![s] = consumed[s]]
         /\ skewed = [skewed EXCEPT ![s] = skewed[s]]
BY DEF ExpectInv, ExpectTyped

\* No answer promises nothing.
LEMMA NoAnswerFine == NoAnswer \in EndSet /\ Right(NoAnswer) /\ Honest(NoAnswer) /\ NoAnswer.kind = "none"
BY DEF NoAnswer, EndSet, Right, Honest

\* A call that has collected nothing holds nothing.
LEMMA FreshHolds ==
  ASSUME NEW c \in CallSet, NEW head \in Nat,
         c.cursor = c.from, c.acc = <<>>, ~c.lag, ~c.late, c.pc \notin {"read", "matched"}
  PROVE  Holds(c, head) /\ HasMatch(c)
<1>1. c.from \in Nat /\ Len(<<>>) = 0 /\ MaxBytes \in Nat /\ Capacity \in Nat
  BY ExpectConstants, CapacityPositive DEF CallSet
<1>2. Stretch(c.from, c.from) = <<>>
  BY <1>1, StretchNothing
<1>3. Holds(c, head)
  BY <1>1, <1>2 DEF Holds
<1>4. QED
  BY <1>3 DEF HasMatch

\* No call at all.
LEMMA IdleFine ==
  ASSUME NEW head \in Nat
  PROVE  Idle \in CallSet /\ Holds(Idle, head) /\ HasMatch(Idle) /\ Idle.pc = "idle"
<1>1. <<>> \in Seq(Nat)
  OBVIOUS
<1>2. Idle \in CallSet
  BY <1>1 DEF Idle, CallSet, Pcs
<1>3. QED
  BY <1>2, FreshHolds DEF Idle

\* The steps of send, and the first ones of a run and an expect.
LEMMA BeginSteps ==
  ASSUME ExpectInv, NEW s \in Sessions, SendCall(s) \/ RunCall(s) \/ ExpectCall(s)
  PROVE  ExpectInv'
<1> DEFINE head == ring.head_seq
<1>1. /\ Keeps(call[s], answer[s], consumer_cursor[s], consumed[s], skewed[s], head)
      /\ head \in Nat
  BY KeepsNow
<1>2. /\ consumer_cursor[s] \in Nat /\ consumed[s] \in Nat /\ skewed[s] \in BOOLEAN
      /\ consumed[s] <= head /\ (~skewed[s] => consumed[s] <= consumer_cursor[s])
  BY <1>1 DEF Keeps
<1>3. ASSUME NEW c \in CallSet, NEW e \in Nat,
             call' = [call EXCEPT ![s] = c], answer' = [answer EXCEPT ![s] = NoAnswer],
             consumed' = [consumed EXCEPT ![s] = e],
             UNCHANGED <<script, ring, notifying, consumer_cursor, skewed>>,
             Holds(c, head), HasMatch(c), e <= consumed[s],
             c.pc \in {"idle", "queue", "write"} \/ e <= c.from \/ (e = consumed[s] /\ c.from = consumer_cursor[s])
      PROVE  ExpectInv'
  <2>1. Goes(s, c, NoAnswer, consumer_cursor[s], e, skewed[s])
    BY <1>3, Alone DEF Goes
  <2>2. c.from \in Nat
    BY DEF CallSet
  <2>3. ~skewed[s] =>
          e <= consumer_cursor[s] /\ (c.pc \notin {"idle", "queue", "write"} => e <= c.from)
    BY <1>2, <1>3, <2>2
  <2>4. Keeps(c, NoAnswer, consumer_cursor[s], e, skewed[s], head)
    BY <1>1, <1>2, <1>3, <2>3, NoAnswerFine DEF Keeps
  <2>5. QED
    BY <2>1, <2>4, GoesOn
<1>4. <<>> \in Seq(Nat)
  OBVIOUS
<1>5. CASE SendCall(s)
  <2>1. PICK eat \in BOOLEAN : Begins(s, [Idle EXCEPT !.op = "send", !.pc = "write", !.eat = eat])
    BY <1>5 DEF SendCall
  <2> DEFINE c == [Idle EXCEPT !.op = "send", !.pc = "write", !.eat = eat]
  <2>2. c \in CallSet /\ c.pc = "write" /\ c.acc = <<>> /\ ~c.lag /\ ~c.late /\ c.cursor = c.from
    BY <1>4 DEF Idle, CallSet, Pcs
  <2>3. PICK e : e = consumed[s] /\ consumed' = [consumed EXCEPT ![s] = e]
    BY <1>5, Alone DEF SendCall
  <2> HIDE DEF c, head
  <2>4. Begins(s, c)
    BY <2>1 DEF c
  <2>5. Holds(c, head) /\ HasMatch(c)
    BY <1>1, <2>2, FreshHolds
  <2>6. e \in Nat /\ e <= consumed[s]
    BY <1>2, <2>3
  <2>7. QED
    BY <1>3, <2>2, <2>3, <2>4, <2>5, <2>6 DEF Begins
<1>6. CASE RunCall(s)
  <2>1. PICK strip \in Strips, timed \in BOOLEAN :
          Begins(s, [Idle EXCEPT !.op = "run", !.pc = "queue", !.strip = strip, !.timed = timed])
    BY <1>6 DEF RunCall
  <2> DEFINE c == [Idle EXCEPT !.op = "run", !.pc = "queue", !.strip = strip, !.timed = timed]
  <2>2. c \in CallSet /\ c.pc = "queue" /\ c.acc = <<>> /\ ~c.lag /\ ~c.late /\ c.cursor = c.from
    BY <1>4, ExpectConstants DEF Idle, CallSet, Pcs
  <2>3. PICK e : e = consumed[s] /\ consumed' = [consumed EXCEPT ![s] = e]
    BY <1>6, Alone DEF RunCall
  <2> HIDE DEF c, head
  <2>4. Begins(s, c)
    BY <2>1 DEF c
  <2>5. Holds(c, head) /\ HasMatch(c)
    BY <1>1, <2>2, FreshHolds
  <2>6. e \in Nat /\ e <= consumed[s]
    BY <1>2, <2>3
  <2>7. QED
    BY <1>3, <2>2, <2>3, <2>4, <2>5, <2>6 DEF Begins
<1>7. CASE ExpectCall(s)
  <2> DEFINE c(strip, timed, from) ==
               [Idle EXCEPT !.op = "expect", !.pc = "look", !.strip = strip,
                            !.timed = timed, !.from = from, !.cursor = from]
  <2>1. ASSUME NEW strip \in Strips, NEW timed \in BOOLEAN, NEW from \in Nat
        PROVE  LET d == c(strip, timed, from) IN
               /\ d \in CallSet /\ d.pc = "look" /\ d.from = from
               /\ Holds(d, head) /\ HasMatch(d)
    <3> DEFINE d == c(strip, timed, from)
    <3>1. /\ d \in CallSet /\ d.pc = "look" /\ d.from = from /\ d.cursor = from /\ d.acc = <<>>
          /\ ~d.lag /\ ~d.late
      BY <1>4, ExpectConstants DEF Idle, CallSet, Pcs
    <3> HIDE DEF c, head
    <3>2. QED
      BY <1>1, <3>1, FreshHolds
  <2>2. PICK strip \in Strips, timed \in BOOLEAN :
          \/ Begins(s, c(strip, timed, consumer_cursor[s])) /\ UNCHANGED consumed
          \/ \E from_seq \in FromSeqs :
               /\ Begins(s, c(strip, timed, from_seq))
               /\ consumed' = [consumed EXCEPT ![s] = IF from_seq < @ THEN from_seq ELSE @]
    BY <1>7 DEF ExpectCall
  <2> HIDE DEF c, head
  <2>3. CASE Begins(s, c(strip, timed, consumer_cursor[s])) /\ UNCHANGED consumed
    <3>1. PICK e : e = consumed[s] /\ consumed' = [consumed EXCEPT ![s] = e]
      BY <2>3, Alone
    <3>2. PICK d : d = c(strip, timed, consumer_cursor[s])
      OBVIOUS
    <3>3. Begins(s, d) /\ d \in CallSet /\ d.from = consumer_cursor[s] /\ Holds(d, head) /\ HasMatch(d)
      BY <1>2, <2>1, <2>3, <3>2
    <3>4. e \in Nat /\ e <= consumed[s]
      BY <1>2, <3>1
    <3>5. QED
      BY <1>3, <3>1, <3>3, <3>4 DEF Begins
  <2>4. ASSUME NEW from_seq \in FromSeqs, Begins(s, c(strip, timed, from_seq)),
               consumed' = [consumed EXCEPT ![s] = IF from_seq < @ THEN from_seq ELSE @]
        PROVE  ExpectInv'
    <3>1. from_seq \in Nat
      BY ExpectConstants
    <3>2. PICK d : d = c(strip, timed, from_seq)
      OBVIOUS
    <3>3. Begins(s, d) /\ d \in CallSet /\ d.from = from_seq /\ Holds(d, head) /\ HasMatch(d)
      BY <2>1, <2>4, <3>1, <3>2
    <3>4. PICK e : e = IF from_seq < consumed[s] THEN from_seq ELSE consumed[s]
      OBVIOUS
    <3>5. e \in Nat /\ e <= from_seq /\ e <= consumed[s]
      BY <1>2, <3>1, <3>4
    <3>6. consumed' = [consumed EXCEPT ![s] = e]
      BY <2>4, <3>4
    <3>7. QED
      BY <1>3, <3>3, <3>5, <3>6 DEF Begins
  <2>5. QED
    BY <2>2, <2>3, <2>4
<1>8. QED
  BY <1>5, <1>6, <1>7

\* A push of the owner.
LEMMA PushStep ==
  ASSUME ExpectInv, PushBytes
  PROVE  ExpectInv'
<1>1. PICK n \in 1..MaxChunk :
        ring.head_seq + n <= Len(script) /\ ring' = Push(ring, Fresh(ring, n))
  BY DEF PushBytes
<1>2. /\ notifying' = TRUE /\ script' = script /\ call' = call /\ consumer_cursor' = consumer_cursor
      /\ answer' = answer /\ consumed' = consumed /\ skewed' = skewed
  BY DEF PushBytes
<1>3. n \in Nat \ {0}
  BY ExpectConstants
<1> DEFINE r == ring'
           head == ring.head_seq
<1>4. Sound(ring) /\ head \in Nat
  BY DEF ExpectInv, ExpectTyped, Sound
<1>5. Sound(r) /\ r.head_seq = head + n
  BY <1>1, <1>3, <1>4, PushSound
<1>6. Sound(ring)'
  BY <1>5 DEF Sound
<1>7. r.head_seq \in Nat /\ r.head_seq >= head /\ r.head_seq <= Len(script)
  BY <1>1, <1>3, <1>4, <1>5
<1>8. ExpectTyped'
  BY <1>2, <1>6, <1>7 DEF ExpectInv, ExpectTyped
<1>9. ASSUME NEW s \in Sessions
      PROVE  Holds(call[s], r.head_seq) /\ consumed[s] <= r.head_seq
  <2>1. call[s] \in CallSet /\ Holds(call[s], head) /\ consumed[s] \in Nat /\ consumed[s] <= head
    BY DEF ExpectInv, ExpectTyped, Holding, Eaten
  <2> HIDE DEF r, head
  <2>2. Holds(call[s], r.head_seq)
    BY <1>4, <1>7, <2>1, HoldsOn
  <2>3. QED
    BY <1>4, <1>7, <2>1, <2>2
<1>10. Holding'
  BY <1>2, <1>9 DEF Holding, Holds
<1>11. Eaten'
  BY <1>2, <1>9 DEF ExpectInv, Eaten
<1>12. Matching' /\ Answers'
  BY <1>2, SameScript DEF ExpectInv, Matching, Answers
<1>13. ConsumedOnce' /\ NeverPastMatch'
  BY <1>2 DEF ExpectInv, ConsumedOnce, NeverPastMatch
<1>14. QED
  BY <1>8, <1>10, <1>11, <1>12, <1>13 DEF ExpectInv

\* The end of a push.
LEMMA NotifyStep ==
  ASSUME ExpectInv, NotifyWaiters
  PROVE  ExpectInv'
<1>1. /\ notifying' = FALSE /\ script' = script /\ ring' = ring /\ consumer_cursor' = consumer_cursor
      /\ answer' = answer /\ consumed' = consumed /\ skewed' = skewed
      /\ call' = [s \in Sessions |->
           IF call[s].pc = "parked" THEN [call[s] EXCEPT !.pc = "look"] ELSE call[s]]
  BY DEF NotifyWaiters
<1> DEFINE head == ring.head_seq
<1>2. ASSUME NEW s \in Sessions
      PROVE  /\ call'[s] \in CallSet /\ Holds(call'[s], head) /\ HasMatch(call'[s])
             /\ call'[s].from = call[s].from
             /\ call'[s].pc \in {"idle", "queue", "write"} <=> call[s].pc \in {"idle", "queue", "write"}
  <2>1. call[s] \in CallSet /\ Holds(call[s], head) /\ HasMatch(call[s])
    BY DEF ExpectInv, ExpectTyped, Holding, Matching
  <2>2. CASE call[s].pc = "parked"
    <3>1. PICK c : c = call'[s]
      OBVIOUS
    <3>2. c = [call[s] EXCEPT !.pc = "look"]
      BY <1>1, <2>2, <3>1
    <3>3. /\ c \in CallSet /\ c.pc = "look" /\ c.from = call[s].from /\ c.cursor = call[s].cursor
          /\ c.acc = call[s].acc /\ c.lag = call[s].lag /\ c.late = call[s].late
          /\ c.due = call[s].due
      BY <2>1, <3>2 DEF CallSet, Pcs
    <3>4. Holds(c, head) /\ HasMatch(c)
      BY <2>1, <2>2, <3>3 DEF Holds, HasMatch
    <3>5. QED
      BY <2>2, <3>1, <3>3, <3>4
  <2>3. CASE call[s].pc # "parked"
    <3>1. call'[s] = call[s]
      BY <1>1, <2>3
    <3>2. QED
      BY <2>1, <3>1
  <2>4. QED
    BY <2>2, <2>3
<1>3. ExpectTyped'
  <2>1. call' \in [Sessions -> CallSet]
    BY <1>1, <1>2
  <2>2. QED
    BY <1>1, <2>1 DEF ExpectInv, ExpectTyped, Sound
<1>4. Holding'
  BY ZenonT(40), <1>1, <1>2 DEF Holding, Holds
<1>5. Matching' /\ Answers'
  BY <1>1, <1>2, SameScript DEF ExpectInv, Answers
<1>6. Eaten'
  BY <1>1, <1>2 DEF ExpectInv, Eaten
<1>7. ConsumedOnce' /\ NeverPastMatch'
  BY <1>1 DEF ExpectInv, ConsumedOnce, NeverPastMatch
<1>8. QED
  BY <1>3, <1>4, <1>5, <1>6, <1>7 DEF ExpectInv

\* A step that changes no more than the call, or ends it.
LEMMA CallStep ==
  ASSUME ExpectInv, NEW s \in Sessions, NEW c, NEW a,
         call' = [call EXCEPT ![s] = c], answer' = [answer EXCEPT ![s] = a],
         UNCHANGED <<script, ring, notifying, consumer_cursor, consumed, skewed>>,
         c \in CallSet, Holds(c, ring.head_seq), HasMatch(c),
         a \in EndSet, Right(a), Honest(a), a.kind # "match" \/ a = answer[s],
         \/ c.pc \in {"idle", "queue", "write"} \/ c.from = ring.head_seq
         \/ c.from = call[s].from /\ call[s].pc \notin {"idle", "queue", "write"}
  PROVE  ExpectInv'
<1> DEFINE head == ring.head_seq
<1>1. /\ Keeps(call[s], answer[s], consumer_cursor[s], consumed[s], skewed[s], head)
      /\ head \in Nat
  BY KeepsNow
<1>2. Goes(s, c, a, consumer_cursor[s], consumed[s], skewed[s])
  BY Alone DEF Goes
<1>3. Keeps(c, a, consumer_cursor[s], consumed[s], skewed[s], head)
  BY <1>1 DEF Keeps
<1>4. QED
  BY <1>2, <1>3, GoesOn

\* The end of a run's wait for the lock.
LEMMA LockStep ==
  ASSUME ExpectInv, NEW s \in Sessions, AcquireLock(s)
  PROVE  ExpectInv'
<1> DEFINE head == ring.head_seq
<1>1. /\ Keeps(call[s], answer[s], consumer_cursor[s], consumed[s], skewed[s], head)
      /\ head \in Nat
  BY KeepsNow
<1>2. /\ call[s].pc = "queue"
      /\ UNCHANGED <<script, ring, notifying, consumer_cursor, consumed, skewed>>
  BY DEF AcquireLock
<1>3. /\ call[s] \in CallSet /\ answer[s] \in EndSet /\ Right(answer[s]) /\ Honest(answer[s])
      /\ Holds(call[s], head)
  BY <1>1 DEF Keeps
<1>4. CASE Ends(s, NoAnswer)
  BY <1>1, <1>2, <1>4, CallStep, IdleFine, NoAnswerFine DEF Ends
<1>5. CASE call' = [call EXCEPT ![s].pc = "write"] /\ UNCHANGED answer
  <2>1. PICK c : c = [call[s] EXCEPT !.pc = "write"]
    OBVIOUS
  <2>2. call' = [call EXCEPT ![s] = c]
    BY <1>5, <2>1 DEF ExpectInv, ExpectTyped
  <2>3. /\ c \in CallSet /\ c.from = call[s].from /\ c.cursor = call[s].cursor /\ c.pc = "write"
        /\ c.acc = call[s].acc /\ c.lag = call[s].lag /\ c.late = call[s].late
    BY <1>3, <2>1 DEF CallSet, Pcs
  <2>4. Holds(c, head) /\ HasMatch(c)
    BY <1>2, <1>3, <2>3 DEF Holds, HasMatch
  <2>5. answer' = [answer EXCEPT ![s] = answer[s]]
    BY <1>5, Alone
  <2>6. QED
    BY <1>2, <1>3, <2>2, <2>3, <2>4, <2>5, CallStep
<1>6. QED
  BY <1>4, <1>5 DEF AcquireLock

\* The owner answers a job.
LEMMA WriteStep ==
  ASSUME ExpectInv, NEW s \in Sessions, WriteJob(s)
  PROVE  ExpectInv'
<1> DEFINE head == ring.head_seq
<1>1. /\ Keeps(call[s], answer[s], consumer_cursor[s], consumed[s], skewed[s], head)
      /\ head \in Nat
  BY KeepsNow
<1>2. call[s].pc = "write" /\ UNCHANGED <<script, ring, notifying, consumer_cursor, consumed, skewed>>
  BY DEF WriteJob
<1>3. /\ call[s] \in CallSet /\ answer[s] \in EndSet /\ Right(answer[s]) /\ Honest(answer[s])
      /\ Holds(call[s], head)
  BY <1>1 DEF Keeps
<1>4. CASE Ends(s, NoAnswer)
  BY <1>1, <1>2, <1>4, CallStep, IdleFine, NoAnswerFine DEF Ends
<1>5. CASE /\ call' = [call EXCEPT ![s].pc = IF call[s].op = "run" THEN "look" ELSE "acked",
                                   ![s].from = ring.head_seq, ![s].cursor = ring.head_seq]
           /\ UNCHANGED answer
  <2>1. PICK pc \in {"look", "acked"} : pc = IF call[s].op = "run" THEN "look" ELSE "acked"
    OBVIOUS
  <2>2. PICK c : c = [call[s] EXCEPT !.pc = pc, !.from = head, !.cursor = head]
    OBVIOUS
  <2>3. call' = [call EXCEPT ![s] = c]
    BY <1>5, <2>1, <2>2 DEF ExpectInv, ExpectTyped
  <2>4. /\ c \in CallSet /\ c.from = head /\ c.cursor = head /\ c.acc = call[s].acc /\ c.pc = pc
        /\ c.lag = call[s].lag /\ c.late = call[s].late
    BY <1>1, <1>3, <2>2 DEF CallSet, Pcs
  <2>5. c.acc = <<>> /\ ~c.lag /\ ~c.late /\ c.pc \notin {"read", "matched"}
    BY <1>2, <1>3, <2>1, <2>4 DEF Holds
  <2>6. Holds(c, head) /\ HasMatch(c)
    BY <1>1, <2>4, <2>5, FreshHolds
  <2>7. answer' = [answer EXCEPT ![s] = answer[s]]
    BY <1>5, Alone
  <2>8. QED
    BY <1>2, <1>3, <2>3, <2>4, <2>6, <2>7, CallStep
<1>6. QED
  BY <1>4, <1>5 DEF WriteJob

\* The answer of a send.
LEMMA SendEndStep ==
  ASSUME ExpectInv, NEW s \in Sessions, SendEnd(s)
  PROVE  ExpectInv'
<1> DEFINE head == ring.head_seq
<1>1. /\ Keeps(call[s], answer[s], consumer_cursor[s], consumed[s], skewed[s], head)
      /\ head \in Nat
  BY KeepsNow
<1>2. /\ call[s].pc = "acked" /\ call[s] \in CallSet
      /\ consumer_cursor[s] \in Nat /\ consumed[s] \in Nat /\ skewed[s] \in BOOLEAN
  BY <1>1 DEF SendEnd, Keeps
<1>3. PICK k : k = IF call[s].eat THEN call[s].from + SentBytes ELSE consumer_cursor[s]
  OBVIOUS
<1>4. consumer_cursor' = [consumer_cursor EXCEPT ![s] = k]
  BY <1>3 DEF SendEnd
<1>5. Goes(s, Idle, NoAnswer, k, consumed[s], skewed[s])
  BY <1>4, Alone DEF SendEnd, Ends, Goes
<1>6. /\ call[s].from \in Nat /\ SentBytes \in Nat
      /\ ~skewed[s] => consumed[s] <= consumer_cursor[s] /\ consumed[s] <= call[s].from
  BY <1>1, <1>2, ExpectConstants DEF Keeps, CallSet
<1>7. k \in Nat /\ (~skewed[s] => consumed[s] <= k)
  BY <1>2, <1>3, <1>6
<1>8. Keeps(Idle, NoAnswer, k, consumed[s], skewed[s], head)
  BY <1>1, <1>2, <1>7, IdleFine, NoAnswerFine DEF Keeps
<1>9. QED
  BY <1>5, <1>8, GoesOn

\* Waiting, and the end of it.
LEMMA WaitSteps ==
  ASSUME ExpectInv, NEW s \in Sessions, Park(s) \/ Deadline(s) \/ Expire(s)
  PROVE  ExpectInv'
<1> DEFINE head == ring.head_seq
<1>1. /\ Keeps(call[s], answer[s], consumer_cursor[s], consumed[s], skewed[s], head)
      /\ head \in Nat
  BY KeepsNow
<1>2. /\ call[s] \in CallSet /\ answer[s] \in EndSet /\ Right(answer[s]) /\ Honest(answer[s])
      /\ Holds(call[s], head)
  BY <1>1 DEF Keeps
<1>3. /\ UNCHANGED <<script, ring, notifying, consumer_cursor, consumed, skewed>>
      /\ call[s].pc \in {"look", "read", "gap", "parked"}
      /\ answer' = [answer EXCEPT ![s] = answer[s]]
  BY Alone DEF Park, Deadline, Expire
<1>4. PICK c \in CallSet :
        /\ call' = [call EXCEPT ![s] = c]
        /\ c.pc \in {"look", "read", "gap", "parked"}
        /\ c.from = call[s].from /\ c.cursor = call[s].cursor /\ c.acc = call[s].acc
        /\ c.lag = call[s].lag /\ c.strip = call[s].strip
        /\ c.pc = "read" => call[s].pc = "read" /\ c.due = c.cursor
        /\ c.late => c.due \in {head, c.cursor} \/ (call[s].late /\ c.due = call[s].due)
  <2>1. call \in [Sessions -> CallSet]
    BY DEF ExpectInv, ExpectTyped
  <2>2. CASE Park(s)
    <3>1. PICK c : c = [call[s] EXCEPT !.pc = "parked"]
      OBVIOUS
    <3>2. call' = [call EXCEPT ![s] = c]
      BY <2>1, <2>2, <3>1 DEF Park
    <3>3. /\ c \in CallSet /\ c.pc = "parked" /\ c.from = call[s].from /\ c.cursor = call[s].cursor
          /\ c.acc = call[s].acc /\ c.lag = call[s].lag /\ c.late = call[s].late
          /\ c.due = call[s].due /\ c.strip = call[s].strip
      BY <1>2, <3>1 DEF CallSet, Pcs
    <3>4. QED
      BY <3>2, <3>3
  <2>3. CASE Deadline(s)
    <3>1. PICK due : due = IF call[s].pc = "read" THEN call[s].cursor ELSE head
      OBVIOUS
    <3>2. PICK c : c = [call[s] EXCEPT !.late = TRUE, !.due = due]
      OBVIOUS
    <3>3. call' = [call EXCEPT ![s] = c]
      BY <2>1, <2>3, <3>1, <3>2 DEF Deadline
    <3>4. due \in Nat
      BY <1>1, <1>2, <3>1 DEF CallSet
    <3>5. /\ c \in CallSet /\ c.pc = call[s].pc /\ c.from = call[s].from /\ c.cursor = call[s].cursor
          /\ c.acc = call[s].acc /\ c.lag = call[s].lag /\ c.strip = call[s].strip /\ c.due = due
      BY <1>2, <3>2, <3>4 DEF CallSet, Pcs
    <3>6. c.pc \in {"look", "read", "gap", "parked"}
      BY <1>3, <3>5
    <3>7. /\ c.due \in {head, c.cursor}
          /\ c.pc = "read" => call[s].pc = "read" /\ c.due = c.cursor
      BY <3>1, <3>5
    <3>8. QED
      BY <3>3, <3>5, <3>6, <3>7
  <2>4. CASE Expire(s)
    <3>1. PICK c : c = [call[s] EXCEPT !.pc = "look"]
      OBVIOUS
    <3>2. call' = [call EXCEPT ![s] = c]
      BY <2>1, <2>4, <3>1 DEF Expire
    <3>3. /\ c \in CallSet /\ c.pc = "look" /\ c.from = call[s].from /\ c.cursor = call[s].cursor
          /\ c.acc = call[s].acc /\ c.lag = call[s].lag /\ c.late = call[s].late
          /\ c.due = call[s].due /\ c.strip = call[s].strip
      BY <1>2, <3>1 DEF CallSet, Pcs
    <3>4. QED
      BY <3>2, <3>3
  <2>5. QED
    BY <2>2, <2>3, <2>4
<1>5. HasMatch(c)
  <2>1. HasMatch(call[s])
    BY <1>1 DEF Keeps
  <2>2. QED
    BY <1>4, <2>1 DEF HasMatch
<1>6. c.late => c.due <= head \/ c.due <= c.from
  <2>1. /\ c.from \in Nat /\ c.cursor \in Nat /\ (c.cursor = c.from \/ c.cursor <= head)
        /\ call[s].late => call[s].due <= head \/ call[s].due <= c.from
    BY <1>2, <1>4 DEF CallSet, Holds
  <2>2. QED
    BY <1>1, <1>4, <2>1
<1>7. c.late /\ c.pc = "read" => c.due <= c.cursor
  BY <1>4 DEF CallSet
<1>8. Holds(c, head)
  BY <1>1, <1>2, <1>3, <1>4, <1>6, <1>7 DEF Holds
<1>9. QED
  BY <1>2, <1>3, <1>4, <1>5, <1>8, CallStep

\* How a call that is given up ends.
LEMMA OutcomeFields ==
  ASSUME NEW c \in CallSet, NEW kind \in {"match", "timeout", "overflow"}
  PROVE  /\ Outcome(c, kind) \in EndSet
         /\ Outcome(c, kind).kind = kind /\ Outcome(c, kind).from = c.from
         /\ Outcome(c, kind).strip = c.strip /\ Outcome(c, kind).lag = c.lag
         /\ Outcome(c, kind).due = c.due
BY DEF Outcome, NoAnswer, CallSet, EndSet

\* A turn of the loop.
LEMMA LookStep ==
  ASSUME ExpectInv, NEW s \in Sessions, Look(s)
  PROVE  ExpectInv'
<1> DEFINE head == ring.head_seq
<1>1. PICK c : c = Collect(call[s], ReadFrom(ring, call[s].cursor))
  OBVIOUS
<1> DEFINE hit == Found(Haystack(c.strip, c.acc)) # {}
<1>2. /\ call[s].pc = "look"
      /\ UNCHANGED <<script, ring, notifying, consumer_cursor, consumed, skewed>>
      /\ \/ /\ hit
            /\ call' = [call EXCEPT ![s] = [c EXCEPT !.pc = "matched"]]
            /\ UNCHANGED answer
         \/ ~hit /\ TooMuch(c) /\ Ends(s, Outcome(c, "overflow"))
         \/ /\ ~hit /\ ~TooMuch(c)
            /\ call' = [call EXCEPT ![s] = [c EXCEPT !.pc = "read"]]
            /\ UNCHANGED answer
  BY <1>1 DEF Look
<1>3. /\ Keeps(call[s], answer[s], consumer_cursor[s], consumed[s], skewed[s], head)
      /\ head \in Nat /\ Sound(ring)
  BY KeepsNow DEF ExpectInv, ExpectTyped
<1>4. /\ call[s] \in CallSet /\ answer[s] \in EndSet /\ Right(answer[s]) /\ Honest(answer[s])
      /\ Holds(call[s], head)
  BY <1>3 DEF Keeps
<1>5. /\ c \in CallSet /\ c.from = call[s].from /\ c.strip = call[s].strip /\ c.due = call[s].due
      /\ c.late = call[s].late /\ c.pc = "look" /\ c.cursor >= head
      /\ Len(c.acc) <= MaxBytes => Holds(c, head)
      /\ Holds([c EXCEPT !.pc = "matched"], head)
  BY <1>1, <1>2, <1>3, <1>4, CollectHolds
<1>6. c.acc \in Seq(Nat) /\ Len(c.acc) \in Nat /\ c.from \in Nat /\ c.cursor \in Nat /\ c.due \in Nat
  BY <1>5 DEF CallSet
<1>7. answer' = answer => answer' = [answer EXCEPT ![s] = answer[s]]
  BY Alone
<1> HIDE DEF hit
<1>8. CASE hit /\ call' = [call EXCEPT ![s] = [c EXCEPT !.pc = "matched"]] /\ UNCHANGED answer
  <2>1. PICK d : d = [c EXCEPT !.pc = "matched"]
    OBVIOUS
  <2>2. d \in CallSet /\ d.from = c.from /\ d.acc = c.acc /\ d.strip = c.strip
    BY <1>5, <2>1 DEF CallSet, Pcs
  <2>3. Holds(d, head) /\ HasMatch(d)
    BY <1>5, <1>8, <2>1, <2>2 DEF HasMatch, hit
  <2>4. call' = [call EXCEPT ![s] = d]
    BY <1>8, <2>1
  <2>5. QED
    BY <1>2, <1>4, <1>5, <1>7, <1>8, <2>2, <2>3, <2>4, CallStep
<1>9. CASE ~hit /\ TooMuch(c) /\ Ends(s, Outcome(c, "overflow"))
  <2>1. PICK a : a = Outcome(c, "overflow")
    OBVIOUS
  <2>2. a \in EndSet /\ a.kind = "overflow"
    BY <1>5, <2>1, OutcomeFields
  <2>3. Right(a) /\ Honest(a)
    BY <2>2 DEF Right, Honest
  <2>4. QED
    BY <1>2, <1>3, <1>9, <2>1, <2>2, <2>3, IdleFine, CallStep DEF Ends
<1>10. CASE /\ ~hit /\ ~TooMuch(c)
            /\ call' = [call EXCEPT ![s] = [c EXCEPT !.pc = "read"]]
            /\ UNCHANGED answer
  <2>1. PICK d : d = [c EXCEPT !.pc = "read"]
    OBVIOUS
  <2>2. /\ d \in CallSet /\ d.from = c.from /\ d.acc = c.acc /\ d.strip = c.strip /\ d.pc = "read"
        /\ d.cursor = c.cursor /\ d.lag = c.lag /\ d.late = c.late /\ d.due = c.due
    BY <1>5, <2>1 DEF CallSet, Pcs
  <2>3. Len(c.acc) <= MaxBytes
    BY <1>6, <1>10, ExpectConstants DEF TooMuch
  <2>4. Holds(c, head) /\ c.cursor >= c.from
    BY <1>5, <2>3 DEF Holds
  <2>5. c.late => c.due <= c.cursor
    BY <1>3, <1>5, <1>6, <2>4 DEF Holds
  <2>6. Holds(d, head)
    BY <2>2, <2>3, <2>4, <2>5 DEF Holds
  <2>7. HasMatch(d)
    BY <1>10, <2>2 DEF HasMatch, hit
  <2>8. call' = [call EXCEPT ![s] = d]
    BY <1>10, <2>1
  <2>9. QED
    BY <1>2, <1>4, <1>5, <1>7, <1>10, <2>2, <2>6, <2>7, <2>8, CallStep
<1>11. QED
  BY <1>2, <1>8, <1>9, <1>10

\* The clock.  What was searched before the call gives up begins like all that had
\* come when its time was up, or when it last read, so that nothing in that matched.
LEMMA TimeStep ==
  ASSUME ExpectInv, NEW s \in Sessions, CheckTime(s)
  PROVE  ExpectInv'
<1> DEFINE head == ring.head_seq
<1>1. PICK c : c = call[s]
  OBVIOUS
<1>2. /\ c.pc = "read"
      /\ UNCHANGED <<script, ring, notifying, consumer_cursor, consumed, skewed>>
      /\ \/ c.late /\ Ends(s, Outcome(c, "timeout"))
         \/ ~c.late /\ call' = [call EXCEPT ![s].pc = "gap"] /\ UNCHANGED answer
  BY <1>1 DEF CheckTime
<1>3. /\ Keeps(c, answer[s], consumer_cursor[s], consumed[s], skewed[s], head)
      /\ head \in Nat
  BY <1>1, KeepsNow
<1>4. /\ c \in CallSet /\ answer[s] \in EndSet /\ Right(answer[s]) /\ Honest(answer[s])
      /\ Holds(c, head) /\ Found(Haystack(c.strip, c.acc)) = {}
  BY <1>2, <1>3 DEF Keeps, HasMatch
<1>5. c.acc \in Seq(Nat) /\ c.from \in Nat /\ c.cursor \in Nat /\ c.due \in Nat
  BY <1>4 DEF CallSet
<1>6. CASE c.late /\ Ends(s, Outcome(c, "timeout"))
  <2>1. PICK a : a = Outcome(c, "timeout")
    OBVIOUS
  <2>2. a \in EndSet /\ a.kind = "timeout" /\ a.from = c.from /\ a.strip = c.strip /\ a.lag = c.lag
        /\ a.due = c.due
    BY <1>4, <2>1, OutcomeFields
  <2>3. ASSUME ~a.lag PROVE Found(Haystack(a.strip, Output(a.from, a.due))) = {}
    <3>1. c.acc = Stretch(c.from, c.cursor) /\ c.due <= c.cursor /\ c.cursor >= c.from
      BY <1>2, <1>4, <1>6, <2>2, <2>3 DEF Holds
    <3>2. PICK early : early = Output(c.from, c.due)
      OBVIOUS
    <3>3. early \in Seq(Nat) /\ Leads(early, c.acc)
      <4>1. CASE c.due <= c.from
        BY <1>5, <3>2, <4>1, OutputStretch, NothingLeads
      <4>2. CASE c.due > c.from
        <5>1. PICK from \in Nat, due \in Nat, cursor \in Nat :
                from = c.from /\ due = c.due /\ cursor = c.cursor /\ from <= due /\ due <= cursor
          BY <1>5, <3>1, <4>2
        <5>2. Output(from, due) = Stretch(from, due) /\ Output(from, due) \in Seq(Nat)
          BY <5>1, OutputStretch
        <5>3. Leads(Stretch(from, due), Stretch(from, cursor))
          BY <5>1, StretchLeads
        <5>4. QED
          BY <3>1, <3>2, <5>1, <5>2, <5>3
      <4>3. QED
        BY <1>5, <4>1, <4>2
    <3>4. PICK x, y : x = Haystack(c.strip, early) /\ y = Haystack(c.strip, c.acc)
      OBVIOUS
    <3>5. x \in Seq(Nat) /\ y \in Seq(Nat) /\ Leads(x, y)
      BY <1>4, <1>5, <3>3, <3>4, HaystackLeads, HaystackText
    <3>6. Found(x) \subseteq Found(y) /\ Found(y) = {}
      BY <1>4, <3>4, <3>5, FoundLeads
    <3>7. QED
      BY <2>2, <3>2, <3>4, <3>6
  <2>4. Right(a) /\ Honest(a)
    BY <2>2, <2>3 DEF Right, Honest
  <2>5. QED
    BY <1>2, <1>3, <1>6, <2>1, <2>2, <2>4, IdleFine, CallStep DEF Ends
<1>7. CASE ~c.late /\ call' = [call EXCEPT ![s].pc = "gap"] /\ UNCHANGED answer
  <2>1. PICK d : d = [c EXCEPT !.pc = "gap"]
    OBVIOUS
  <2>2. /\ d \in CallSet /\ d.from = c.from /\ d.acc = c.acc /\ d.pc = "gap"
        /\ d.cursor = c.cursor /\ d.lag = c.lag /\ d.late = c.late
    BY <1>4, <2>1 DEF CallSet, Pcs
  <2>3. Holds(d, head) /\ HasMatch(d)
    BY <1>2, <1>4, <1>7, <2>2 DEF Holds, HasMatch
  <2>4. call' = [call EXCEPT ![s] = d]
    BY <1>1, <1>7, <2>1 DEF ExpectInv, ExpectTyped
  <2>5. answer' = [answer EXCEPT ![s] = answer[s]]
    BY <1>7, Alone
  <2>6. QED
    BY <1>1, <1>2, <1>4, <2>2, <2>3, <2>4, <2>5, CallStep
<1>8. QED
  BY <1>2, <1>6, <1>7

\* What is held without a lag is the beginning of the output from where the call
\* began.
LEMMA HeldLeads ==
  ASSUME NEW from \in Nat, NEW cursor \in Nat, NEW head \in Nat, NEW total \in Nat,
         from <= cursor, cursor = from \/ cursor <= head, head <= total
  PROVE  Leads(Stretch(from, cursor), Output(from, total)) /\ Output(from, total) \in Seq(Nat)
<1>1. Output(from, total) \in Seq(Nat)
  BY OutputStretch
<1>2. CASE cursor = from
  <2>1. Stretch(from, cursor) = <<>>
    BY <1>2, StretchNothing
  <2>2. QED
    BY <1>1, <2>1, NothingLeads
<1>3. CASE cursor <= head
  <2>1. from <= total /\ cursor <= total
    BY <1>3
  <2>2. Output(from, total) = Stretch(from, total)
    BY <2>1, OutputStretch
  <2>3. QED
    BY <1>1, <2>1, <2>2, StretchLeads
<1>4. QED
  BY <1>2, <1>3

\* The answer of a match: the first occurrence in what the call holds, which begins
\* like all that it could have waited for; and its end counted in bytes searched.
LEMMA MatchedStep ==
  ASSUME ExpectInv, NEW s \in Sessions, Matched(s)
  PROVE  ExpectInv'
<1>1. PICK c, text, start, hi, end :
        /\ c = call[s] /\ text = Haystack(c.strip, c.acc) /\ start = Min(Found(text))
        /\ hi = text[start + Len(Pattern) - 1]
        /\ end = EndSeq(c, start)
  OBVIOUS
<1> DEFINE head == ring.head_seq
           total == Len(script)
           L == Len(Pattern)
<1>2. PICK a : a = [Outcome(c, "match") EXCEPT !.lo = text[start], !.hi = hi, !.end_seq = end,
                                              !.after = consumed[s]]
  OBVIOUS
<1>3. PICK e : e = IF hi >= consumed[s] THEN hi + 1 ELSE consumed[s]
  OBVIOUS
<1>4. PICK w : w = (skewed[s] \/ c.lag \/ Len(text) # Len(c.acc))
  OBVIOUS
<1>5. /\ c.pc = "matched"
      /\ consumer_cursor' = [consumer_cursor EXCEPT ![s] = end]
      /\ call' = [call EXCEPT ![s] = Idle] /\ answer' = [answer EXCEPT ![s] = a]
      /\ UNCHANGED <<script, ring, notifying>>
  BY <1>1, <1>2 DEF Matched, Ends
<1>6. consumed' = [consumed EXCEPT ![s] = e]
  BY <1>1, <1>3 DEF Matched
<1>7. skewed' = [skewed EXCEPT ![s] = w]
  BY <1>1, <1>4 DEF Matched
<1>8. Goes(s, Idle, a, end, e, w)
  BY <1>5, <1>6, <1>7 DEF Goes
<1>9. /\ Keeps(c, answer[s], consumer_cursor[s], consumed[s], skewed[s], head)
      /\ head \in Nat
  BY <1>1, KeepsNow
<1>10. /\ c \in CallSet /\ consumed[s] \in Nat /\ skewed[s] \in BOOLEAN
       /\ Holds(c, head) /\ consumed[s] <= head
       /\ ~skewed[s] => consumed[s] <= c.from
       /\ Found(text) # {}
  BY <1>1, <1>5, <1>9 DEF Keeps, HasMatch
<1>11. total \in Nat /\ head <= total
  <2>1. script \in Seq(STRING)
    BY ExpectConstants DEF ExpectInv, ExpectTyped
  <2>2. QED
    BY <2>1 DEF ExpectInv, ExpectTyped
<1>12. L \in Nat \ {0}
  BY ExpectConstants
<1>13. PICK from \in Nat, cursor \in Nat, acc \in Seq(Nat), lag \in BOOLEAN, strip \in BOOLEAN :
         from = c.from /\ cursor = c.cursor /\ acc = c.acc /\ lag = c.lag /\ strip = c.strip
  BY <1>10 DEF CallSet
<1> HIDE DEF head, total, L
<1>14. /\ from <= cursor /\ (cursor = from \/ cursor <= head)
       /\ \A i \in 1..Len(acc) : acc[i] >= from + i - 1 /\ acc[i] < head
       /\ ~lag => acc = Stretch(from, cursor)
  BY <1>10, <1>13 DEF Holds
<1>15. text = Haystack(strip, acc)
  BY <1>1, <1>13
<1>16. /\ text \in Seq(Nat)
       /\ \A j \in 1..Len(text) : text[j] >= from + j - 1 /\ text[j] < head
       /\ Len(text) = Len(acc) => text = acc
  BY <1>9, <1>14, <1>15, HaystackShape
<1>17. /\ start \in 1..Len(text) /\ start + L - 1 \in 1..Len(text)
  BY <1>1, <1>10, <1>16, FirstFound DEF L
<1> DEFINE last == start + L - 1
           lo == text[start]
<1>18. /\ lo \in Nat /\ hi \in Nat /\ hi < head
       /\ lo >= from + start - 1 /\ hi >= from + last - 1
       /\ last \in Nat /\ start \in Nat /\ last >= start /\ start >= 1
       /\ end = from + last /\ hi = text[last]
  <2>1. hi = text[last] /\ end = from + start + L - 1
    BY <1>1, <1>13 DEF EndSeq, L
  <2>2. /\ start \in Nat /\ start >= 1 /\ last \in 1..Len(text) /\ Len(text) \in Nat /\ last >= start
        /\ from + start + L - 1 = from + last
    BY <1>12, <1>16, <1>17
  <2>3. last \in Nat
    BY <2>2
  <2> HIDE DEF last
  <2>4. /\ lo \in Nat /\ hi \in Nat /\ lo >= from + start - 1
        /\ hi >= from + last - 1 /\ hi < head
    <3>1. text[start] \in Nat /\ text[start] >= from + start - 1
      BY <1>16, <1>17
    <3>2. text[last] \in Nat /\ text[last] >= from + last - 1 /\ text[last] < head
      BY <1>16, <2>2
    <3>3. QED
      BY <2>1, <3>1, <3>2
  <2>5. QED
    BY <2>1, <2>2, <2>3, <2>4
<1> HIDE DEF last, lo
<1>19. /\ a \in EndSet /\ a.kind = "match" /\ a.from = from /\ a.strip = strip /\ a.lag = lag
       /\ a.lo = lo /\ a.hi = hi /\ a.end_seq = end /\ a.after = consumed[s]
  <2>1. end \in Nat
    BY <1>18
  <2>2. PICK o \in EndSet :
          /\ o = Outcome(c, "match") /\ o.kind = "match" /\ o.from = from /\ o.strip = strip
          /\ o.lag = lag
    BY <1>10, <1>13, OutcomeFields
  <2>3. a = [o EXCEPT !.lo = lo, !.hi = hi, !.end_seq = end, !.after = consumed[s]]
    BY <1>2, <2>2 DEF lo
  <2>4. QED
    BY <1>10, <1>18, <2>1, <2>2, <2>3 DEF EndSet
<1>20. end \in Nat /\ end <= hi + 1 /\ e \in Nat /\ e <= head
  BY <1>3, <1>9, <1>10, <1>18
<1>21. ASSUME ~w PROVE e <= end /\ lo >= consumed[s]
  <2>1. ~skewed[s] /\ ~lag /\ Len(text) = Len(acc)
    BY <1>4, <1>13, <1>21
  <2>2. text = Stretch(from, cursor) /\ consumed[s] <= from
    BY <1>10, <1>13, <1>14, <1>16, <2>1
  <2>3. \A i \in 1 .. cursor - from : Stretch(from, cursor)[i] = from + i - 1
    BY <1>14, StretchSeq
  <2>4. Len(Stretch(from, cursor)) = cursor - from
    BY <1>14, StretchSeq
  <2>5. last \in 1 .. cursor - from
    BY <1>17, <2>2, <2>4 DEF last
  <2>6. hi = from + last - 1
    BY <1>18, <2>2, <2>3, <2>5
  <2>7. QED
    BY <1>3, <1>10, <1>18, <2>2, <2>6
<1>22. Right(a)
  <2>1. PICK all : all = Output(from, total)
    OBVIOUS
  <2>2. PICK whole : whole = Haystack(strip, all)
    OBVIOUS
  <2>3. ASSUME ~lag
        PROVE  lo = whole[Min(Found(whole))] /\ hi = whole[Min(Found(whole)) + Len(Pattern) - 1]
    <3>1. acc = Stretch(from, cursor)
      BY <1>14, <2>3
    <3>2. Leads(acc, all) /\ all \in Seq(Nat)
      BY <1>9, <1>11, <1>14, <2>1, <3>1, HeldLeads
    <3>3. Leads(text, whole) /\ whole \in Seq(Nat)
      BY <1>15, <2>2, <3>2, HaystackLeads, HaystackText
    <3>4. /\ Min(Found(whole)) = start /\ whole[start] = text[start]
          /\ whole[start + Len(Pattern) - 1] = text[start + Len(Pattern) - 1]
      BY <1>1, <1>10, <1>16, <3>3, FirstStays
    <3>5. QED
      BY <1>1, <3>4 DEF lo
  <2>4. QED
    BY <1>19, <2>1, <2>2, <2>3 DEF Right, total
<1>23. Honest(a)
  BY <1>19 DEF Honest
<1>24. w \in BOOLEAN
  BY <1>4, <1>10, <1>13
<1>25. Keeps(Idle, a, end, e, w, head)
  BY <1>9, <1>19, <1>20, <1>21, <1>22, <1>23, <1>24, IdleFine DEF Keeps
<1>26. QED
  BY <1>8, <1>25, GoesOn DEF head

-----------------------------------------------------------------------------
(* The theorems.                                                           *)

\* It holds at first.
LEMMA InitInv == Init => ExpectInv
<1> SUFFICES ASSUME Init PROVE ExpectInv
  OBVIOUS
<1>1. /\ script \in Scripts /\ ring = EmptyRing /\ notifying = FALSE
      /\ call = [s \in Sessions |-> Idle] /\ answer = [s \in Sessions |-> NoAnswer]
      /\ consumer_cursor = [s \in Sessions |-> 0] /\ consumed = [s \in Sessions |-> 0]
      /\ skewed = [s \in Sessions |-> FALSE]
  BY DEF Init
<1>2. Sound(ring) /\ ring.head_seq = 0 /\ 0 \in Nat
  BY <1>1, EmptySound DEF EmptyRing
<1>3. script \in Seq(STRING)
  BY <1>1, ExpectConstants
<1>4. 0 <= Len(script)
  BY <1>3
<1>5. Idle \in CallSet /\ Holds(Idle, 0) /\ HasMatch(Idle) /\ Idle.pc = "idle"
  BY IdleFine
<1>6. ExpectTyped
  BY <1>1, <1>2, <1>4, <1>5, NoAnswerFine DEF ExpectTyped
<1>7. Holding /\ Matching
  BY <1>1, <1>2, <1>5 DEF Holding, Matching
<1>8. Eaten
  BY <1>1, <1>2, <1>5 DEF Eaten
<1>9. Answers /\ ConsumedOnce /\ NeverPastMatch
  BY <1>1, NoAnswerFine DEF Answers, ConsumedOnce, NeverPastMatch
<1>10. QED
  BY <1>6, <1>7, <1>8, <1>9 DEF ExpectInv

\* No step ends it.
LEMMA NextInv == ExpectInv /\ [Next]_vars => ExpectInv'
<1> SUFFICES ASSUME ExpectInv, [Next]_vars PROVE ExpectInv'
  OBVIOUS
<1>1. CASE PushBytes
  BY <1>1, PushStep
<1>2. CASE NotifyWaiters
  BY <1>2, NotifyStep
<1>3. ASSUME NEW s \in Sessions, SendCall(s) \/ RunCall(s) \/ ExpectCall(s) PROVE ExpectInv'
  BY <1>3, BeginSteps
<1>4. ASSUME NEW s \in Sessions, WriteJob(s) PROVE ExpectInv'
  BY <1>4, WriteStep
<1>5. ASSUME NEW s \in Sessions, SendEnd(s) \/ AcquireLock(s) PROVE ExpectInv'
  BY <1>5, SendEndStep, LockStep
<1>6. ASSUME NEW s \in Sessions, Look(s) \/ CheckTime(s) PROVE ExpectInv'
  BY <1>6, LookStep, TimeStep
<1>7. ASSUME NEW s \in Sessions, Park(s) \/ Deadline(s) \/ Expire(s) PROVE ExpectInv'
  BY <1>7, WaitSteps
<1>8. ASSUME NEW s \in Sessions, Matched(s) PROVE ExpectInv'
  BY <1>8, MatchedStep
<1>9. CASE UNCHANGED vars
  <2>1. /\ script' = script /\ ring' = ring /\ notifying' = notifying /\ call' = call
        /\ consumer_cursor' = consumer_cursor /\ answer' = answer /\ consumed' = consumed
        /\ skewed' = skewed
    BY <1>9 DEF vars
  <2>2. ExpectTyped' /\ Holding'
    BY <2>1 DEF ExpectInv, ExpectTyped, Holding, Holds, Sound
  <2>3. Matching' /\ Answers'
    BY <2>1, SameScript DEF ExpectInv, Matching, Answers
  <2>4. Eaten' /\ ConsumedOnce' /\ NeverPastMatch'
    BY <2>1 DEF ExpectInv, Eaten, ConsumedOnce, NeverPastMatch
  <2>5. QED
    BY <2>2, <2>3, <2>4 DEF ExpectInv
<1>10. QED
  BY <1>1, <1>2, <1>3, <1>4, <1>5, <1>6, <1>7, <1>8, <1>9 DEF Next

\* So it holds always.
THEOREM Inductive == Spec => []ExpectInv
BY InitInv, NextInv, PTL DEF Spec

\* The state keeps its shape, and no call collects more than max_bytes and one ring
\* (the limit of `expect_loop` is looked at only after a read).
THEOREM TypeCorrect == Spec => []TypeOK
<1>1. ASSUME ExpectInv PROVE TypeOK
  <2>1. /\ script \in Scripts /\ notifying \in BOOLEAN
        /\ ring.head_seq \in Nat /\ ring.tail_seq \in Nat /\ ring.head_seq <= Len(script)
        /\ consumer_cursor \in [Sessions -> Nat] /\ consumed \in [Sessions -> Nat]
        /\ skewed \in [Sessions -> BOOLEAN]
    BY <1>1 DEF ExpectInv, ExpectTyped, Sound
  <2>2. ring.tail_seq <= ring.head_seq /\ ring.head_seq - ring.tail_seq <= Capacity
    BY <1>1, <2>1, CapacityPositive DEF ExpectInv, ExpectTyped, Sound
  <2>3. Len(ring.buf) <= Capacity
    <3>1. PICK lo \in Nat, hi \in Nat : lo = ring.tail_seq /\ hi = ring.head_seq
      BY <2>1
    <3>2. ring.buf = Stretch(lo, hi)
      BY <1>1, <3>1 DEF ExpectInv, ExpectTyped, Sound
    <3>3. Len(Stretch(lo, hi)) = hi - lo
      BY <2>2, <3>1, StretchSeq
    <3>4. QED
      BY <2>2, <3>1, <3>2, <3>3
  <2>4. script \in Seq(STRING)
    BY <2>1, ExpectConstants
  <2>5. ring.head_seq \in 0..Len(script) /\ ring.tail_seq \in 0..ring.head_seq
    BY <2>1, <2>2, <2>4
  <2>6. ASSUME NEW s \in Sessions
        PROVE  /\ DOMAIN call[s] = DOMAIN Idle /\ DOMAIN answer[s] = DOMAIN NoAnswer
               /\ call[s].pc \in Pcs /\ call[s].op \in {"none", "send", "expect", "run"}
               /\ Len(call[s].acc) <= MaxBytes + Capacity
    <3>1. call[s] \in CallSet /\ answer[s] \in EndSet /\ Holds(call[s], ring.head_seq)
      BY <1>1 DEF ExpectInv, ExpectTyped, Holding
    <3>2. call[s].pc \in Pcs /\ call[s].op \in {"none", "send", "expect", "run"}
      BY <3>1 DEF CallSet
    <3>3. DOMAIN call[s] = DOMAIN Idle
      BY <3>1 DEF CallSet, Idle
    <3>4. DOMAIN answer[s] = DOMAIN NoAnswer
      BY <3>1 DEF EndSet, NoAnswer
    <3>5. QED
      BY <3>1, <3>2, <3>3, <3>4 DEF Holds
  <2>7. QED
    BY <2>1, <2>3, <2>5, <2>6 DEF TypeOK
<1>2. QED
  BY <1>1, Inductive, PTL

\* A match is the first occurrence in all that the device says from where the call
\* began, whatever the pieces in which it came and wherever these cut an escape
\* sequence: `expect_loop` may search what it has and need not wait for more.
THEOREM FirstMatchSafe == Spec => []FirstMatch
<1>1. ExpectInv => FirstMatch
  BY DEF ExpectInv, Answers, Right, FirstMatch
<1>2. QED
  BY <1>1, Inductive, PTL

\* A call that gives up had nothing to match in what came in time, or, if its time
\* ran out after its last read, in what it had read.
THEOREM TimeoutSafe == Spec => []TimeoutHonest
<1>1. ExpectInv => TimeoutHonest
  BY DEF ExpectInv, Answers, Honest, TimeoutHonest
<1>2. QED
  BY <1>1, Inductive, PTL

\* The calls of a session, with one cursor for all of them, match no byte twice.
THEOREM ConsumedSafe == Spec => []ConsumedOnce
<1>1. ExpectInv => ConsumedOnce
  BY DEF ExpectInv
<1>2. QED
  BY <1>1, Inductive, PTL

\* A match never puts the cursor of its session past itself.
THEOREM MatchSafe == Spec => []NeverPastMatch
<1>1. ExpectInv => NeverPastMatch
  BY DEF ExpectInv
<1>2. QED
  BY <1>1, Inductive, PTL
=============================================================================
