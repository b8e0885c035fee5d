----------------------------- MODULE ChunksProofs -----------------------------
(***************************************************************************)
(* What the shell and the decoder make of what they read in chunks, for    *)
(* keys and bytes of any number, cut in any way, and lines of any limit.   *)
(***************************************************************************)
EXTENDS MCChunks, SequenceTheorems, WellFoundedInduction, TLAPS

-----------------------------------------------------------------------------
(* Numbers.                                                                *)

\* A set of numbers has a least one.
LEMMA Least ==
  ASSUME NEW T \in SUBSET Nat, T # {}
  PROVE  \E x \in T : \A y \in T : x <= y
<1> DEFINE R == OpToRel(<, Nat)
<1>1. IsWellFoundedOn(R, Nat)
  BY NatLessThanWellFounded
<1>2. R = {ss \in Nat \X Nat : ss[1] < ss[2]}
  BY DEF OpToRel
<1> HIDE DEF R
<1>3. \E x \in T : \A y \in T : ~ (<<y, x>> \in R)
  BY <1>1, WFMin
<1>4. PICK x \in T : \A y \in T : ~ (<<y, x>> \in R)
  BY <1>3
<1>5. ASSUME NEW y \in T PROVE x <= y
  <2>1. x \in Nat /\ y \in Nat /\ (y < x => <<y, x>> \in R)
    BY <1>2
  <2>2. QED
    BY <2>1, <1>4
<1>6. QED
  BY <1>5

\* What holds of 0, and of the next number whenever it holds of one, holds of
\* all.
LEMMA Induction ==
  ASSUME NEW S \in SUBSET Nat, 0 \in S, \A n \in S : n + 1 \in S
  PROVE  S = Nat
<1> DEFINE T == Nat \ S
<1>1. SUFFICES ASSUME T # {} PROVE FALSE
  OBVIOUS
<1>2. PICK x \in T : \A y \in T : x <= y
  BY <1>1, Least
<1>3. x \in Nat /\ x # 0 /\ x - 1 \in Nat
  BY <1>2
<1>4. x - 1 \in S
  BY <1>2, <1>3
<1>5. (x - 1) + 1 \in S /\ (x - 1) + 1 = x
  BY <1>3, <1>4
<1>6. QED
  BY <1>2, <1>5

-----------------------------------------------------------------------------
(* FoldLeft, a step at a time: over keys with Reads, over bytes with Parse. *)

Start(kind) ==
  IF kind = "keys" THEN [out |-> <<>>, escaped |-> FALSE, over |-> FALSE]
                   ELSE [line |-> <<>>, got |-> <<>>, failed |-> FALSE]
Advance(kind, st, x) == IF kind = "keys" THEN Reads(st, x) ELSE Parse(st, x)

\* What FoldLeft goes by.
Folds(it, kind, seq, S) ==
  it = [s \in SUBSET S |->
          IF s = {} THEN Start(kind)
          ELSE LET x == CHOOSE x \in s : \A y \in s : x >= y IN Advance(kind, it[s \ {x}], seq[x])]

\* It exists.
LEMMA FoldExists ==
  ASSUME NEW kind, NEW seq, NEW n \in Nat
  PROVE  \E it : Folds(it, kind, seq, 1..n)
<1> DEFINE S == {k \in Nat : \E it : Folds(it, kind, seq, 1..k)}
<1>1. 0 \in S
  <2> DEFINE it == [s \in SUBSET {} |-> Start(kind)]
  <2>1. 1..0 = {} /\ \A s \in SUBSET {} : s = {}
    OBVIOUS
  <2>2. Folds(it, kind, seq, {})
    BY <2>1 DEF Folds
  <2> HIDE DEF it
  <2>3. QED
    BY <2>1, <2>2
<1>2. ASSUME NEW k \in S PROVE k + 1 \in S
  <2>1. PICK it : Folds(it, kind, seq, 1..k)
    BY <1>2
  <2>2. k \in Nat /\ k + 1 \in Nat
    BY <1>2
  <2> DEFINE D == SUBSET (1 .. k + 1)
             jt == [s \in D |-> IF k + 1 \in s THEN Advance(kind, it[s \ {k + 1}], seq[k + 1]) ELSE it[s]]
             top(s) == CHOOSE x \in s : \A y \in s : x >= y
  <2>3. ASSUME NEW s \in D
        PROVE  jt[s] = IF s = {} THEN Start(kind) ELSE Advance(kind, jt[s \ {top(s)}], seq[top(s)])
    <3>1. CASE s = {}
      <4>1. k + 1 \notin s /\ s \in SUBSET (1..k)
        BY <3>1
      <4>2. jt[s] = it[s]
        BY <4>1
      <4>3. it[s] = Start(kind)
        BY <2>1, <3>1, <4>1 DEF Folds
      <4>4. QED
        BY <3>1, <4>2, <4>3
    <3>2. CASE k + 1 \in s
      <4>1. \A y \in s : y \in Nat /\ k + 1 >= y
        BY <2>2
      <4>2. top(s) = k + 1
        <5>1. \E x \in s : \A y \in s : x >= y
          BY <3>2, <4>1
        <5>2. top(s) \in s /\ \A y \in s : top(s) >= y
          BY <5>1
        <5>3. top(s) >= k + 1 /\ top(s) \in Nat /\ k + 1 >= top(s)
          BY <3>2, <4>1, <5>2
        <5>4. QED
          BY <2>2, <5>3
      <4>3. s \ {k + 1} \in D /\ k + 1 \notin s \ {k + 1}
        OBVIOUS
      <4>4. jt[s \ {k + 1}] = it[s \ {k + 1}]
        BY <4>3
      <4>5. jt[s] = Advance(kind, it[s \ {k + 1}], seq[k + 1])
        BY <3>2
      <4>6. s # {}
        BY <3>2
      <4> HIDE DEF jt, top
      <4>7. QED
        BY <4>2, <4>4, <4>5, <4>6
    <3>3. CASE k + 1 \notin s /\ s # {}
      <4>1. s \in SUBSET (1..k)
        BY <2>2, <3>3
      <4>2. jt[s] = it[s]
        BY <3>3
      <4>3. it[s] = Advance(kind, it[s \ {top(s)}], seq[top(s)])
        BY <2>1, <3>3, <4>1 DEF Folds
      <4>4. s \ {top(s)} \in D /\ k + 1 \notin s \ {top(s)}
        BY <3>3
      <4> HIDE DEF top
      <4>5. jt[s \ {top(s)}] = it[s \ {top(s)}]
        BY <4>4
      <4> HIDE DEF jt
      <4>6. QED
        BY <3>3, <4>2, <4>3, <4>5
    <3>4. QED
      BY <3>1, <3>2, <3>3
  <2>4. jt = [s \in D |-> IF s = {} THEN Start(kind) ELSE Advance(kind, jt[s \ {top(s)}], seq[top(s)])]
    <3>1. jt = [s \in D |-> jt[s]]
      OBVIOUS
    <3> HIDE DEF jt, top, D
    <3>2. QED
      BY <2>3, <3>1
  <2>5. Folds(jt, kind, seq, 1 .. k + 1)
    <3> HIDE DEF jt
    <3>1. QED
      BY <2>4 DEF Folds
  <2> HIDE DEF jt
  <2>6. QED
    BY <2>2, <2>5
<1>3. S = Nat
  <2>1. S \in SUBSET Nat
    OBVIOUS
  <2> HIDE DEF S
  <2>2. QED
    BY <1>1, <1>2, <2>1, Induction
<1>4. QED
  BY <1>3

\* What the properties take of it.
Yields(kind, seq, st) ==
  /\ kind = "keys" => Meaning(seq) = st.out
  /\ kind = "bytes" => Parsed(seq) = st

\* The states that a fold goes through.
Steps(st, kind, seq) ==
  /\ st = [k \in 0..Len(seq) |-> st[k]]
  /\ st[0] = Start(kind)
  /\ \A k \in 1..Len(seq) : st[k] = Advance(kind, st[k - 1], seq[k])
  /\ Yields(kind, seq, st[Len(seq)])
Way(kind, seq) == CHOOSE st : Steps(st, kind, seq)

\* There is one for every sequence.
LEMMA StepsExist ==
  ASSUME NEW kind \in {"keys", "bytes"}, NEW S, NEW seq \in Seq(S)
  PROVE  Steps(Way(kind, seq), kind, seq)
<1> DEFINE n == Len(seq)
<1>1. n \in Nat /\ DOMAIN seq = 1..n
  OBVIOUS
<1> HIDE DEF n
<1>2. \E it : Folds(it, kind, seq, 1..n)
  BY <1>1, FoldExists
<1>3. \E it : Folds(it, kind, seq, 1..n) /\ Yields(kind, seq, it[1..n])
  <2>1. \E it : Folds(it, kind, seq, DOMAIN seq)
    BY <1>1, <1>2
  <2>2. CASE kind = "keys"
    <3> DEFINE Plainly(it) ==
                 it = [s \in SUBSET DOMAIN seq |->
                        IF s = {} THEN [out |-> <<>>, escaped |-> FALSE, over |-> FALSE]
                        ELSE LET x == CHOOSE x \in s : \A y \in s : x >= y IN Reads(it[s \ {x}], seq[x])]
    <3>1. \A it : Folds(it, kind, seq, DOMAIN seq) <=> Plainly(it)
      BY <2>2 DEF Folds, Start, Advance
    <3>2. \E it : Plainly(it)
      BY ZenonT(40), <2>1, <3>1
    <3>3. \E it : Plainly(it) /\ Meaning(seq) = it[DOMAIN seq].out
      BY <3>2 DEF Meaning, FoldLeft, MapThenFoldSet, Max
    <3> HIDE DEF Plainly
    <3>4. QED
      BY <1>1, <2>2, <3>1, <3>3 DEF Yields
  <2>3. CASE kind = "bytes"
    <3> DEFINE Plainly(it) ==
                 it = [s \in SUBSET DOMAIN seq |->
                        IF s = {} THEN [line |-> <<>>, got |-> <<>>, failed |-> FALSE]
                        ELSE LET x == CHOOSE x \in s : \A y \in s : x >= y IN Parse(it[s \ {x}], seq[x])]
    <3>1. \A it : Folds(it, kind, seq, DOMAIN seq) <=> Plainly(it)
      BY <2>3 DEF Folds, Start, Advance
    <3>2. \E it : Plainly(it)
      BY ZenonT(40), <2>1, <3>1
    <3>3. \E it : Plainly(it) /\ Parsed(seq) = it[DOMAIN seq]
      BY <3>2 DEF Parsed, FoldLeft, MapThenFoldSet, Max
    <3> HIDE DEF Plainly
    <3>4. QED
      BY <1>1, <2>3, <3>1, <3>3 DEF Yields
  <2>4. QED
    BY <2>2, <2>3
<1>4. PICK it : Folds(it, kind, seq, 1..n) /\ Yields(kind, seq, it[1..n])
  BY <1>3
<1> DEFINE st == [k \in 0..n |-> it[1..k]]
<1>5. st[0] = Start(kind)
  <2>1. 1..0 = {} /\ {} \in SUBSET (1..n)
    OBVIOUS
  <2>2. it[{}] = Start(kind)
    BY <1>4, <2>1 DEF Folds
  <2>3. QED
    BY <1>1, <2>1, <2>2
<1>6. ASSUME NEW k \in 1..n PROVE st[k] = Advance(kind, st[k - 1], seq[k])
  <2> DEFINE s == 1..k
             x == CHOOSE x \in s : \A y \in s : x >= y
  <2>1. s \in SUBSET (1..n) /\ s # {} /\ k \in s /\ k - 1 \in 0..n
    <3>1. k \in Nat /\ k >= 1 /\ k <= n
      BY <1>1
    <3>2. \A y \in s : y \in 1..n
      BY <1>1, <3>1
    <3>3. k \in s /\ k - 1 \in 0..n
      BY <1>1, <3>1
    <3> HIDE DEF s
    <3>4. QED
      BY <3>2, <3>3
  <2>2. x = k
    <3>1. \A y \in s : k >= y
      OBVIOUS
    <3>2. \E z \in s : \A y \in s : z >= y
      BY <2>1, <3>1
    <3>3. x \in s /\ \A y \in s : x >= y
      BY <3>2
    <3> HIDE DEF x
    <3>4. QED
      BY <2>1, <3>1, <3>3
  <2>3. it[s] = Advance(kind, it[s \ {x}], seq[x])
    BY <1>4, <2>1 DEF Folds
  <2>4. s \ {k} = 1 .. k - 1
    BY <1>1
  <2>5. st[k] = it[s] /\ st[k - 1] = it[1 .. k - 1]
    BY <1>1, <2>1
  <2> HIDE DEF x, st, s
  <2>6. QED
    BY <2>2, <2>3, <2>4, <2>5
<1>7. st = [k \in 0..n |-> st[k]] /\ Yields(kind, seq, st[n])
  BY <1>1, <1>4
<1>8. n = Len(seq)
  BY DEF n
<1> HIDE DEF st
<1>9. Steps(st, kind, seq)
  BY <1>5, <1>6, <1>7, <1>8 DEF Steps
<1>10. QED
  BY <1>9 DEF Way

-----------------------------------------------------------------------------
(* What is read only adds to what was, and nothing does once it is over.   *)

Things == Keys \cup {"DTR", "ASK"}
Symbols(kind) == IF kind = "keys" THEN Keys ELSE Bytes
States(kind) ==
  IF kind = "keys" THEN [out : Seq(Things), escaped : BOOLEAN, over : BOOLEAN]
                   ELSE [line : Seq(Bytes), got : Seq(Seq(Bytes)), failed : BOOLEAN]

Begins(s, t) == Len(s) <= Len(t) /\ \A i \in 1..Len(s) : s[i] = t[i]
Grows(kind, st, tt) ==
  IF kind = "keys" THEN Begins(st.out, tt.out) /\ (st.over => tt = st)
                   ELSE Begins(st.got, tt.got) /\ (st.failed => tt = st)

\* The library's word for it.
LEMMA BeginsIsPrefix ==
  ASSUME NEW S, NEW s \in Seq(S), NEW t \in Seq(S), Begins(s, t)
  PROVE  IsPrefix(s, t)
<1>1. Len(s) \in Nat /\ Len(t) \in Nat /\ Len(s) <= Len(t)
  BY DEF Begins
<1>2. SubSeq(s, 1, Len(s)) = [i \in 1..Len(s) |-> s[i]] /\ SubSeq(t, 1, Len(s)) = [i \in 1..Len(s) |-> t[i]]
  BY <1>1
<1>3. QED
  BY <1>1, <1>2 DEF Begins, IsPrefix

\* One more thing at the end.
LEMMA AppendGrows ==
  ASSUME NEW S, NEW s \in Seq(S), NEW x \in S
  PROVE  Append(s, x) \in Seq(S) /\ Begins(s, Append(s, x)) /\ Begins(s, s)
BY DEF Begins

\* A key.
LEMMA ReadsSound ==
  ASSUME NEW st \in States("keys"), NEW k \in Keys
  PROVE  Reads(st, k) \in States("keys") /\ Grows("keys", st, Reads(st, k))
<1>1. PICK out \in Seq(Things), escaped \in BOOLEAN, over \in BOOLEAN :
        st = [out |-> out, escaped |-> escaped, over |-> over]
  BY DEF States
<1> DEFINE St(o, e, v) == [out |-> o, escaped |-> e, over |-> v]
<1>2. ASSUME NEW o \in Seq(Things), NEW e \in BOOLEAN, NEW v \in BOOLEAN
      PROVE  St(o, e, v) \in States("keys") /\ St(o, e, v).out = o
  BY <1>2 DEF States
<1>3. \A x \in Things : Append(out, x) \in Seq(Things) /\ Begins(out, Append(out, x)) /\ Begins(out, out)
  BY AppendGrows
<1>4. k \in Things /\ "DTR" \in Things /\ "ASK" \in Things /\ CtrlA \in Things
  BY DEF Things, Keys
<1>5. st.over = over /\ st.escaped = escaped /\ st.out = out
  BY <1>1
<1>6. CASE over
  <2>1. Reads(st, k) = st
    BY <1>5, <1>6 DEF Reads
  <2>2. QED
    BY <1>3, <1>4, <1>5, <2>1 DEF Grows
<1>7. CASE ~over
  <2>1. \/ Reads(st, k) = St(out, TRUE, over) \/ Reads(st, k) = St(out, FALSE, over)
        \/ Reads(st, k) = St(out, escaped, TRUE)
        \/ \E x \in {k, "DTR", "ASK"} : \/ Reads(st, k) = St(Append(out, x), escaped, over)
                                        \/ Reads(st, k) = St(Append(out, x), FALSE, over)
    <3>1. CASE ~escaped
      BY <1>1, <1>5, <1>7, <3>1 DEF Reads
    <3>2. CASE escaped /\ k = CtrlA
      BY <1>1, <1>5, <1>7, <3>2 DEF Reads, Keys, CtrlA
    <3>3. CASE escaped /\ k = "q"
      BY <1>1, <1>5, <1>7, <3>3 DEF Reads, Keys, CtrlA
    <3>4. CASE escaped /\ k = "d"
      BY <1>1, <1>5, <1>7, <3>4 DEF Reads, Keys, CtrlA
    <3>5. CASE escaped /\ k = "b"
      BY <1>1, <1>5, <1>7, <3>5 DEF Reads, Keys, CtrlA
    <3>6. CASE escaped /\ k = "x"
      BY <1>1, <1>5, <1>7, <3>6 DEF Reads, Keys, CtrlA
    <3>7. QED
      BY <3>1, <3>2, <3>3, <3>4, <3>5, <3>6 DEF Keys
  <2> HIDE DEF St
  <2>2. \A x \in {k, "DTR", "ASK"} : Append(out, x) \in Seq(Things) /\ Begins(out, Append(out, x))
    BY <1>3, <1>4
  <2>3. out \in Seq(Things) /\ Begins(out, out)
    BY <1>3, <1>4
  <2>4. \E o \in Seq(Things), e \in BOOLEAN, v \in BOOLEAN :
          Reads(st, k) = St(o, e, v) /\ Begins(out, o)
    BY <2>1, <2>2, <2>3
  <2>5. PICK o \in Seq(Things), e \in BOOLEAN, v \in BOOLEAN :
          Reads(st, k) = St(o, e, v) /\ Begins(out, o)
    BY <2>4
  <2>6. Reads(st, k) \in States("keys") /\ Reads(st, k).out = o
    BY <1>2, <2>5
  <2>7. QED
    BY <1>5, <1>7, <2>5, <2>6 DEF Grows
<1>8. QED
  BY <1>6, <1>7

\* A line without the CR at its end is still a line.
LEMMA StripIsLine ==
  ASSUME NEW begun \in Seq(Bytes)
  PROVE  Strip(begun) \in Seq(Bytes)
<1>1. CASE begun # <<>>
  <2>1. Len(begun) \in Nat /\ Len(begun) >= 1
    BY <1>1
  <2>2. \A i \in 1 .. Len(begun) - 1 : begun[i] \in Bytes
    BY <2>1
  <2>3. SubSeq(begun, 1, Len(begun) - 1) \in Seq(Bytes)
    BY <2>1, <2>2
  <2>4. QED
    BY <2>3 DEF Strip, Front
<1>2. QED
  BY <1>1 DEF Strip

\* A byte.
LEMMA ParseSound ==
  ASSUME NEW st \in States("bytes"), NEW b \in Bytes
  PROVE  Parse(st, b) \in States("bytes") /\ Grows("bytes", st, Parse(st, b))
<1>1. PICK begun \in Seq(Bytes), got \in Seq(Seq(Bytes)), failed \in BOOLEAN :
        st = [line |-> begun, got |-> got, failed |-> failed]
  BY DEF States
<1> DEFINE St(l, g, f) == [line |-> l, got |-> g, failed |-> f]
           text == Strip(begun)
           long == Len(begun) >= MAX_LINE_BYTES
           bad == "?" \in Range(text)
<1>2. ASSUME NEW l \in Seq(Bytes), NEW g \in Seq(Seq(Bytes)), NEW f \in BOOLEAN
      PROVE  St(l, g, f) \in States("bytes") /\ St(l, g, f).got = g
  BY <1>2 DEF States
<1>3. text \in Seq(Bytes) /\ Append(begun, b) \in Seq(Bytes) /\ <<>> \in Seq(Bytes)
  BY StripIsLine
<1>4. Append(got, text) \in Seq(Seq(Bytes)) /\ Begins(got, Append(got, text)) /\ Begins(got, got)
  BY <1>3, AppendGrows
<1>5. st.failed = failed /\ st.line = begun /\ st.got = got
  BY <1>1
<1>6. CASE failed
  <2>1. Parse(st, b) = st
    BY <1>5, <1>6 DEF Parse
  <2>2. QED
    BY <1>4, <1>5, <2>1 DEF Grows
<1>7. CASE ~failed
  <2>1. \E l \in {Append(begun, b), <<>>}, g \in {got, Append(got, text)}, f \in BOOLEAN :
          Parse(st, b) = St(l, g, f)
    <3>1. CASE b # LF
      <4>1. Parse(st, b) = St(Append(begun, b), got, long)
        BY <1>1, <1>5, <1>7, <3>1 DEF Parse
      <4>2. long \in BOOLEAN
        OBVIOUS
      <4> HIDE DEF St, long
      <4>3. QED
        BY <4>1, <4>2
    <3>2. CASE b = LF
      <4>1. Parse(st, b) =
              St(<<>>, IF text = <<>> \/ bad \/ long THEN got ELSE Append(got, text), bad \/ long)
        BY <1>5, <1>7, <3>2 DEF Parse
      <4>2. (bad \/ long) \in BOOLEAN
        OBVIOUS
      <4> HIDE DEF St, text, long, bad
      <4>3. QED
        BY <4>1, <4>2
    <3>3. QED
      BY <3>1, <3>2
  <2> HIDE DEF St, text
  <2>2. PICK l \in {Append(begun, b), <<>>}, g \in {got, Append(got, text)}, f \in BOOLEAN :
          Parse(st, b) = St(l, g, f)
    BY <2>1
  <2>3. l \in Seq(Bytes) /\ g \in Seq(Seq(Bytes)) /\ Begins(got, g)
    BY <1>3, <1>4, <2>2
  <2>4. Parse(st, b) \in States("bytes") /\ Parse(st, b).got = g
    BY <1>2, <2>2, <2>3
  <2>5. QED
    BY <1>5, <1>7, <2>3, <2>4 DEF Grows
<1>8. QED
  BY <1>6, <1>7

\* From any state that a fold goes through to any later one.
LEMMA WayGrows ==
  ASSUME NEW kind \in {"keys", "bytes"}, NEW seq \in Seq(Symbols(kind))
  PROVE  /\ \A k \in 0..Len(seq) : Way(kind, seq)[k] \in States(kind)
         /\ \A k, m \in 0..Len(seq) : k <= m => Grows(kind, Way(kind, seq)[k], Way(kind, seq)[m])
<1> DEFINE w == Way(kind, seq)
           n == Len(seq)
<1>1. Steps(w, kind, seq)
  BY StepsExist
<1>2. n \in Nat /\ \A k \in 1..n : seq[k] \in Symbols(kind)
  OBVIOUS
<1>3. w[0] = Start(kind) /\ \A k \in 1..n : w[k] = Advance(kind, w[k - 1], seq[k])
  BY <1>1 DEF Steps
<1> HIDE DEF w, n
<1>4. ASSUME NEW st \in States(kind), NEW x \in Symbols(kind)
      PROVE  Advance(kind, st, x) \in States(kind) /\ Grows(kind, st, Advance(kind, st, x))
  <2>1. CASE kind = "keys"
    BY <2>1, ReadsSound DEF Advance, Symbols
  <2>2. CASE kind = "bytes"
    BY <2>2, ParseSound DEF Advance, Symbols
  <2>3. QED
    BY <2>1, <2>2
<1>5. Start(kind) \in States(kind)
  <2>1. \A S : <<>> \in Seq(S)
    OBVIOUS
  <2>2. QED
    BY <2>1 DEF Start, States
<1>6. \A k \in 0..n : w[k] \in States(kind)
  <2> DEFINE T == {k \in Nat : k <= n => w[k] \in States(kind)}
  <2>1. 0 \in T
    BY <1>3, <1>5
  <2>2. ASSUME NEW k \in T PROVE k + 1 \in T
    <3>1. SUFFICES ASSUME k + 1 <= n PROVE w[k + 1] \in States(kind)
      OBVIOUS
    <3>2. k \in Nat /\ k + 1 \in 1..n /\ (k + 1) - 1 = k /\ w[k] \in States(kind)
      BY <1>2, <3>1
    <3>3. w[k + 1] = Advance(kind, w[k], seq[k + 1])
      BY <1>3, <3>2
    <3>4. QED
      BY <1>2, <1>4, <3>2, <3>3
  <2>3. T = Nat
    <3>1. T \in SUBSET Nat
      OBVIOUS
    <3> HIDE DEF T
    <3>2. QED
      BY <2>1, <2>2, <3>1, Induction
  <2>4. QED
    BY <1>2, <2>3
<1>7. ASSUME NEW S, NEW s \in Seq(S), NEW t \in Seq(S), NEW u \in Seq(S), Begins(s, t), Begins(t, u)
      PROVE  Begins(s, u)
  BY <1>7 DEF Begins
<1>8. ASSUME NEW s \in States(kind), NEW t \in States(kind), NEW u \in States(kind),
             Grows(kind, s, t), Grows(kind, t, u)
      PROVE  Grows(kind, s, u)
  <2>1. CASE kind = "keys"
    <3>1. s.out \in Seq(Things) /\ t.out \in Seq(Things) /\ u.out \in Seq(Things)
      BY <2>1 DEF States
    <3>2. QED
      BY <1>7, <1>8, <2>1, <3>1 DEF Grows
  <2>2. CASE kind = "bytes"
    <3>1. s.got \in Seq(Seq(Bytes)) /\ t.got \in Seq(Seq(Bytes)) /\ u.got \in Seq(Seq(Bytes))
      BY <2>2 DEF States
    <3>2. QED
      BY <1>7, <1>8, <2>2, <3>1 DEF Grows
  <2>3. QED
    BY <2>1, <2>2
<1>9. ASSUME NEW s \in States(kind)
      PROVE  Grows(kind, s, s)
  <2>1. \A q : Len(q) \in Nat => Begins(q, q)
    BY DEF Begins
  <2>2. CASE kind = "keys"
    <3>1. s.out \in Seq(Things)
      BY <2>2 DEF States
    <3>2. QED
      BY <2>1, <2>2, <3>1 DEF Grows
  <2>3. CASE kind = "bytes"
    <3>1. s.got \in Seq(Seq(Bytes))
      BY <2>3 DEF States
    <3>2. QED
      BY <2>1, <2>3, <3>1 DEF Grows
  <2>4. QED
    BY <2>2, <2>3
<1>10. \A d \in Nat : \A k \in 0..n : k + d <= n => Grows(kind, w[k], w[k + d])
  <2> DEFINE T == {d \in Nat : \A k \in 0..n : k + d <= n => Grows(kind, w[k], w[k + d])}
  <2>1. 0 \in T
    <3>1. ASSUME NEW k \in 0..n PROVE Grows(kind, w[k], w[k + 0])
      <4>1. k + 0 = k
        BY <1>2
      <4>2. QED
        BY <1>6, <1>9, <4>1
    <3>2. QED
      BY <3>1
  <2>2. ASSUME NEW d \in T PROVE d + 1 \in T
    <3>1. d \in Nat /\ d + 1 \in Nat
      OBVIOUS
    <3>2. ASSUME NEW k \in 0..n, k + (d + 1) <= n PROVE Grows(kind, w[k], w[k + (d + 1)])
      <4> DEFINE m == k + d
      <4>1. k \in Nat /\ m \in 0..n /\ m + 1 \in 1..n /\ (m + 1) - 1 = m /\ k + (d + 1) = m + 1 /\ k + d <= n
        BY <1>2, <3>1, <3>2
      <4>2. Grows(kind, w[k], w[m])
        BY <4>1
      <4> HIDE DEF m
      <4>3. w[m + 1] = Advance(kind, w[m], seq[m + 1]) /\ seq[m + 1] \in Symbols(kind)
        BY <1>2, <1>3, <4>1
      <4>4. m + 1 \in 0..n
        BY <1>2, <4>1
      <4>5. w[k] \in States(kind) /\ w[m] \in States(kind) /\ w[m + 1] \in States(kind)
        BY <1>6, <4>1, <4>4
      <4>6. Grows(kind, w[m], w[m + 1])
        BY <1>4, <4>3, <4>5
      <4>7. QED
        BY <1>8, <4>1, <4>2, <4>5, <4>6
    <3>3. QED
      BY <3>1, <3>2
  <2>3. T = Nat
    <3>1. T \in SUBSET Nat
      OBVIOUS
    <3> HIDE DEF T
    <3>2. QED
      BY <2>1, <2>2, <3>1, Induction
  <2>4. QED
    BY <2>3
<1>11. ASSUME NEW k \in 0..n, NEW m \in 0..n, k <= m PROVE Grows(kind, w[k], w[m])
  <2>1. k \in Nat /\ m - k \in Nat /\ k + (m - k) = m /\ m <= n
    BY <1>2, <1>11
  <2> DEFINE d == m - k
  <2>2. d \in Nat /\ k + d = m /\ k + d <= n
    BY <2>1
  <2> HIDE DEF d
  <2>3. QED
    BY <1>10, <2>2
<1>12. QED
  BY <1>6, <1>11 DEF w, n

-----------------------------------------------------------------------------
(* The shell: the shape of its state.                                      *)

Requests == [op : {"send", "DTR", "ASK"}, on : BOOLEAN, id : Nat]
Answers == [id : Nat, ok : BOOLEAN]

ShellTyped ==
  /\ typing \in Seq(Keys) /\ unread \in Seq(Keys) /\ chunk \in Seq(Keys) /\ buffer \in Seq(Keys)
  /\ escape_pending \in BOOLEAN /\ dtr_on \in BOOLEAN /\ line \in BOOLEAN
  /\ moved \in BOOLEAN /\ timedout \in BOOLEAN
  /\ next_id \in Nat /\ want \in Nat
  /\ shell \in {"read", "keys", "await", "over"} /\ daemon \in {"up", "closed"}
  /\ sent \in Seq(Things) /\ queue \in Seq(Requests) /\ answers \in Seq(Answers)

\* What Post does to the queue, place by place.
Posted(msgs) ==
  /\ next_id' = next_id + Len(msgs) /\ queue' \in Seq(Requests)
  /\ Len(queue') = IF daemon = "closed" THEN Len(queue) ELSE Len(queue) + Len(msgs)
  /\ \A i \in 1..Len(queue) : queue'[i] = queue[i]
  /\ daemon # "closed" =>
       \A i \in 1..Len(msgs) : /\ queue'[Len(queue) + i].op = msgs[i].op
                               /\ queue'[Len(queue) + i].on = msgs[i].on
                               /\ queue'[Len(queue) + i].id = next_id + i - 1

LEMMA PostShape ==
  ASSUME ShellTyped, NEW msgs \in Seq(Requests), Post(msgs)
  PROVE  Posted(msgs)
<1> DEFINE n == Len(msgs)
           q == Len(queue)
           more == [i \in 1..n |-> [msgs[i] EXCEPT !.id = next_id + i - 1]]
<1>1. n \in Nat /\ q \in Nat /\ queue \in Seq(Requests) /\ next_id \in Nat
  BY DEF ShellTyped
<1>2. next_id' = next_id + n /\ queue' = IF daemon = "closed" THEN queue ELSE queue \o more
  BY DEF Post
<1>3. ASSUME NEW i \in 1..n
      PROVE  more[i] \in Requests /\ more[i].op = msgs[i].op /\ more[i].on = msgs[i].on
             /\ more[i].id = next_id + i - 1
  <2>1. msgs[i] \in Requests
    OBVIOUS
  <2>2. PICK op \in {"send", "DTR", "ASK"}, on \in BOOLEAN, id \in Nat :
          msgs[i] = [op |-> op, on |-> on, id |-> id]
    BY <2>1 DEF Requests
  <2>3. PICK now \in Nat : now = next_id + i - 1
    BY <1>1
  <2>4. more[i] = [op |-> op, on |-> on, id |-> now]
    BY <2>2, <2>3
  <2> HIDE DEF more
  <2>5. QED
    BY <2>2, <2>3, <2>4 DEF Requests
<1>4. more \in Seq(Requests) /\ Len(more) = n
  <2>1. more \in [1..n -> Requests]
    BY <1>3
  <2> HIDE DEF more
  <2>2. QED
    BY <1>1, <2>1
<1> HIDE DEF more
<1>5. CASE daemon = "closed"
  BY <1>1, <1>2, <1>5 DEF Posted
<1>6. CASE daemon # "closed"
  <2>1. queue' = queue \o more
    BY <1>2, <1>6
  <2>2. /\ queue \o more \in Seq(Requests) /\ Len(queue \o more) = q + n
        /\ \A i \in 1..q : (queue \o more)[i] = queue[i]
        /\ \A i \in 1..n : (queue \o more)[q + i] = more[i]
    BY <1>1, <1>4
  <2>3. QED
    BY <1>2, <1>3, <1>6, <2>1, <2>2 DEF Posted
<1>7. QED
  BY <1>5, <1>6

Question(op, on) == [op |-> op, on |-> on, id |-> 0]

\* What is posted.
LEMMA PlainShape ==
  ASSUME NEW keys
  PROVE  /\ Plain(keys) \in Seq(Requests) /\ Len(Plain(keys)) \in {0, 1}
         /\ \A i \in 1..Len(Plain(keys)) : Plain(keys)[i].op = "send"
<1>1. [op |-> "send", on |-> FALSE, id |-> 0] \in Requests
  BY DEF Requests
<1>2. QED
  BY <1>1 DEF Plain

\* A request that waits for its answer, after what was typed before it.
LEMMA AskShape ==
  ASSUME NEW keys, NEW op \in {"DTR", "ASK"}, NEW on \in BOOLEAN
  PROVE  LET msgs == Plain(keys) \o <<Question(op, on)>> IN
         /\ msgs \in Seq(Requests) /\ Len(msgs) \in {1, 2}
         /\ msgs[Len(msgs)] = Question(op, on)
         /\ \A i \in 1 .. Len(msgs) - 1 : msgs[i].op = "send"
<1>1. Question(op, on) \in Requests
  BY DEF Requests, Question
<1>2. PICK p \in Seq(Requests) : p = Plain(keys)
  BY PlainShape
<1>3. Len(p) \in {0, 1} /\ \A i \in 1..Len(p) : p[i].op = "send"
  BY <1>2, PlainShape
<1>4. PICK r \in Requests : r = Question(op, on)
  BY <1>1
<1>5. /\ p \o <<r>> \in Seq(Requests) /\ Len(p \o <<r>>) = Len(p) + 1
      /\ (p \o <<r>>)[Len(p) + 1] = r /\ \A i \in 1..Len(p) : (p \o <<r>>)[i] = p[i]
  OBVIOUS
<1>6. Len(p \o <<r>>) \in {1, 2} /\ Len(p \o <<r>>) - 1 = Len(p)
  BY <1>3, <1>5
<1>7. QED
  BY <1>2, <1>3, <1>4, <1>5, <1>6

\* A step of AskKey posts a question.
Asking(op) ==
  /\ op \in {"DTR", "ASK"} /\ Post(Plain(buffer) \o <<Question(op, dtr_on')>>)
  /\ sent' = Append(sent \o buffer, op) /\ buffer' = <<>>
  /\ \/ op = "DTR" /\ Key = "d" /\ dtr_on' = ~dtr_on
     \/ op = "ASK" /\ Key = "b" /\ dtr_on' = dtr_on

LEMMA AskKeyAsks ==
  ASSUME AskKey
  PROVE  \E op \in {"DTR", "ASK"} : Asking(op)
<1>1. CASE Key = "d"
  <2>1. Ask("DTR") /\ dtr_on' = ~dtr_on
    BY <1>1 DEF AskKey
  <2>2. Asking("DTR")
    BY <1>1, <2>1 DEF Ask, Asking, Question
  <2>3. QED
    BY <2>2
<1>2. CASE Key = "b"
  <2>1. Ask("ASK") /\ dtr_on' = dtr_on
    BY <1>2 DEF AskKey
  <2>2. Asking("ASK")
    BY <1>2, <2>1 DEF Ask, Asking, Question
  <2>3. QED
    BY <2>2
<1>3. QED
  BY <1>1, <1>2 DEF AskKey

LEMMA ShellTypedKept ==
  ASSUME ShellTyped, ShellNext
  PROVE  ShellTyped'
<1> USE DEF ShellTyped
<1>1. CASE ReadChunk
  <2>1. CASE unread = <<>> /\ UNCHANGED <<chunk, unread>> /\ shell' = "over"
    BY <1>1, <2>1 DEF ReadChunk, daemonVars, history
  <2>2. CASE /\ shell' = "keys"
             /\ \E n \in 1..Len(unread) :
                  chunk' = SubSeq(unread, 1, n) /\ unread' = SubSeq(unread, n + 1, Len(unread))
    <3>1. PICK n \in 1..Len(unread) :
            chunk' = SubSeq(unread, 1, n) /\ unread' = SubSeq(unread, n + 1, Len(unread))
      BY <2>2
    <3>2. chunk' \in Seq(Keys) /\ unread' \in Seq(Keys)
      BY <3>1
    <3>3. QED
      BY <1>1, <2>2, <3>2 DEF ReadChunk, daemonVars, history
  <2>3. QED
    BY <1>1, <2>1, <2>2 DEF ReadChunk
<1>2. sent \in Seq(Things) /\ buffer \in Seq(Things) /\ sent \o buffer \in Seq(Things)
      /\ <<>> \in Seq(Keys) /\ \A op \in {"DTR", "ASK"} : Append(sent \o buffer, op) \in Seq(Things)
  <2>1. buffer \in Seq(Things)
    <3>1. Keys \subseteq Things
      BY DEF Things
    <3>2. QED
      BY <3>1, SeqMonotonic
  <2>2. "DTR" \in Things /\ "ASK" \in Things
    BY DEF Things
  <2>3. QED
    BY <2>1, <2>2
<1>3. CASE EndChunk
  <2>1. queue' \in Seq(Requests) /\ next_id' = next_id + Len(Plain(buffer))
    BY <1>3, PostShape, PlainShape DEF EndChunk, Posted
  <2>2. next_id' \in Nat
    BY <2>1, PlainShape
  <2>3. QED
    BY <1>2, <1>3, <2>1, <2>2 DEF EndChunk, history
<1>4. ASSUME Look PROVE chunk' \in Seq(Keys) /\ Key \in Keys /\ Append(buffer, Key) \in Seq(Keys)
  <2>1. chunk' \in Seq(Keys) /\ Key \in Keys
    BY <1>4 DEF Look, Key
  <2>2. QED
    BY <2>1, AppendProperties
<1>5. CASE PlainKey
  <2>1. buffer' \in {buffer, Append(buffer, Key)} /\ escape_pending' \in {TRUE, escape_pending} /\ Look
    BY <1>5 DEF PlainKey
  <2>2. buffer' \in Seq(Keys)
    BY <1>4, <2>1
  <2>3. QED
    BY <1>4, <1>5, <2>1, <2>2 DEF PlainKey, daemonVars, history
<1>6. CASE LiteralKey
  <2>1. buffer' \in {buffer, Append(buffer, Key)} /\ ~escape_pending' /\ escape_pending' \in BOOLEAN /\ Look
    BY <1>6 DEF LiteralKey, Escape
  <2>2. buffer' \in Seq(Keys)
    BY <1>4, <2>1
  <2>3. QED
    BY <1>4, <1>6, <2>1, <2>2 DEF LiteralKey, daemonVars, history
<1>7. CASE Quit
  <2>1. queue' \in Seq(Requests) /\ next_id' = next_id + Len(Plain(buffer))
    BY <1>7, PostShape, PlainShape DEF Quit, Posted
  <2>2. next_id' \in Nat
    BY <2>1, PlainShape
  <2>3. QED
    BY <1>2, <1>4, <1>7, <2>1, <2>2 DEF Quit, Escape, history
<1>8. CASE AskKey
  <2>1. PICK op \in {"DTR", "ASK"} : Asking(op)
    BY <1>8, AskKeyAsks
  <2>2. dtr_on' \in BOOLEAN
    BY <2>1 DEF Asking
  <2>3. PICK msgs : msgs = Plain(buffer) \o <<Question(op, dtr_on')>>
    OBVIOUS
  <2>4. msgs \in Seq(Requests) /\ Len(msgs) \in {1, 2}
    BY <2>2, <2>3, AskShape
  <2>5. queue' \in Seq(Requests) /\ next_id' = next_id + Len(msgs)
    BY <2>1, <2>3, <2>4, PostShape DEF Asking, Posted
  <2>6. next_id' \in Nat /\ next_id' - 1 \in Nat
    <3>1. PICK n \in {1, 2} : n = Len(msgs)
      BY <2>4
    <3>2. next_id' = next_id + n
      BY <2>5, <3>1
    <3>3. QED
      BY <3>1, <3>2
  <2>7. QED
    BY <1>2, <1>4, <1>8, <2>1, <2>2, <2>5, <2>6 DEF AskKey, Asking, Escape, history
<1>9. CASE Hear
  <2>1. answers' \in Seq(Answers)
    BY <1>9 DEF Hear
  <2>2. want' \in Nat /\ shell' \in {"await", "keys"} /\ dtr_on' \in BOOLEAN /\ moved' \in BOOLEAN
    BY <1>9 DEF Hear, history
  <2>3. QED
    BY <1>9, <2>1, <2>2 DEF Hear, history
<1>10. CASE HearNothing
  BY <1>10 DEF HearNothing, daemonVars
<1>11. CASE Serve
  <2>1. Head(queue) \in Requests /\ queue' \in Seq(Requests)
    BY <1>11 DEF Serve
  <2>2. PICK r \in Requests : r = Head(queue)
    BY <2>1
  <2>3. r.id \in Nat /\ r.on \in BOOLEAN
    BY <2>2 DEF Requests
  <2>4. PICK ok \in BOOLEAN :
          /\ answers' = IF shell = "over" THEN answers ELSE Append(answers, [id |-> r.id, ok |-> ok])
          /\ line' = IF r.op = "DTR" /\ ok THEN r.on ELSE line
          /\ moved' = (moved /\ ~(r.op = "DTR" /\ ok))
    BY <1>11, <2>2 DEF Serve
  <2>5. answers' \in Seq(Answers)
    <3>1. PICK a \in Answers : a = [id |-> r.id, ok |-> ok]
      BY <2>3 DEF Answers
    <3>2. answers' = IF shell = "over" THEN answers ELSE Append(answers, a)
      BY <2>4, <3>1
    <3>3. Append(answers, a) \in Seq(Answers)
      OBVIOUS
    <3>4. QED
      BY <3>2, <3>3
  <2>6. line' \in BOOLEAN /\ moved' \in BOOLEAN
    BY <2>3, <2>4
  <2>7. QED
    BY <1>11, <2>1, <2>5, <2>6 DEF Serve
<1>12. CASE LoseShellDaemon
  BY <1>12 DEF LoseShellDaemon, history
<1>13. CASE OthersMove
  BY <1>13 DEF OthersMove
<1>14. QED
  BY <1>1, <1>3, <1>5, <1>6, <1>7, <1>8, <1>9, <1>10, <1>11, <1>12, <1>13 DEF ShellNext, ShellStep

-----------------------------------------------------------------------------
(* The shell: what it has sent is what the keys looked at so far mean.     *)

\* The keys that have been looked at.
Looked == Len(typing) - Len(unread) - Len(chunk)

\* What is in hand and what is not are the keys that follow.
Cut ==
  /\ Len(unread) + Len(chunk) <= Len(typing)
  /\ \A i \in 1..Len(chunk) : chunk[i] = typing[Looked + i]
  /\ \A i \in 1..Len(unread) : unread[i] = typing[Looked + Len(chunk) + i]

\* The loop as the keys so far leave it; once it is over, by the user's word, at
\* the end of what is typed, or because the daemon has gone.
Told ==
  LET st == Way("keys", typing)[Looked] IN
  /\ shell # "over" => st = [out |-> sent \o buffer, escaped |-> escape_pending, over |-> FALSE]
  /\ shell = "read" => chunk = <<>> /\ buffer = <<>>
  /\ shell = "over" => sent = st.out /\ (daemon # "closed" => st.over \/ Looked = Len(typing))

KeysInv == ShellTyped /\ Cut /\ Told

\* A key is looked at.
LEMMA LookAhead ==
  ASSUME KeysInv, Look, typing' = typing, unread' = unread
  PROVE  /\ Cut' /\ Looked' = Looked + 1 /\ Looked \in Nat /\ Key \in Keys
         /\ Way("keys", typing')[Looked'] = Reads(Way("keys", typing)[Looked], Key)
<1>1. PICK n \in Nat, u \in Nat, c \in Nat : n = Len(typing) /\ u = Len(unread) /\ c = Len(chunk)
  BY DEF KeysInv, ShellTyped
<1>2. /\ typing \in Seq(Keys) /\ unread \in Seq(Keys) /\ chunk \in Seq(Keys)
      /\ chunk # <<>> /\ chunk' = Tail(chunk) /\ u + c <= n /\ Looked = n - u - c
  BY <1>1 DEF KeysInv, ShellTyped, Look, Cut, Looked
<1>3. c >= 1 /\ Len(Tail(chunk)) = c - 1 /\ \A i \in 1 .. c - 1 : Tail(chunk)[i] = chunk[i + 1]
  BY <1>1, <1>2
<1>4. Key = chunk[1] /\ chunk[1] \in Keys
  BY <1>1, <1>2, <1>3 DEF Key
<1>5. PICK p \in Nat : p = Looked
  <2>1. n - u - c \in Nat
    BY <1>1, <1>2
  <2>2. QED
    BY <1>2, <2>1
<1>6. Looked' = p + 1 /\ Len(chunk') = c - 1
  <2>1. Looked' = Len(typing') - Len(unread') - Len(chunk')
    BY DEF Looked
  <2>2. Len(chunk') = c - 1 /\ Len(typing') = n /\ Len(unread') = u
    BY <1>1, <1>2, <1>3
  <2>3. Looked' = n - u - (c - 1) /\ p = n - u - c
    BY <1>2, <1>5, <2>1, <2>2
  <2>4. QED
    BY <2>2, <2>3
<1>7. /\ \A i \in 1..c : chunk[i] = typing[p + i]
      /\ \A i \in 1..u : unread[i] = typing[p + c + i]
  BY <1>1, <1>5 DEF KeysInv, Cut
<1>8. \A i \in 1 .. c - 1 : chunk'[i] = typing'[(p + 1) + i]
  <2>1. ASSUME NEW i \in 1 .. c - 1 PROVE chunk'[i] = typing'[(p + 1) + i]
    <3>1. i + 1 \in 1..c /\ p + (i + 1) = (p + 1) + i
      BY <1>3
    <3>2. QED
      BY <1>2, <1>3, <1>7, <3>1
  <2>2. QED
    BY <2>1
<1>9. \A i \in 1..u : unread'[i] = typing'[(p + 1) + (c - 1) + i]
  <2>1. ASSUME NEW i \in 1..u PROVE unread'[i] = typing'[(p + 1) + (c - 1) + i]
    <3>1. (p + 1) + (c - 1) + i = p + c + i
      BY <1>3
    <3>2. QED
      BY <1>7, <3>1
  <2>2. QED
    BY <2>1
<1>10. Cut'
  <2>1. Len(typing') = n /\ Len(unread') = u /\ u + (c - 1) <= n
    BY <1>1, <1>2
  <2>2. QED
    BY <1>6, <1>8, <1>9, <2>1 DEF Cut
<1>11. p + 1 \in 1..n /\ (p + 1) - 1 = p
  BY <1>1, <1>2, <1>3, <1>5
<1>12. Way("keys", typing)[p + 1] = Reads(Way("keys", typing)[p], typing[p + 1])
  <2>1. Steps(Way("keys", typing), "keys", typing)
    BY <1>2, StepsExist
  <2>2. QED
    BY <1>1, <1>11, <2>1 DEF Steps, Advance
<1>13. chunk[1] = typing[p + 1]
  BY <1>3, <1>7
<1>14. QED
  BY <1>4, <1>5, <1>6, <1>10, <1>12, <1>13

\* Two ways to say the same.
LEMMA Joins ==
  ASSUME NEW S, NEW s \in Seq(S), NEW t \in Seq(S), NEW x \in S
  PROVE  s \o Append(t, x) = Append(s \o t, x) /\ s \o <<>> = s
<1>1. <<x>> \in Seq(S) /\ Append(t, x) = t \o <<x>>
  BY AppendIsConcat
<1>2. s \o t \in Seq(S)
  BY ConcatProperties
<1>3. Append(s \o t, x) = (s \o t) \o <<x>>
  BY <1>2, AppendIsConcat
<1>4. (s \o t) \o <<x>> = s \o (t \o <<x>>)
  BY <1>1, ConcatAssociative
<1>5. QED
  BY <1>1, <1>3, <1>4, ConcatEmptySeq

\* A plain record, taken apart.
IsReading(st, out, e, v) == st = [out |-> out, escaped |-> e, over |-> v]
Parts(st, out, e, v) ==
  /\ st.out = out /\ st.escaped = e /\ st.over = v
  /\ \A x : /\ IsReading([st EXCEPT !.escaped = x], out, x, v)
            /\ IsReading([st EXCEPT !.over = x], out, e, x)
            /\ IsReading([st EXCEPT !.out = Append(@, x)], Append(out, x), e, v)
            /\ IsReading([st EXCEPT !.escaped = FALSE, !.out = Append(@, x)], Append(out, x), FALSE, v)

LEMMA ReadingParts ==
  ASSUME NEW out, NEW e, NEW v, NEW st, IsReading(st, out, e, v)
  PROVE  Parts(st, out, e, v)
<1> st = [out |-> out, escaped |-> e, over |-> v]
  BY DEF IsReading
<1>1. st.out = out /\ st.escaped = e /\ st.over = v
  OBVIOUS
<1>2. ASSUME NEW x PROVE [st EXCEPT !.escaped = x] = [out |-> out, escaped |-> x, over |-> v]
  OBVIOUS
<1>3. ASSUME NEW x PROVE [st EXCEPT !.over = x] = [out |-> out, escaped |-> e, over |-> x]
  OBVIOUS
<1>4. ASSUME NEW x
      PROVE  [st EXCEPT !.out = Append(@, x)] = [out |-> Append(out, x), escaped |-> e, over |-> v]
  <2>1. PICK o : o = Append(st.out, x)
    OBVIOUS
  <2>2. [st EXCEPT !.out = o] = [out |-> o, escaped |-> e, over |-> v]
    OBVIOUS
  <2>3. QED
    BY <1>1, <2>1, <2>2
<1>5. ASSUME NEW x
      PROVE  [st EXCEPT !.escaped = FALSE, !.out = Append(@, x)] =
               [out |-> Append(out, x), escaped |-> FALSE, over |-> v]
  <2>1. PICK o : o = Append(st.out, x)
    OBVIOUS
  <2>2. PICK f : f = FALSE
    OBVIOUS
  <2>3. PICK mid : mid = [out |-> out, escaped |-> f, over |-> v]
    OBVIOUS
  <2>4. [st EXCEPT !.escaped = f] = mid /\ [mid EXCEPT !.out = o] = [out |-> o, escaped |-> f, over |-> v]
    BY <2>3
  <2>5. [st EXCEPT !.escaped = f, !.out = o] = [[st EXCEPT !.escaped = f] EXCEPT !.out = o]
    OBVIOUS
  <2>6. QED
    BY <1>1, <2>1, <2>2, <2>4, <2>5
<1>6. QED
  BY <1>1, <1>2, <1>3, <1>4, <1>5 DEF Parts, IsReading

\* A chunk is taken as it comes.
LEMMA ReadChunkKeeps ==
  ASSUME KeysInv, ReadChunk
  PROVE  Cut' /\ Told'
<1>1. PICK n \in Nat, u \in Nat : n = Len(typing) /\ u = Len(unread)
  BY DEF KeysInv, ShellTyped
<1>2. /\ typing \in Seq(Keys) /\ unread \in Seq(Keys) /\ sent \in Seq(Things)
      /\ chunk = <<>> /\ buffer = <<>> /\ Len(chunk) = 0 /\ u <= n /\ Looked = n - u
      /\ \A i \in 1..u : unread[i] = typing[Looked + i]
  <2>1. shell = "read" /\ chunk = <<>> /\ buffer = <<>>
    BY DEF ReadChunk, KeysInv, Told
  <2>2. Len(chunk) = 0
    BY <2>1
  <2>3. u <= n /\ Looked = n - u
    BY <1>1, <2>2 DEF KeysInv, Cut, Looked
  <2>4. \A i \in 1..u : unread[i] = typing[Looked + i]
    <3>1. \A i \in 1..u : unread[i] = typing[Looked + Len(chunk) + i]
      BY <1>1 DEF KeysInv, Cut
    <3>2. \A i \in 1..u : Looked + Len(chunk) + i = Looked + i
      BY <1>1, <2>2, <2>3
    <3>3. QED
      BY <3>1, <3>2
  <2>5. QED
    BY <1>1, <2>1, <2>2, <2>3, <2>4 DEF KeysInv, ShellTyped
<1>3. PICK p \in Nat : p = Looked
  <2>1. n - u \in Nat
    BY <1>1, <1>2
  <2>2. QED
    BY <1>2, <2>1
<1>4. typing' = typing /\ buffer' = buffer /\ escape_pending' = escape_pending /\ sent' = sent /\ daemon' = daemon
  BY DEF ReadChunk, daemonVars
<1>5. Way("keys", typing)[p] = [out |-> sent \o buffer, escaped |-> escape_pending, over |-> FALSE]
  BY <1>3 DEF KeysInv, Told, ReadChunk
<1>6. CASE unread = <<>> /\ UNCHANGED <<chunk, unread>> /\ shell' = "over"
  <2>1. Looked' = Looked /\ Looked = Len(typing) /\ Looked' = p /\ p = n
    BY <1>1, <1>2, <1>3, <1>4, <1>6 DEF Looked
  <2>2. Cut'
    BY <1>4, <1>6, <2>1 DEF KeysInv, Cut
  <2>3. sent = sent \o buffer
    BY <1>2, ConcatEmptySeq
  <2>4. Way("keys", typing')[Looked'].out = sent'
    BY <1>4, <1>5, <2>1, <2>3
  <2>5. QED
    BY <1>1, <1>4, <1>6, <2>1, <2>2, <2>4 DEF Told
<1>7. CASE /\ shell' = "keys"
           /\ \E m \in 1..Len(unread) :
                chunk' = SubSeq(unread, 1, m) /\ unread' = SubSeq(unread, m + 1, Len(unread))
  <2>1. PICK m \in 1..u : chunk' = SubSeq(unread, 1, m) /\ unread' = SubSeq(unread, m + 1, u)
    BY <1>1, <1>7
  <2>2. m \in Nat /\ m >= 1 /\ m <= u /\ u - m \in Nat
    BY <1>1, <2>1
  <2>3. Len(chunk') = m /\ \A i \in 1..m : chunk'[i] = unread[i]
    BY <1>1, <1>2, <2>1, <2>2
  <2>4. Len(unread') = u - m /\ \A i \in 1 .. u - m : unread'[i] = unread[m + i]
    <3>1. Len(unread') = u - m
      BY <1>1, <1>2, <2>1, <2>2
    <3>2. ASSUME NEW i \in 1 .. u - m PROVE unread'[i] = unread[m + i]
      <4>1. unread'[i] = unread[(m + 1) + i - 1] /\ (m + 1) + i - 1 = m + i
        BY <1>1, <1>2, <2>1, <2>2
      <4>2. QED
        BY <4>1
    <3>3. QED
      BY <3>1, <3>2
  <2>5. Looked' = p
    <3>1. Looked' = n - (u - m) - m /\ p = n - u
      BY <1>1, <1>2, <1>3, <1>4, <2>3, <2>4 DEF Looked
    <3>2. QED
      BY <1>1, <2>2, <3>1
  <2>6. \A i \in 1..m : chunk'[i] = typing'[p + i]
    <3>1. ASSUME NEW i \in 1..m PROVE chunk'[i] = typing'[p + i]
      <4>1. i \in 1..u
        BY <2>2
      <4>2. QED
        BY <1>2, <1>3, <1>4, <2>3, <4>1
    <3>2. QED
      BY <3>1
  <2>7. \A i \in 1 .. u - m : unread'[i] = typing'[p + m + i]
    <3>1. ASSUME NEW i \in 1 .. u - m PROVE unread'[i] = typing'[p + m + i]
      <4>1. m + i \in 1..u /\ p + (m + i) = p + m + i
        BY <2>2
      <4>2. QED
        BY <1>2, <1>3, <1>4, <2>4, <4>1
    <3>2. QED
      BY <3>1
  <2>8. Cut'
    <3>1. (u - m) + m <= n
      BY <1>2, <2>2
    <3>2. QED
      BY <1>1, <1>4, <2>3, <2>4, <2>5, <2>6, <2>7, <3>1 DEF Cut
  <2>9. Told'
    BY <1>4, <1>5, <1>7, <2>5 DEF Told
  <2>10. QED
    BY <2>8, <2>9
<1>8. QED
  BY <1>6, <1>7 DEF ReadChunk

\* A key that is looked at does to the loop what it means.
LEMMA KeyKeeps ==
  ASSUME KeysInv, PlainKey \/ LiteralKey \/ Quit \/ AskKey
  PROVE  Cut' /\ Told'
<1>1. Look /\ typing' = typing /\ unread' = unread /\ shell = "keys" /\ daemon' = daemon
  BY DEF PlainKey, LiteralKey, Quit, AskKey, Escape, Look, daemonVars
<1> DEFINE st == Way("keys", typing)[Looked]
           out == sent \o buffer
<1>2. Cut' /\ Key \in Keys /\ Way("keys", typing')[Looked'] = Reads(st, Key)
  BY <1>1, LookAhead
<1>3. st = [out |-> out, escaped |-> escape_pending, over |-> FALSE]
  BY <1>1 DEF KeysInv, Told
<1>4. sent \in Seq(Things) /\ buffer \in Seq(Keys) /\ buffer \in Seq(Things) /\ Key \in Things
  <2>1. Keys \subseteq Things
    BY DEF Things
  <2>2. QED
    BY <1>2, <2>1, SeqMonotonic DEF KeysInv, ShellTyped
<1>5. out \o <<>> = out /\ sent \o Append(buffer, Key) = Append(out, Key)
  <2>1. out \in Seq(Things)
    BY <1>4, ConcatProperties
  <2>2. QED
    BY <1>4, <2>1, Joins, ConcatEmptySeq
<1> HIDE DEF st, out
<1>6. Parts(st, out, escape_pending, FALSE)
  BY <1>3, ReadingParts DEF IsReading
<1>7. ASSUME shell' \notin {"read", "over"},
             Reads(st, Key) = [out |-> sent' \o buffer', escaped |-> escape_pending', over |-> FALSE]
      PROVE  Told'
  BY <1>2, <1>7 DEF Told
<1>8. CASE PlainKey
  <2>1. ~escape_pending /\ shell' = "keys" /\ sent' = sent
    BY <1>1, <1>8 DEF PlainKey
  <2>2. CASE Key = CtrlA
    <3>1. escape_pending' = TRUE /\ buffer' = buffer
      BY <1>8, <2>2 DEF PlainKey
    <3>2. Reads(st, Key) = [out |-> out, escaped |-> TRUE, over |-> FALSE]
      <4>1. Reads(st, Key) = [st EXCEPT !.escaped = TRUE]
        <5>1. ~st.over /\ ~st.escaped
          BY <1>6, <2>1 DEF Parts
        <5>2. QED
          BY <5>1, <2>2 DEF Reads
      <4>2. QED
        BY <1>6, <4>1 DEF Parts, IsReading
    <3>3. QED
      BY <1>2, <1>7, <2>1, <3>1, <3>2 DEF out
  <2>3. CASE Key # CtrlA
    <3>1. escape_pending' = escape_pending /\ buffer' = Append(buffer, Key)
      BY <1>8, <2>3 DEF PlainKey
    <3>2. Reads(st, Key) = [out |-> Append(out, Key), escaped |-> escape_pending, over |-> FALSE]
      BY <1>6, <2>1, <2>3 DEF Reads, Parts, IsReading
    <3>3. QED
      BY <1>2, <1>5, <1>7, <2>1, <3>1, <3>2
  <2>4. QED
    BY <2>2, <2>3
<1>9. CASE LiteralKey
  <2>1. escape_pending /\ escape_pending' = FALSE /\ shell' = "keys" /\ sent' = sent
    BY <1>1, <1>9 DEF LiteralKey, Escape
  <2>2. CASE Key = CtrlA
    <3>1. buffer' = Append(buffer, Key)
      BY <1>9, <2>2 DEF LiteralKey
    <3>2. Reads(st, Key) = [out |-> Append(out, Key), escaped |-> FALSE, over |-> FALSE]
      BY <1>6, <2>1, <2>2 DEF Reads, CtrlA, Parts, IsReading
    <3>3. QED
      BY <1>2, <1>5, <1>7, <2>1, <3>1, <3>2
  <2>3. CASE Key = "x"
    <3>1. Key # CtrlA
      BY <2>3 DEF CtrlA
    <3>2. buffer' = buffer
      BY <1>9, <3>1 DEF LiteralKey
    <3>3. Reads(st, Key) = [out |-> out, escaped |-> FALSE, over |-> FALSE]
      BY <1>6, <2>1, <2>3 DEF Reads, CtrlA, Parts, IsReading
    <3>4. QED
      BY <1>2, <1>7, <2>1, <3>2, <3>3 DEF out
  <2>4. QED
    BY <1>9, <2>2, <2>3 DEF LiteralKey
<1>10. CASE Quit
  <2>1. escape_pending /\ shell' = "over" /\ sent' = out /\ Key = "q"
    BY <1>10 DEF Quit, Escape, out
  <2>2. Reads(st, Key) = [out |-> out, escaped |-> escape_pending, over |-> TRUE]
    BY <1>6, <2>1 DEF Reads, CtrlA, Parts, IsReading
  <2>3. QED
    BY <1>2, <2>1, <2>2 DEF Told
<1>11. CASE AskKey
  <2>1. PICK op \in {"DTR", "ASK"} : Asking(op)
    BY <1>11, AskKeyAsks
  <2>2. escape_pending /\ escape_pending' = FALSE /\ shell' = "await"
    BY <1>11 DEF AskKey, Escape
  <2>3. sent' = Append(out, op) /\ buffer' = <<>>
    BY <2>1 DEF Asking, out
  <2>4. Reads(st, Key) = [out |-> Append(out, op), escaped |-> FALSE, over |-> FALSE]
    <3>1. CASE op = "DTR"
      <4>1. Key = "d"
        BY <2>1, <3>1 DEF Asking
      <4>2. QED
        BY <1>6, <2>2, <3>1, <4>1 DEF Reads, CtrlA, Parts, IsReading
    <3>2. CASE op = "ASK"
      <4>1. Key = "b"
        BY <2>1, <3>2 DEF Asking
      <4>2. QED
        BY <1>6, <2>2, <3>2, <4>1 DEF Reads, CtrlA, Parts, IsReading
    <3>3. QED
      BY <3>1, <3>2
  <2>5. sent' \o buffer' = sent'
    <3>1. out \in Seq(Things) /\ op \in Things
      BY <1>4, ConcatProperties DEF out, Things
    <3>2. Append(out, op) \in Seq(Things)
      BY <3>1, AppendProperties
    <3>3. QED
      BY <2>3, <3>2, ConcatEmptySeq
  <2>6. QED
    BY <1>2, <1>7, <2>2, <2>3, <2>4, <2>5
<1>12. QED
  BY <1>8, <1>9, <1>10, <1>11

\* Whatever the shell and its daemon do, what was sent is what was typed.
LEMMA KeysKept ==
  ASSUME KeysInv, ShellNext
  PROVE  KeysInv'
<1>1. ShellTyped'
  BY ShellTypedKept DEF KeysInv
<1>2. ASSUME UNCHANGED <<typing, unread, chunk>> PROVE Looked' = Looked /\ Cut'
  BY <1>2 DEF KeysInv, Cut, Looked
<1>3. CASE ReadChunk
  BY <1>1, <1>3, ReadChunkKeeps DEF KeysInv
<1>4. CASE EndChunk
  <2>1. /\ UNCHANGED <<typing, unread, chunk>> /\ daemon' = daemon /\ escape_pending' = escape_pending
        /\ shell = "keys" /\ chunk = <<>> /\ sent' = sent \o buffer /\ buffer' = <<>>
        /\ shell' = "read" \/ (shell' = "over" /\ daemon = "closed")
    BY <1>4 DEF EndChunk
  <2>2. Way("keys", typing)[Looked] = [out |-> sent \o buffer, escaped |-> escape_pending, over |-> FALSE]
    BY <2>1 DEF KeysInv, Told
  <2>3. sent' \o buffer' = sent'
    BY <1>1, <2>1, ConcatEmptySeq DEF ShellTyped
  <2>4. Way("keys", typing')[Looked'] = [out |-> sent', escaped |-> escape_pending', over |-> FALSE]
    BY <1>2, <2>1, <2>2
  <2>5. Told'
    BY <2>1, <2>3, <2>4 DEF Told
  <2>6. QED
    BY <1>1, <1>2, <2>1, <2>5 DEF KeysInv
<1>5. CASE PlainKey \/ LiteralKey \/ Quit \/ AskKey
  BY <1>1, <1>5, KeyKeeps DEF KeysInv
<1>6. CASE Hear \/ HearNothing
  <2>1. UNCHANGED <<typing, unread, chunk, buffer, escape_pending, sent>>
    BY <1>6 DEF Hear, HearNothing
  <2>2. shell = "await" /\ shell' \in {"await", "keys"}
    BY <1>6 DEF Hear, HearNothing
  <2>3. Looked' = Looked /\ Cut'
    BY <1>2, <2>1
  <2>4. Told'
    BY <2>1, <2>2, <2>3 DEF KeysInv, Told
  <2>5. QED
    BY <1>1, <2>3, <2>4 DEF KeysInv
<1>7. CASE Serve \/ OthersMove \/ LoseShellDaemon
  <2>1. UNCHANGED <<typing, unread, chunk, buffer, escape_pending, sent, shell>>
        /\ daemon' \in {daemon, "closed"}
    BY <1>7 DEF Serve, OthersMove, LoseShellDaemon
  <2>2. Looked' = Looked /\ Cut'
    BY <1>2, <2>1
  <2>3. Told'
    BY <2>1, <2>2 DEF KeysInv, Told
  <2>4. QED
    BY <1>1, <2>2, <2>3 DEF KeysInv
<1>8. QED
  BY <1>3, <1>4, <1>5, <1>6, <1>7 DEF ShellNext, ShellStep

LEMMA KeysTrue ==
  ASSUME KeysInv
  PROVE  KeysAsTyped
<1> DEFINE w == Way("keys", typing)
           n == Len(typing)
<1>1. typing \in Seq(Keys) /\ unread \in Seq(Keys) /\ chunk \in Seq(Keys) /\ Symbols("keys") = Keys
  BY DEF KeysInv, ShellTyped, Symbols
<1>2. n \in Nat /\ Looked \in 0..n
  <2>1. PICK u \in Nat, c \in Nat : u = Len(unread) /\ c = Len(chunk)
    BY <1>1
  <2>2. n \in Nat /\ u + c <= n /\ Looked = n - u - c
    BY <1>1, <2>1 DEF KeysInv, Cut, Looked
  <2> HIDE DEF n
  <2>3. QED
    BY <2>1, <2>2
<1>3. Meaning(typing) = w[n].out
  <2>1. Steps(w, "keys", typing)
    BY <1>1, StepsExist
  <2>2. QED
    BY <2>1 DEF Steps, Yields
<1>4. w[Looked] \in States("keys") /\ w[n] \in States("keys") /\ Grows("keys", w[Looked], w[n])
  <2>1. n \in 0..n /\ Looked <= n
    BY <1>2
  <2>2. QED
    BY <1>1, <1>2, <2>1, WayGrows
<1> HIDE DEF w, n
<1>5. PICK now \in Seq(Things), all \in Seq(Things) : now = w[Looked].out /\ all = w[n].out
  BY <1>4 DEF States
<1>6. Begins(now, all) /\ (w[Looked].over => w[n] = w[Looked])
  BY <1>4, <1>5 DEF Grows
<1>7. sent \in Seq(Things) /\ Begins(sent, now)
  <2>1. sent \in Seq(Things) /\ buffer \in Seq(Things)
    <3>1. Keys \subseteq Things
      BY DEF Things
    <3>2. QED
      BY <3>1, SeqMonotonic DEF KeysInv, ShellTyped
  <2>2. Begins(sent, sent) /\ Begins(sent, sent \o buffer)
    BY <2>1 DEF Begins
  <2>3. now = sent \o buffer \/ now = sent
    BY <1>5 DEF KeysInv, Told, w
  <2>4. QED
    BY <2>1, <2>2, <2>3
<1>8. Begins(sent, all)
  BY <1>5, <1>6, <1>7 DEF Begins
<1>9. IsPrefix(sent, Meaning(typing))
  BY <1>3, <1>5, <1>7, <1>8, BeginsIsPrefix
<1>10. ASSUME shell = "over", daemon # "closed" PROVE sent = Meaning(typing)
  <2>1. sent = now /\ (w[Looked].over \/ Looked = n)
    BY <1>5, <1>10 DEF KeysInv, Told, w, n
  <2>2. QED
    BY <1>3, <1>5, <1>6, <2>1
<1>11. QED
  BY <1>9, <1>10 DEF KeysAsTyped

-----------------------------------------------------------------------------
(* The shell: what it believes of the line.                                *)

\* Requests and their answers are in the order of their ids.
Numbered ==
  /\ \A i, j \in 1..Len(queue) : i < j => queue[i].id < queue[j].id
  /\ \A i \in 1..Len(queue) : queue[i].id < next_id
  /\ \A i \in 1..Len(answers) : answers[i].id < next_id
  /\ \A i \in 1..Len(answers), j \in 1..Len(queue) : answers[i].id < queue[j].id

\* No toggle is under way.
Still == \A i \in 1..Len(queue) : queue[i].op # "DTR"
Idle == Still /\ (~moved => dtr_on = line)

\* One is: it has not been handled, or its answer tells how it went.
Asked ==
  /\ \A i \in 1..Len(queue) : queue[i].id = want <=> queue[i].op = "DTR"
  /\ \A i \in 1..Len(queue) : queue[i].op = "DTR" => queue[i].on = dtr_on
  /\ ~Still /\ ~moved => line = ~dtr_on
  /\ Still /\ ~moved =>
       \A i \in 1..Len(answers) :
         answers[i].id = want => line = IF answers[i].ok THEN dtr_on ELSE ~dtr_on

Belief ==
  ~timedout =>
    /\ shell \in {"read", "keys"} => Idle
    /\ shell = "await" /\ Toggled => Asked
    /\ shell = "await" /\ ~Toggled => Idle

BeliefInv == ShellTyped /\ Numbered /\ Belief

\* Requests that are posted come after all others.
LEMMA PostNumbers ==
  ASSUME BeliefInv, NEW msgs \in Seq(Requests), Posted(msgs), answers' = answers
  PROVE  Numbered'
<1>1. PICK n \in Nat, q \in Nat, m \in Nat, a \in Nat :
        n = next_id /\ q = Len(queue) /\ m = Len(msgs) /\ a = Len(answers)
  <2>1. next_id \in Nat /\ Len(queue) \in Nat /\ Len(msgs) \in Nat /\ Len(answers) \in Nat
    BY DEF BeliefInv, ShellTyped
  <2>2. QED
    BY <2>1
<1>2. next_id' = n + m
  BY <1>1 DEF Posted
<1>3. /\ \A i \in 1..q : queue[i].id \in Nat /\ queue[i].id < n
      /\ \A i \in 1..a : answers[i].id \in Nat /\ answers[i].id < n
      /\ \A i, j \in 1..q : i < j => queue[i].id < queue[j].id
      /\ \A i \in 1..a, j \in 1..q : answers[i].id < queue[j].id
  <2>1. \A i \in 1..q : queue[i] \in Requests
    BY <1>1, ElementOfSeq DEF BeliefInv, ShellTyped
  <2>2. \A i \in 1..a : answers[i] \in Answers
    BY <1>1, ElementOfSeq DEF BeliefInv, ShellTyped
  <2>3. QED
    BY <1>1, <2>1, <2>2 DEF BeliefInv, Numbered, Requests, Answers
<1>4. \A i \in 1..q : queue'[i] = queue[i]
  BY <1>1 DEF Posted
<1>5. CASE daemon = "closed"
  <2>1. Len(queue') = q
    BY <1>1, <1>5 DEF Posted
  <2>2. (\A i \in 1..q : queue[i].id < n + m) /\ (\A i \in 1..a : answers[i].id < n + m)
    BY <1>1, <1>3
  <2>3. \A i, j \in 1..q : i < j => queue'[i].id < queue'[j].id
    BY <1>3, <1>4
  <2>4. \A i \in 1..q : queue'[i].id < next_id'
    BY <1>2, <1>4, <2>2
  <2>5. \A i \in 1..a, j \in 1..q : answers'[i].id < queue'[j].id
    BY <1>3, <1>4
  <2>6. \A i \in 1..a : answers'[i].id < next_id'
    BY <1>2, <2>2
  <2>7. QED
    BY <1>1, <2>1, <2>3, <2>4, <2>5, <2>6 DEF Numbered
<1>6. CASE daemon # "closed"
  <2>1. Len(queue') = q + m /\ \A i \in 1..m : queue'[q + i].id = n + i - 1
    BY <1>1, <1>6 DEF Posted
  <2>2. ASSUME NEW i \in 1 .. q + m
        PROVE  \/ i \in 1..q /\ queue'[i].id = queue[i].id
               \/ i > q /\ queue'[i].id = n + (i - q) - 1 /\ i - q \in 1..m
    <3>1. CASE i <= q
      BY <1>1, <1>4, <3>1
    <3>2. CASE i > q
      <4>1. PICK k \in 1..m : i = q + k
        <5>1. i - q \in 1..m /\ i = q + (i - q)
          BY <1>1, <3>2
        <5>2. QED
          BY <5>1
      <4>2. i - q = k
        BY <1>1, <4>1
      <4>3. QED
        BY <2>1, <3>2, <4>1, <4>2
    <3>3. QED
      BY <1>1, <3>1, <3>2
  <2>3. \A i \in 1 .. q + m : queue'[i].id \in Int /\ queue'[i].id < n + m
    BY SMTT(20), <1>1, <1>3, <2>2
  <2>4. \A i, j \in 1 .. q + m : i < j => queue'[i].id < queue'[j].id
    <3>1. ASSUME NEW i \in 1 .. q + m, NEW j \in 1 .. q + m, i < j
          PROVE  queue'[i].id < queue'[j].id
      <4>1. CASE j <= q
        <5>1. i \in 1..q /\ j \in 1..q
          BY <1>1, <3>1, <4>1
        <5>2. QED
          BY <1>3, <1>4, <3>1, <5>1
      <4>2. CASE j > q /\ i <= q
        <5>1. i \in 1..q /\ queue'[i].id = queue[i].id /\ queue[i].id < n /\ queue[i].id \in Nat
          BY <1>1, <1>3, <1>4, <4>2
        <5>2. queue'[j].id = n + (j - q) - 1 /\ j - q \in 1..m
          BY <1>1, <2>2, <4>2
        <5>3. QED
          BY SMTT(20), <1>1, <5>1, <5>2
      <4>3. CASE i > q
        <5>1. queue'[i].id = n + (i - q) - 1 /\ queue'[j].id = n + (j - q) - 1
          BY <1>1, <2>2, <3>1, <4>3
        <5>2. QED
          BY <1>1, <3>1, <5>1
      <4>4. QED
        BY <1>1, <4>1, <4>2, <4>3
    <3>2. QED
      BY <3>1
  <2>5. \A i \in 1..a, j \in 1 .. q + m : answers[i].id < queue'[j].id
    <3>1. ASSUME NEW i \in 1..a, NEW j \in 1 .. q + m
          PROVE  answers[i].id < queue'[j].id
      <4>1. CASE j \in 1..q
        BY <1>3, <1>4, <4>1
      <4>2. CASE j > q
        <5>1. queue'[j].id = n + (j - q) - 1 /\ j - q \in 1..m
          BY <1>1, <2>2, <4>2
        <5>2. answers[i].id < n /\ answers[i].id \in Nat
          BY <1>3
        <5>3. QED
          BY <1>1, <5>1, <5>2
      <4>3. QED
        BY <1>1, <4>1, <4>2
    <3>2. QED
      BY <3>1
  <2>6. \A i \in 1..a : answers[i].id < n + m
    BY <1>1, <1>3
  <2>7. QED
    BY <1>1, <1>2, <2>1, <2>3, <2>4, <2>5, <2>6 DEF Numbered
<1>7. QED
  BY <1>5, <1>6

\* Plain keys are no toggle.
LEMMA PlainStill ==
  ASSUME BeliefInv, Post(Plain(buffer)), UNCHANGED <<answers, dtr_on, line, moved>>
  PROVE  Numbered' /\ (Idle => Idle')
<1>1. PICK msgs \in Seq(Requests) : msgs = Plain(buffer)
  BY PlainShape
<1>2. Posted(msgs)
  BY <1>1, PostShape DEF BeliefInv
<1>3. Numbered'
  BY <1>2, PostNumbers
<1>4. PICK q \in Nat, m \in Nat : q = Len(queue) /\ m = Len(msgs)
  BY DEF BeliefInv, ShellTyped
<1>5. ASSUME Still PROVE Still'
  <2>1. \A i \in 1..m : msgs[i].op = "send"
    BY <1>1, <1>4, PlainShape
  <2>2. \A i \in 1..q : queue'[i].op # "DTR"
    BY <1>2, <1>4, <1>5 DEF Posted, Still
  <2>3. CASE daemon = "closed"
    BY <1>2, <1>4, <2>2, <2>3 DEF Posted, Still
  <2>4. CASE daemon # "closed"
    <3>1. Len(queue') = q + m /\ \A i \in 1..m : queue'[q + i].op # "DTR"
      BY <1>2, <1>4, <2>1, <2>4 DEF Posted
    <3>2. ASSUME NEW i \in 1 .. q + m PROVE queue'[i].op # "DTR"
      <4>1. CASE i <= q
        BY <1>4, <2>2, <4>1
      <4>2. CASE i > q
        <5>1. PICK k \in 1..m : i = q + k
          <6>1. i - q \in 1..m /\ i = q + (i - q)
            BY <1>4, <4>2
          <6>2. QED
            BY <6>1
        <5>2. QED
          BY <3>1, <5>1
      <4>3. QED
        BY <1>4, <4>1, <4>2
    <3>3. QED
      BY <3>1, <3>2 DEF Still
  <2>5. QED
    BY <2>3, <2>4
<1>6. QED
  BY <1>3, <1>5 DEF Idle

\* A question: the toggle is the last request, or lost with the daemon.
LEMMA AskBelief ==
  ASSUME BeliefInv, AskKey
  PROVE  Numbered' /\ Belief'
<1>1. PICK op \in {"DTR", "ASK"} : Asking(op)
  BY AskKeyAsks
<1>2. /\ shell = "keys" /\ shell' = "await" /\ want' = next_id' - 1
      /\ UNCHANGED <<answers, daemon, line, moved, timedout>>
  BY DEF AskKey, Escape, Look, history
<1>3. dtr_on' \in BOOLEAN /\ dtr_on \in BOOLEAN /\ line \in BOOLEAN /\ moved \in BOOLEAN
  BY <1>1 DEF Asking, BeliefInv, ShellTyped
<1>4. PICK msgs \in Seq(Requests) : msgs = Plain(buffer) \o <<Question(op, dtr_on')>>
  BY <1>3, AskShape
<1>5. /\ Len(msgs) \in {1, 2} /\ msgs[Len(msgs)] = Question(op, dtr_on')
      /\ \A i \in 1 .. Len(msgs) - 1 : msgs[i].op = "send"
  BY <1>3, <1>4, AskShape
<1>6. Posted(msgs)
  BY <1>1, <1>4, PostShape DEF Asking, BeliefInv
<1>7. Numbered'
  BY <1>2, <1>6, PostNumbers
<1>8. PICK n \in Nat, q \in Nat, m \in {1, 2} : n = next_id /\ q = Len(queue) /\ m = Len(msgs)
  <2>1. next_id \in Nat /\ Len(queue) \in Nat
    BY DEF BeliefInv, ShellTyped
  <2>2. QED
    BY <1>5, <2>1
<1>9. next_id' = n + m /\ want' = n + m - 1 /\ m - 1 \in Nat
  BY <1>2, <1>6, <1>8 DEF Posted
<1>10. \A i \in 1..q : queue'[i] = queue[i] /\ queue[i].id \in Nat /\ queue[i].id < n /\ queue'[i].id # want'
  <2>1. ASSUME NEW i \in 1..q
        PROVE  queue'[i] = queue[i] /\ queue[i].id \in Nat /\ queue[i].id < n /\ queue'[i].id # want'
    <3>1. queue[i] \in Requests
      BY <1>8, ElementOfSeq DEF BeliefInv, ShellTyped
    <3>2. queue'[i] = queue[i] /\ queue[i].id < n /\ queue[i].id \in Nat
      BY <1>6, <1>8, <3>1 DEF Posted, BeliefInv, Numbered, Requests
    <3>3. QED
      BY <1>8, <1>9, <3>2
  <2>2. QED
    BY <2>1
<1>11. sent' = Append(sent \o buffer, op) /\ (Toggled' <=> op = "DTR")
  <2>1. sent \o buffer \in Seq(Things) /\ op \in Things
    <3>1. Keys \subseteq Things
      BY DEF Things
    <3>2. sent \in Seq(Things) /\ buffer \in Seq(Things)
      BY <3>1, SeqMonotonic DEF BeliefInv, ShellTyped
    <3>3. QED
      BY <3>2, ConcatProperties DEF Things
  <2>2. sent' = Append(sent \o buffer, op)
    BY <1>1 DEF Asking
  <2>3. Last(sent') = op
    BY <2>1, <2>2, AppendProperties DEF Last
  <2>4. QED
    BY <2>2, <2>3 DEF Toggled
<1>12. SUFFICES ASSUME ~timedout' PROVE (IF Toggled' THEN Asked' ELSE Idle')
  BY <1>2, <1>7 DEF Belief
<1>13. Still /\ (~moved => dtr_on = line)
  BY <1>2, <1>12 DEF BeliefInv, Belief, Idle
<1>14. \A i \in 1..q : queue'[i].op # "DTR"
  BY <1>8, <1>10, <1>13 DEF Still
<1>15. CASE daemon = "closed"
  <2>1. Len(queue') = q
    BY <1>6, <1>8, <1>15 DEF Posted
  <2>2. Still'
    BY <1>14, <2>1 DEF Still
  <2>3. CASE op = "DTR"
    <3>1. \A i \in 1..Len(answers') : answers'[i].id # want'
      <4>1. ASSUME NEW i \in 1..Len(answers) PROVE answers[i].id # n + m - 1
        <5>1. answers[i] \in Answers
          BY ElementOfSeq DEF BeliefInv, ShellTyped
        <5>2. answers[i].id < n /\ answers[i].id \in Nat
          BY <1>8, <5>1 DEF BeliefInv, Numbered, Answers
        <5>3. QED
          BY <1>8, <5>2
      <4>2. QED
        BY <1>2, <1>9, <4>1
    <3>2. Asked'
      BY <1>10, <1>14, <2>1, <2>2, <3>1 DEF Asked
    <3>3. QED
      BY <1>11, <2>3, <3>2
  <2>4. CASE op = "ASK"
    <3>1. dtr_on' = dtr_on
      BY <1>1, <2>4 DEF Asking
    <3>2. QED
      BY <1>2, <1>11, <1>13, <2>2, <2>4, <3>1 DEF Idle
  <2>5. QED
    BY <2>3, <2>4
<1>16. CASE daemon # "closed"
  <2>1. /\ Len(queue') = q + m
        /\ \A i \in 1..m : /\ queue'[q + i].op = msgs[i].op /\ queue'[q + i].on = msgs[i].on
                           /\ queue'[q + i].id = n + i - 1
    BY <1>6, <1>8, <1>16 DEF Posted
  <2>2. msgs[m].op = op /\ msgs[m].on = dtr_on'
    BY <1>5, <1>8 DEF Question
  <2>3. m \in 1..m /\ n + m - 1 = want'
    BY <1>9
  <2>4. queue'[q + m].op = op /\ queue'[q + m].on = dtr_on' /\ queue'[q + m].id = want'
    BY <2>1, <2>2, <2>3
  <2>5. ASSUME NEW i \in 1 .. q + m, i # q + m
        PROVE  queue'[i].op # "DTR" /\ queue'[i].id # want'
    <3>1. CASE i <= q
      BY <1>8, <1>10, <1>14, <3>1
    <3>2. CASE i > q
      <4>1. i = q + 1 /\ m = 2
        <5>1. CASE m = 1
          BY <1>8, <2>5, <3>2, <5>1
        <5>2. CASE m = 2
          BY <1>8, <2>5, <3>2, <5>2
        <5>3. QED
          BY <5>1, <5>2
      <4>2. queue'[i].op = "send" /\ queue'[i].id = n
        BY <1>5, <1>8, <2>1, <4>1
      <4>3. QED
        BY <1>8, <1>9, <4>1, <4>2
    <3>3. QED
      BY <1>8, <3>1, <3>2
  <2>6. CASE op = "DTR"
    <3>1. dtr_on' = ~dtr_on
      BY <1>1, <2>6 DEF Asking
    <3>2. q + m \in 1..Len(queue')
      BY <1>8, <2>1
    <3>3. ~Still'
      BY <2>4, <2>6, <3>2 DEF Still
    <3>4. ~moved' => line' = ~dtr_on'
      BY <1>2, <1>3, <1>13, <3>1
    <3>5. \A i \in 1..Len(queue') : /\ queue'[i].id = want' <=> queue'[i].op = "DTR"
                                    /\ queue'[i].op = "DTR" => queue'[i].on = dtr_on'
      BY <2>1, <2>4, <2>5, <2>6
    <3>6. Asked'
      BY <3>3, <3>4, <3>5 DEF Asked
    <3>7. QED
      BY <1>11, <2>6, <3>6
  <2>7. CASE op = "ASK"
    <3>1. dtr_on' = dtr_on
      BY <1>1, <2>7 DEF Asking
    <3>2. Still'
      BY <2>1, <2>4, <2>5, <2>7 DEF Still
    <3>3. QED
      BY <1>2, <1>11, <1>13, <2>7, <3>1, <3>2 DEF Idle
  <2>8. QED
    BY <2>6, <2>7
<1>17. QED
  BY <1>15, <1>16

\* An answer: the toggle's tells how it went.
LEMMA HearBelief ==
  ASSUME BeliefInv, Hear
  PROVE  Numbered' /\ Belief'
<1>1. PICK k \in Nat : k = Len(answers) /\ answers \in Seq(Answers)
  BY DEF BeliefInv, ShellTyped
<1>2. /\ shell = "await" /\ answers # <<>> /\ answers' = Tail(answers)
      /\ UNCHANGED <<queue, next_id, line, moved, timedout, sent>>
  BY DEF Hear, history
<1>3. /\ k >= 1 /\ Len(answers') = k - 1 /\ \A i \in 1 .. k - 1 : answers'[i] = answers[i + 1] /\ i + 1 \in 1..k
      /\ Head(answers) = answers[1] /\ answers[1] \in Answers
  BY <1>1, <1>2
<1>4. Numbered'
  BY <1>1, <1>2, <1>3 DEF BeliefInv, Numbered
<1>5. PICK a \in Answers : a = answers[1]
  BY <1>3
<1>6. a.ok \in BOOLEAN /\ dtr_on \in BOOLEAN /\ line \in BOOLEAN /\ moved \in BOOLEAN
  BY <1>5 DEF Answers, BeliefInv, ShellTyped
<1>7. Toggled' <=> Toggled
  BY <1>2 DEF Toggled
<1>8. SUFFICES ASSUME ~timedout PROVE Belief'
  BY <1>2, <1>4 DEF Belief
<1>9. CASE a.id # want
  <2>1. shell' = shell /\ want' = want /\ dtr_on' = dtr_on
    BY <1>3, <1>5, <1>6, <1>9 DEF Hear
  <2>2. Still' <=> Still
    BY <1>2 DEF Still
  <2>3. CASE Toggled
    <3>1. Asked
      BY <1>2, <1>8, <2>3 DEF BeliefInv, Belief
    <3>2. Asked'
      BY <1>1, <1>2, <1>3, <2>1, <2>2, <3>1 DEF Asked
    <3>3. QED
      BY <1>2, <1>7, <2>1, <2>3, <3>2 DEF Belief
  <2>4. CASE ~Toggled
    <3>1. Idle
      BY <1>2, <1>8, <2>4 DEF BeliefInv, Belief
    <3>2. QED
      BY <1>2, <1>7, <2>1, <2>2, <2>4, <3>1 DEF Belief, Idle
  <2>5. QED
    BY <2>3, <2>4
<1>10. CASE a.id = want
  <2>1. /\ shell' = "keys" /\ dtr_on' = (IF Toggled /\ ~a.ok THEN ~dtr_on ELSE dtr_on)
    BY <1>3, <1>5, <1>10 DEF Hear
  <2>2. CASE Toggled
    <3>1. Asked
      BY <1>2, <1>8, <2>2 DEF BeliefInv, Belief
    <3>2. Still
      <4>1. ASSUME NEW j \in 1..Len(queue) PROVE queue[j].id # want
        <5>1. queue[j] \in Requests /\ a.id < queue[j].id
          BY <1>1, <1>3, <1>5, ElementOfSeq DEF BeliefInv, ShellTyped, Numbered
        <5>2. queue[j].id \in Nat /\ a.id \in Nat
          BY <1>5, <5>1 DEF Requests, Answers
        <5>3. QED
          BY <1>10, <5>1, <5>2
      <4>2. QED
        BY <3>1, <4>1 DEF Asked, Still
    <3>3. ~moved => line = IF a.ok THEN dtr_on ELSE ~dtr_on
      BY <1>1, <1>3, <1>5, <1>10, <3>1, <3>2 DEF Asked
    <3>4. Still'
      BY <1>2, <3>2 DEF Still
    <3>5. ~moved' => dtr_on' = line'
      BY <1>2, <1>6, <2>1, <2>2, <3>3
    <3>6. QED
      BY <2>1, <3>4, <3>5 DEF Belief, Idle
  <2>3. CASE ~Toggled
    <3>1. Idle
      BY <1>2, <1>8, <2>3 DEF BeliefInv, Belief
    <3>2. Still' /\ (~moved' => dtr_on' = line')
      BY <1>2, <2>1, <2>3, <3>1 DEF Idle, Still
    <3>3. QED
      BY <2>1, <3>2 DEF Belief, Idle
  <2>4. QED
    BY <2>2, <2>3
<1>11. QED
  BY <1>9, <1>10

\* The daemon handles a request: if it is the toggle, the answer to come is its.
LEMMA ServeBelief ==
  ASSUME BeliefInv, Serve
  PROVE  Numbered' /\ Belief'
<1>1. PICK k \in Nat, q \in Nat :
        k = Len(answers) /\ answers \in Seq(Answers) /\ q = Len(queue) /\ queue \in Seq(Requests)
  BY DEF BeliefInv, ShellTyped
<1>2. PICK r \in Requests : r = Head(queue) /\ r = queue[1]
  BY <1>1 DEF Serve
<1>3. PICK ok \in BOOLEAN :
        /\ answers' = IF shell = "over" THEN answers ELSE Append(answers, [id |-> r.id, ok |-> ok])
        /\ line' = IF r.op = "DTR" /\ ok THEN r.on ELSE line
        /\ moved' = (moved /\ ~(r.op = "DTR" /\ ok))
        /\ r.op # "DTR" => ok
  BY <1>2 DEF Serve
<1>4. /\ queue # <<>> /\ queue' = Tail(queue)
      /\ UNCHANGED <<dtr_on, next_id, want, shell, sent, timedout>>
  BY DEF Serve
<1>5. q >= 1 /\ Len(queue') = q - 1 /\ \A i \in 1 .. q - 1 : queue'[i] = queue[i + 1] /\ i + 1 \in 1..q
  BY <1>1, <1>4
<1>6. r.id \in Nat /\ r.op \in {"send", "DTR", "ASK"} /\ r.on \in BOOLEAN
  BY DEF Requests
<1>7. /\ \A i \in 1..q : queue[i].id \in Nat /\ queue[i].id < next_id
      /\ \A i \in 1..k : answers[i].id \in Nat /\ answers[i].id < next_id
      /\ \A i, j \in 1..q : i < j => queue[i].id < queue[j].id
      /\ \A i \in 1..k, j \in 1..q : answers[i].id < queue[j].id
      /\ 1 \in 1..q /\ next_id \in Nat
  <2>1. \A i \in 1..q : queue[i] \in Requests
    BY <1>1, ElementOfSeq
  <2>2. \A i \in 1..k : answers[i] \in Answers
    BY <1>1, ElementOfSeq
  <2>3. QED
    BY SMTT(20), <1>1, <1>5, <2>1, <2>2 DEF BeliefInv, ShellTyped, Numbered, Requests, Answers
<1>8. PICK a \in Answers : a = [id |-> r.id, ok |-> ok] /\ a.id = r.id /\ a.ok = ok
  <2>1. [id |-> r.id, ok |-> ok] \in Answers
    BY <1>6 DEF Answers
  <2>2. QED
    BY <2>1
<1>9. \A i \in 1..Len(answers') : \/ i \in 1..k /\ answers'[i] = answers[i]
                                  \/ shell # "over" /\ i = k + 1 /\ answers'[i] = a
  <2>1. CASE shell = "over"
    BY <1>1, <1>3, <2>1
  <2>2. CASE shell # "over"
    <3>1. answers' = Append(answers, a)
      BY <1>3, <1>8, <2>2
    <3>2. /\ Len(Append(answers, a)) = k + 1 /\ Append(answers, a)[k + 1] = a
          /\ \A i \in 1..k : Append(answers, a)[i] = answers[i]
      BY <1>1, AppendProperties
    <3>3. ASSUME NEW i \in 1 .. k + 1 PROVE i \in 1..k \/ i = k + 1
      BY <1>1
    <3>4. QED
      BY <2>2, <3>1, <3>2, <3>3
  <2>3. QED
    BY <2>1, <2>2
<1>10. \A i \in 1..Len(answers') :
         answers'[i].id < next_id /\ \A j \in 1 .. q - 1 : answers'[i].id < queue[j + 1].id
  <2>1. r.id < next_id /\ \A j \in 1 .. q - 1 : r.id < queue[j + 1].id
    <3>1. ASSUME NEW j \in 1 .. q - 1 PROVE r.id < queue[j + 1].id
      <4>1. 1 < j + 1 /\ j + 1 \in 1..q
        BY <1>1
      <4>2. QED
        BY <1>2, <1>7, <4>1
    <3>2. QED
      BY <1>2, <1>7, <3>1
  <2>2. ASSUME NEW i \in 1..Len(answers')
        PROVE  answers'[i].id < next_id /\ \A j \in 1 .. q - 1 : answers'[i].id < queue[j + 1].id
    <3>1. CASE i \in 1..k /\ answers'[i] = answers[i]
      BY <1>5, <1>7, <3>1
    <3>2. CASE answers'[i] = a
      BY <1>8, <2>1, <3>2
    <3>3. QED
      BY <1>9, <3>1, <3>2
  <2>3. QED
    BY <2>2
<1>11. Numbered'
  <2>1. \A i, j \in 1 .. q - 1 : i < j => queue'[i].id < queue'[j].id
    <3>1. ASSUME NEW i \in 1 .. q - 1, NEW j \in 1 .. q - 1, i < j
          PROVE  queue'[i].id < queue'[j].id
      <4>1. i + 1 < j + 1 /\ i + 1 \in 1..q /\ j + 1 \in 1..q
        BY <1>5, <3>1
      <4>2. QED
        BY <1>5, <1>7, <4>1
    <3>2. QED
      BY <3>1
  <2>2. QED
    BY <1>4, <1>5, <1>7, <1>10, <2>1 DEF Numbered
<1>12. Toggled' <=> Toggled
  BY <1>4 DEF Toggled
<1>13. SUFFICES ASSUME ~timedout PROVE Belief'
  BY <1>4, <1>11 DEF Belief
<1>14. dtr_on \in BOOLEAN /\ line \in BOOLEAN /\ moved \in BOOLEAN
  BY DEF BeliefInv, ShellTyped
<1>15. ASSUME Idle PROVE Idle'
  <2>1. r.op # "DTR"
    BY <1>1, <1>2, <1>7, <1>15 DEF Idle, Still
  <2>2. Still'
    BY <1>1, <1>5, <1>15 DEF Idle, Still
  <2>3. QED
    BY <1>3, <1>4, <1>15, <2>1, <2>2 DEF Idle
<1>16. CASE shell = "await" /\ Toggled
  <2>1. Asked
    BY <1>13, <1>16 DEF BeliefInv, Belief
  <2>2. \A i \in 1 .. q - 1 : /\ queue'[i].id = want' <=> queue'[i].op = "DTR"
                              /\ queue'[i].op = "DTR" => queue'[i].on = dtr_on'
    BY <1>1, <1>4, <1>5, <2>1 DEF Asked
  <2>3. (r.id = want <=> r.op = "DTR") /\ (r.op = "DTR" => r.on = dtr_on)
    BY <1>1, <1>2, <1>7, <2>1 DEF Asked
  <2>4. CASE r.op = "DTR"
    <3>1. ~Still /\ (~moved => line = ~dtr_on)
      <4>1. ~Still
        BY <1>1, <1>2, <1>7, <2>4 DEF Still
      <4>2. QED
        BY <2>1, <4>1 DEF Asked
    <3>2. Still'
      <4>1. ASSUME NEW i \in 1 .. q - 1 PROVE queue'[i].id # want'
        <5>1. i + 1 \in 1..q /\ 1 < i + 1 /\ queue'[i] = queue[i + 1]
          BY <1>5
        <5>2. r.id < queue[i + 1].id /\ queue[i + 1].id \in Nat
          BY <1>2, <1>7, <5>1
        <5>3. want' = r.id /\ queue'[i].id = queue[i + 1].id
          BY <1>4, <2>3, <2>4, <5>1
        <5>4. QED
          BY <1>6, <5>2, <5>3
      <4>2. QED
        BY <1>5, <2>2, <4>1 DEF Still
    <3>3. ASSUME ~moved', NEW i \in 1..Len(answers'), answers'[i].id = want'
          PROVE  line' = IF answers'[i].ok THEN dtr_on' ELSE ~dtr_on'
      <4>1. ~ (i \in 1..k /\ answers'[i] = answers[i])
        <5>1. ASSUME i \in 1..k, answers'[i] = answers[i] PROVE FALSE
          <6>1. answers[i].id < r.id /\ answers[i].id \in Nat
            BY <1>2, <1>7, <5>1
          <6>2. QED
            BY <1>4, <1>6, <2>3, <2>4, <3>3, <5>1, <6>1
        <5>2. QED
          BY <5>1
      <4>2. answers'[i] = a
        BY <1>9, <4>1
      <4>3. CASE ok
        <5>1. answers'[i].ok = TRUE /\ line' = dtr_on'
          BY <1>3, <1>4, <1>8, <2>3, <2>4, <4>2, <4>3
        <5>2. QED
          BY <5>1
      <4>4. CASE ~ok
        <5>1. answers'[i].ok = FALSE /\ line' = line /\ ~moved
          BY <1>3, <1>8, <3>3, <4>2, <4>4
        <5>2. QED
          BY <1>4, <3>1, <5>1
      <4>5. QED
        BY <4>3, <4>4
    <3>4. Asked'
      BY <1>5, <2>2, <3>2, <3>3 DEF Asked
    <3>5. QED
      BY <1>4, <1>12, <1>16, <3>4 DEF Belief
  <2>5. CASE r.op # "DTR"
    <3>1. line' = line /\ (moved' <=> moved)
      BY <1>3, <2>5
    <3>2. Still' <=> Still
      <4>1. ASSUME Still PROVE Still'
        BY <1>1, <1>5, <4>1 DEF Still
      <4>2. ASSUME ~Still PROVE ~Still'
        <5>1. PICK i \in 1..q : queue[i].op = "DTR"
          BY <1>1, <4>2 DEF Still
        <5>2. i # 1
          BY <1>2, <2>5, <5>1
        <5>3. PICK j \in 1 .. q - 1 : i = j + 1
          <6>1. i - 1 \in 1 .. q - 1 /\ i = (i - 1) + 1
            BY <1>1, <5>1, <5>2
          <6>2. QED
            BY <6>1
        <5>4. queue'[j].op = "DTR"
          BY <1>5, <5>1, <5>3
        <5>5. QED
          BY <1>5, <5>4 DEF Still
      <4>3. QED
        BY <4>1, <4>2
    <3>3. ASSUME Still, ~moved', NEW i \in 1..Len(answers'), answers'[i].id = want'
          PROVE  line' = IF answers'[i].ok THEN dtr_on' ELSE ~dtr_on'
      <4>1. answers'[i] # a
        BY <1>4, <1>8, <2>3, <2>5, <3>3
      <4>2. i \in 1..k /\ answers'[i] = answers[i]
        BY <1>9, <4>1
      <4>3. line = IF answers[i].ok THEN dtr_on ELSE ~dtr_on
        BY <1>1, <1>4, <2>1, <3>1, <3>3, <4>2 DEF Asked
      <4>4. QED
        BY <1>4, <3>1, <4>2, <4>3
    <3>4. ~Still' /\ ~moved' => line' = ~dtr_on'
      BY <1>4, <2>1, <3>1, <3>2 DEF Asked
    <3>5. Asked'
      BY <1>5, <2>2, <3>2, <3>3, <3>4 DEF Asked
    <3>6. QED
      BY <1>4, <1>12, <1>16, <3>5 DEF Belief
  <2>6. QED
    BY <2>4, <2>5
<1>17. CASE ~ (shell = "await" /\ Toggled)
  BY <1>4, <1>12, <1>13, <1>15, <1>17 DEF BeliefInv, Belief
<1>18. QED
  BY <1>16, <1>17

\* Whatever the shell and its daemon do, the belief is kept.
LEMMA BeliefKept ==
  ASSUME BeliefInv, ShellNext
  PROVE  BeliefInv'
<1>1. ShellTyped'
  BY ShellTypedKept DEF BeliefInv
<1>2. ASSUME UNCHANGED <<queue, answers, next_id>> PROVE Numbered' /\ (Still' <=> Still)
  BY <1>2 DEF BeliefInv, Numbered, Still
<1>3. CASE ReadChunk \/ PlainKey \/ LiteralKey
  <2>1. UNCHANGED <<queue, answers, next_id, dtr_on, line, moved, timedout>>
        /\ shell \in {"read", "keys"} /\ shell' \in {"keys", "over"}
    BY <1>3 DEF ReadChunk, PlainKey, LiteralKey, Escape, Look, daemonVars, history
  <2>2. Numbered' /\ (Idle' <=> Idle)
    BY <1>2, <2>1 DEF Idle
  <2>3. Belief'
    BY <2>1, <2>2 DEF BeliefInv, Belief
  <2>4. QED
    BY <1>1, <2>2, <2>3 DEF BeliefInv
<1>4. CASE EndChunk \/ Quit
  <2>1. Post(Plain(buffer)) /\ UNCHANGED <<answers, dtr_on, line, moved, timedout>>
        /\ shell = "keys" /\ shell' \in {"read", "over"}
    BY <1>4 DEF EndChunk, Quit, Escape, Look, history
  <2>2. Numbered' /\ (Idle => Idle')
    BY <2>1, PlainStill
  <2>3. Belief'
    BY <2>1, <2>2 DEF BeliefInv, Belief
  <2>4. QED
    BY <1>1, <2>2, <2>3 DEF BeliefInv
<1>5. CASE AskKey
  BY <1>1, <1>5, AskBelief DEF BeliefInv
<1>6. CASE Hear
  BY <1>1, <1>6, HearBelief DEF BeliefInv
<1>7. CASE HearNothing
  <2>1. UNCHANGED <<queue, answers, next_id>> /\ timedout' = TRUE
    BY <1>7 DEF HearNothing, daemonVars
  <2>2. QED
    BY <1>1, <1>2, <2>1 DEF BeliefInv, Belief
<1>8. CASE Serve
  BY <1>1, <1>8, ServeBelief DEF BeliefInv
<1>9. CASE LoseShellDaemon
  <2>1. UNCHANGED <<queue, answers, next_id, dtr_on, line, moved, timedout, shell, sent, want>>
    BY <1>9 DEF LoseShellDaemon, history
  <2>2. Numbered' /\ (Still' <=> Still)
    BY <1>2, <2>1
  <2>3. (Idle' <=> Idle) /\ (Asked' <=> Asked) /\ (Toggled' <=> Toggled)
    BY <2>1, <2>2 DEF Idle, Asked, Toggled
  <2>4. Belief'
    BY <2>1, <2>3 DEF BeliefInv, Belief
  <2>5. QED
    BY <1>1, <2>2, <2>4 DEF BeliefInv
<1>10. CASE OthersMove
  <2>1. UNCHANGED <<queue, answers, next_id, timedout, shell, sent>> /\ moved' = TRUE
        /\ UNCHANGED <<want, dtr_on>>
    BY <1>10 DEF OthersMove
  <2>2. Numbered' /\ (Still' <=> Still)
    BY <1>2, <2>1
  <2>3. (Idle => Idle') /\ (Asked => Asked') /\ (Toggled' <=> Toggled)
    BY <2>1, <2>2 DEF Idle, Asked, Toggled
  <2>4. Belief'
    BY <2>1, <2>3 DEF BeliefInv, Belief
  <2>5. QED
    BY <1>1, <2>2, <2>4 DEF BeliefInv
<1>11. QED
  BY <1>3, <1>4, <1>5, <1>6, <1>7, <1>8, <1>9, <1>10 DEF ShellNext, ShellStep

LEMMA BeliefTrue ==
  ASSUME BeliefInv
  PROVE  BeliefHolds
BY DEF BeliefInv, Belief, Idle, BeliefHolds

-----------------------------------------------------------------------------
(* The decoder.                                                            *)

\* The bytes that are in no line still to come.
Decoded == Len(stream) - Len(coming) - Len(src)

CodecTyped ==
  /\ stream \in Seq(Bytes) /\ coming \in Seq(Bytes) /\ src \in Seq(Bytes)
  /\ next_index \in Nat /\ next_index <= Len(src)
  /\ reader \in {"decode", "read", "eof", "end", "failed"}
  /\ messages \in Seq(Seq(Bytes))

\* What is in the buffer and what has not arrived are the bytes that follow.
Framed ==
  /\ Len(coming) + Len(src) <= Len(stream)
  /\ \A i \in 1..Len(src) : src[i] = stream[Decoded + i]
  /\ \A i \in 1..Len(coming) : coming[i] = stream[Decoded + Len(src) + i]
  /\ \A i \in 1..next_index : src[i] # LF

\* Between two lines, a decoder has what the lines before hold; one that has
\* failed has what the stream holds, which is not well formed.
Yielded ==
  LET w == Way("bytes", stream) IN
  /\ reader # "failed" => w[Decoded] = [line |-> <<>>, got |-> messages, failed |-> FALSE]
  /\ reader = "read" => Len(src) <= MAX_LINE_BYTES
  /\ reader \in {"eof", "end"} => coming = <<>>
  /\ reader = "end" => src = <<>>
  /\ reader = "failed" =>
       messages = w[Len(stream)].got /\ (w[Len(stream)].failed \/ w[Len(stream)].line # <<>>)

CodecInv == CodecTyped /\ Framed /\ Yielded

\* The bytes between lines and what was decoded, counted.
LEMMA Counts ==
  ASSUME CodecTyped, Framed
  PROVE  /\ Decoded \in Nat /\ Decoded + Len(src) + Len(coming) = Len(stream)
         /\ Len(stream) \in Nat /\ Len(src) \in Nat /\ Len(coming) \in Nat
<1>1. PICK n \in Nat, a \in Nat, b \in Nat : n = Len(stream) /\ a = Len(coming) /\ b = Len(src)
  BY DEF CodecTyped
<1>2. a + b <= n /\ Decoded = n - a - b
  BY <1>1 DEF Framed, Decoded
<1>3. n - a - b \in Nat /\ (n - a - b) + b + a = n
  BY <1>1, <1>2
<1>4. QED
  BY <1>1, <1>2, <1>3

\* One byte further.
LEMMA NextByte ==
  ASSUME CodecTyped, Framed, NEW k \in 1..Len(src)
  PROVE  /\ Decoded + k \in 1..Len(stream) /\ Decoded + (k - 1) \in 0..Len(stream) /\ src[k] \in Bytes
         /\ Way("bytes", stream)[Decoded + k] = Parse(Way("bytes", stream)[Decoded + (k - 1)], src[k])
<1>1. PICK n \in Nat, a \in Nat, b \in Nat, p \in Nat :
        n = Len(stream) /\ a = Len(coming) /\ b = Len(src) /\ p = Decoded
  BY Counts
<1>2. p + b + a = n
  BY <1>1, Counts
<1>3. p + k \in 1..n /\ (p + k) - 1 = p + (k - 1) /\ p + (k - 1) \in 0..n
  BY <1>1, <1>2
<1>4. Steps(Way("bytes", stream), "bytes", stream)
  BY StepsExist DEF CodecTyped
<1>5. Way("bytes", stream)[p + k] = Parse(Way("bytes", stream)[(p + k) - 1], stream[p + k])
  BY <1>1, <1>3, <1>4 DEF Steps, Advance
<1>6. src[k] = stream[p + k] /\ src[k] \in Bytes
  BY <1>1 DEF Framed, CodecTyped
<1>7. QED
  BY <1>1, <1>3, <1>5, <1>6

\* A line so far.
LineIs(st, text) == st.line = text /\ st.got = messages /\ st.failed = FALSE

\* As long as no LF comes, and no byte too many, the line grows and no more.
LEMMA LineGrows ==
  ASSUME CodecInv, reader # "failed", NEW m \in 0..Len(src), m <= MAX_LINE_BYTES,
         \A i \in 1..m : src[i] # LF
  PROVE  LineIs(Way("bytes", stream)[Decoded + m], SubSeq(src, 1, m))
<1> DEFINE w == Way("bytes", stream)
           p == Decoded
           T == {k \in Nat : k <= m => LineIs(w[p + k], SubSeq(src, 1, k))}
<1>1. p \in Nat /\ Len(src) \in Nat /\ m \in Nat /\ m <= Len(src) /\ src \in Seq(Bytes)
  BY Counts DEF CodecInv, CodecTyped
<1>2. MAX_LINE_BYTES \in Nat
  BY CodecConstants
<1>3. 0 \in T
  <2>1. p + 0 = p /\ SubSeq(src, 1, 0) = <<>>
    BY <1>1
  <2>2. w[p] = [line |-> <<>>, got |-> messages, failed |-> FALSE]
    BY DEF CodecInv, Yielded
  <2> HIDE DEF w, p
  <2>3. PICK st : st = w[p]
    OBVIOUS
  <2>4. st.line = <<>> /\ st.got = messages /\ st.failed = FALSE
    BY <2>2, <2>3
  <2>5. LineIs(w[p + 0], SubSeq(src, 1, 0))
    BY <2>1, <2>3, <2>4 DEF LineIs
  <2>6. QED
    BY <2>5
<1>4. ASSUME NEW k \in T PROVE k + 1 \in T
  <2>1. SUFFICES ASSUME k + 1 <= m PROVE LineIs(w[p + (k + 1)], SubSeq(src, 1, k + 1))
    OBVIOUS
  <2>2. k \in Nat /\ k <= m /\ k + 1 \in 1..Len(src) /\ (k + 1) - 1 = k /\ k + 1 \in 1..m
    BY <1>1, <2>1
  <2>3. LineIs(w[p + k], SubSeq(src, 1, k))
    BY <2>2
  <2>4. w[p + (k + 1)] = Parse(w[p + k], src[k + 1]) /\ src[k + 1] # LF /\ src[k + 1] \in Bytes
        /\ p + k \in 0..Len(stream)
    BY <2>2, NextByte DEF CodecInv
  <2>5. w[p + k] \in States("bytes")
    <3>1. stream \in Seq(Symbols("bytes"))
      BY DEF CodecInv, CodecTyped, Symbols
    <3>2. QED
      BY <2>4, <3>1, WayGrows
  <2>6. Len(SubSeq(src, 1, k)) = k /\ Append(SubSeq(src, 1, k), src[k + 1]) = SubSeq(src, 1, k + 1)
    BY <1>1, <2>2
  <2> HIDE DEF w, p, T
  <2>7. PICK st, text, b : st = w[p + k] /\ text = SubSeq(src, 1, k) /\ b = src[k + 1]
    OBVIOUS
  <2>8. ~st.failed /\ st.line = text /\ st.got = messages /\ b # LF /\ ~ (Len(st.line) >= MAX_LINE_BYTES)
    <3>1. ~ (k >= MAX_LINE_BYTES)
      BY <1>1, <1>2, <2>1, <2>2
    <3>2. QED
      BY <2>3, <2>4, <2>6, <2>7, <3>1 DEF LineIs
  <2>9. Parse(st, b) = [st EXCEPT !.line = Append(@, b), !.failed = Len(st.line) >= MAX_LINE_BYTES]
    BY <2>8 DEF Parse
  <2>10. PICK l \in Seq(Bytes), g \in Seq(Seq(Bytes)), f \in BOOLEAN : st = [line |-> l, got |-> g, failed |-> f]
    BY <2>5, <2>7 DEF States
  <2>11. Parse(st, b).line = Append(text, b) /\ Parse(st, b).got = messages /\ Parse(st, b).failed = FALSE
    BY <2>8, <2>9, <2>10
  <2>12. QED
    BY <2>4, <2>6, <2>7, <2>11 DEF LineIs
<1>5. T = Nat
  <2>1. T \in SUBSET Nat
    OBVIOUS
  <2> HIDE DEF T
  <2>2. QED
    BY <1>3, <1>4, <2>1, Induction
<1>6. m \in T
  <2> HIDE DEF T
  <2>1. QED
    BY <1>1, <1>5
<1>7. m <= m => LineIs(w[p + m], SubSeq(src, 1, m))
  <2> HIDE DEF w, p
  <2>1. QED
    BY <1>6
<1>8. m <= m
  BY <1>1
<1>9. QED
  BY <1>7, <1>8

\* What NewlineAt finds is the first LF there is.
LEMMA FirstLF ==
  ASSUME CodecTyped, Framed
  PROVE  \/ NewlineAt = 0 /\ \A i \in 1..Len(src) : src[i] # LF
         \/ /\ NewlineAt \in 1..Len(src) /\ src[NewlineAt] = LF
            /\ \A i \in 1 .. NewlineAt - 1 : src[i] # LF
<1> DEFINE found == {i \in next_index + 1 .. Len(src) : src[i] = LF}
<1>1. PICK x \in Nat, b \in Nat : x = next_index /\ b = Len(src) /\ x <= b
  <2>1. next_index \in Nat /\ Len(src) \in Nat /\ next_index <= Len(src)
    BY DEF CodecTyped
  <2>2. QED
    BY <2>1
<1>2. \A i \in 1..x : src[i] # LF
  BY <1>1 DEF Framed
<1>3. \A i : i \in found <=> i \in 1..b /\ i > x /\ src[i] = LF
  BY <1>1
<1>4. found \in SUBSET Nat
  BY <1>1
<1>5. NewlineAt = IF found = {} THEN 0 ELSE CHOOSE i \in found : \A j \in found : i <= j
  BY DEF NewlineAt
<1> HIDE DEF found
<1>6. CASE found = {}
  <2>1. NewlineAt = 0
    BY <1>5, <1>6
  <2>2. ASSUME NEW i \in 1..b PROVE src[i] # LF
    BY <1>1, <1>2, <1>3, <1>6
  <2>3. QED
    BY <1>1, <2>1, <2>2
<1>7. CASE found # {}
  <2>1. \E i \in found : \A j \in found : i <= j
    BY <1>4, <1>7, Least
  <2>2. NewlineAt \in found /\ \A j \in found : NewlineAt <= j
    BY <1>5, <1>7, <2>1
  <2>3. PICK k \in 1..b : k = NewlineAt /\ k > x /\ src[k] = LF /\ \A j \in found : k <= j
    BY <1>3, <2>2
  <2>4. ASSUME NEW i \in 1 .. k - 1 PROVE src[i] # LF
    <3>1. i \in 1..b /\ ~ (k <= i)
      BY <1>1, <2>3
    <3>2. i \notin found
      BY <2>3, <3>1
    <3>3. QED
      BY <1>1, <1>2, <1>3, <3>1, <3>2
  <2>5. QED
    BY <1>1, <2>3, <2>4
<1>8. QED
  BY <1>6, <1>7

\* A stream that has failed has failed for good.
LEMMA Stuck ==
  ASSUME CodecTyped, NEW k \in 0..Len(stream), Way("bytes", stream)[k].failed,
         Way("bytes", stream)[k].got = messages
  PROVE  Way("bytes", stream)[Len(stream)].failed /\ Way("bytes", stream)[Len(stream)].got = messages
<1>1. stream \in Seq(Symbols("bytes"))
  BY DEF CodecTyped, Symbols
<1>2. Len(stream) \in 0..Len(stream) /\ k <= Len(stream)
  BY <1>1
<1>3. Grows("bytes", Way("bytes", stream)[k], Way("bytes", stream)[Len(stream)])
  BY <1>1, <1>2, WayGrows
<1>4. Way("bytes", stream)[Len(stream)] = Way("bytes", stream)[k]
  BY <1>3 DEF Grows
<1>5. QED
  BY <1>4

Line == Strip(SubSeq(src, 1, NewlineAt - 1))

\* The byte after a line.
LEMMA LineEnds ==
  ASSUME CodecInv, reader # "failed", NewlineAt \in 1..MAX_LINE_BYTES
  PROVE  /\ NewlineAt \in 1..Len(src)
         /\ "?" \notin Range(Line) =>
              Way("bytes", stream)[Decoded + NewlineAt] =
                [line |-> <<>>,
                 got |-> IF Line = <<>> THEN messages ELSE Append(messages, Line),
                 failed |-> FALSE]
         /\ "?" \in Range(Line) =>
              /\ Way("bytes", stream)[Decoded + NewlineAt].failed
              /\ Way("bytes", stream)[Decoded + NewlineAt].got = messages
<1>1. PICK k \in Nat : k = NewlineAt /\ k >= 1 /\ k <= MAX_LINE_BYTES
  BY CodecConstants
<1>2. k \in 1..Len(src) /\ src[k] = LF /\ \A i \in 1 .. k - 1 : src[i] # LF
  BY <1>1, FirstLF DEF CodecInv
<1>3. Len(src) \in Nat /\ src \in Seq(Bytes)
  BY DEF CodecInv, CodecTyped
<1>4. k - 1 \in 0..Len(src) /\ k - 1 <= MAX_LINE_BYTES /\ ~ (k - 1 >= MAX_LINE_BYTES)
  BY <1>1, <1>2, <1>3, CodecConstants
<1>5. LineIs(Way("bytes", stream)[Decoded + (k - 1)], SubSeq(src, 1, k - 1))
  BY <1>2, <1>4, LineGrows
<1>6. Way("bytes", stream)[Decoded + k] = Parse(Way("bytes", stream)[Decoded + (k - 1)], src[k])
  BY <1>2, NextByte DEF CodecInv
<1>7. PICK st, text : st = Way("bytes", stream)[Decoded + (k - 1)] /\ text = SubSeq(src, 1, k - 1)
  OBVIOUS
<1>8. Len(text) = k - 1
  BY <1>2, <1>3, <1>7
<1>9. ~st.failed /\ st.line = text /\ st.got = messages /\ ~ (Len(st.line) >= MAX_LINE_BYTES)
  BY <1>4, <1>5, <1>7, <1>8 DEF LineIs
<1>10. PICK now : now = Parse(st, LF)
  OBVIOUS
<1>11. PICK f \in BOOLEAN :
         /\ f <=> "?" \in Range(Strip(text))
         /\ now = [line |-> <<>>,
                   got |-> IF Strip(text) = <<>> \/ f THEN messages ELSE Append(messages, Strip(text)),
                   failed |-> f]
  <2>1. CASE "?" \in Range(Strip(text))
    <3>1. now = [line |-> <<>>, got |-> messages, failed |-> TRUE]
      BY <1>9, <1>10, <2>1 DEF Parse
    <3>2. QED
      BY <2>1, <3>1
  <2>2. CASE "?" \notin Range(Strip(text))
    <3>1. now = [line |-> <<>>,
                 got |-> IF Strip(text) = <<>> THEN messages ELSE Append(messages, Strip(text)),
                 failed |-> FALSE]
      BY <1>9, <1>10, <2>2 DEF Parse
    <3>2. QED
      BY <2>2, <3>1
  <2>3. QED
    BY <2>1, <2>2
<1>12. Line = Strip(text)
  BY <1>1, <1>7 DEF Line
<1>13. Way("bytes", stream)[Decoded + NewlineAt] = now
  BY <1>1, <1>2, <1>6, <1>7, <1>10
<1>14. ASSUME "?" \notin Range(Line)
       PROVE  now = [line |-> <<>>, got |-> IF Line = <<>> THEN messages ELSE Append(messages, Line),
                     failed |-> FALSE]
  <2>1. f = FALSE
    BY <1>11, <1>12, <1>14
  <2>2. QED
    BY <1>11, <1>12, <2>1
<1>15. ASSUME "?" \in Range(Line) PROVE now.failed /\ now.got = messages
  <2>1. f = TRUE
    BY <1>11, <1>12, <1>15
  <2>2. QED
    BY <1>11, <2>1
<1>16. NewlineAt \in 1..Len(src)
  BY <1>1, <1>2
<1>17. QED
  BY <1>13, <1>14, <1>15, <1>16

\* A line is taken, or is the end of all.
LEMMA TakeLineKeeps ==
  ASSUME CodecInv, TakeLine
  PROVE  CodecInv'
<1>1. /\ reader \in {"decode", "eof"} /\ NewlineAt \in 1..MAX_LINE_BYTES
      /\ stream' = stream /\ coming' = coming
  BY DEF TakeLine
<1>2. PICK k : k = NewlineAt
  OBVIOUS
<1>3. /\ k \in 1..Len(src)
      /\ "?" \notin Range(Line) =>
           Way("bytes", stream)[Decoded + k] =
             [line |-> <<>>, got |-> IF Line = <<>> THEN messages ELSE Append(messages, Line),
              failed |-> FALSE]
      /\ "?" \in Range(Line) =>
           Way("bytes", stream)[Decoded + k].failed /\ Way("bytes", stream)[Decoded + k].got = messages
  BY <1>1, <1>2, LineEnds
<1>4. PICK n \in Nat, a \in Nat, b \in Nat, p \in Nat :
        n = Len(stream) /\ a = Len(coming) /\ b = Len(src) /\ p = Decoded /\ p + b + a = n
  BY Counts DEF CodecInv
<1>5. CASE "?" \notin Range(Line)
  <2>1. /\ src' = SubSeq(src, k + 1, b) /\ next_index' = 0 /\ reader' = reader
        /\ messages' = IF Line = <<>> THEN messages ELSE Append(messages, Line)
    BY <1>2, <1>4, <1>5 DEF TakeLine, Line
  <2>2. src \in Seq(Bytes) /\ k \in Nat /\ k >= 1 /\ k <= b /\ b - k \in Nat
    BY <1>3, <1>4 DEF CodecInv, CodecTyped
  <2>3. src' \in Seq(Bytes) /\ Len(src') = b - k /\ \A i \in 1 .. b - k : src'[i] = src[k + i]
    <3>1. src' \in Seq(Bytes) /\ Len(src') = b - k
      BY <1>4, <2>1, <2>2
    <3>2. ASSUME NEW i \in 1 .. b - k PROVE src'[i] = src[k + i]
      <4>1. src'[i] = src[(k + 1) + i - 1] /\ (k + 1) + i - 1 = k + i
        BY <1>4, <2>1, <2>2
      <4>2. QED
        BY <4>1
    <3>3. QED
      BY <3>1, <3>2
  <2>4. Line \in Seq(Bytes)
    <3>1. k - 1 \in Nat /\ k - 1 <= b
      BY <2>2
    <3>2. SubSeq(src, 1, k - 1) \in Seq(Bytes)
      BY <1>4, <2>2, <3>1
    <3>3. QED
      BY <1>2, <3>2, StripIsLine DEF Line
  <2>5. CodecTyped'
    <3>1. messages' \in Seq(Seq(Bytes))
      BY <2>1, <2>4, AppendProperties DEF CodecInv, CodecTyped
    <3>2. next_index' \in Nat /\ next_index' <= Len(src')
      BY <2>1, <2>2, <2>3
    <3>3. QED
      BY <1>1, <2>1, <2>3, <3>1, <3>2 DEF CodecInv, CodecTyped
  <2>6. Decoded' = p + k
    <3>1. Decoded' = n - a - (b - k) /\ n - a - (b - k) = p + k
      BY <1>1, <1>4, <2>2, <2>3 DEF Decoded
    <3>2. QED
      BY <3>1
  <2>7. Framed'
    <3>1. \A i \in 1 .. b - k : src'[i] = stream'[(p + k) + i]
      <4>1. ASSUME NEW i \in 1 .. b - k PROVE src'[i] = stream'[(p + k) + i]
        <5>1. k + i \in 1..b /\ p + (k + i) = (p + k) + i
          BY <2>2
        <5>2. QED
          BY <1>1, <1>4, <2>3, <5>1 DEF CodecInv, Framed
      <4>2. QED
        BY <4>1
    <3>2. \A i \in 1..a : coming'[i] = stream'[(p + k) + (b - k) + i]
      <4>1. ASSUME NEW i \in 1..a PROVE coming'[i] = stream'[(p + k) + (b - k) + i]
        <5>1. (p + k) + (b - k) + i = p + b + i
          BY <2>2
        <5>2. QED
          BY <1>1, <1>4, <5>1 DEF CodecInv, Framed
      <4>2. QED
        BY <4>1
    <3>3. a + (b - k) <= n
      BY <1>4, <2>2
    <3>4. \A i \in 1..next_index' : src'[i] # LF
      BY <2>1
    <3>5. QED
      BY <1>1, <1>4, <2>3, <2>6, <3>1, <3>2, <3>3, <3>4 DEF Framed
  <2>8. Yielded'
    <3>1. Way("bytes", stream)[p + k] = [line |-> <<>>, got |-> messages', failed |-> FALSE]
      BY <1>3, <1>4, <1>5, <2>1
    <3>2. reader' = "eof" => coming' = <<>>
      BY <1>1, <2>1 DEF CodecInv, Yielded
    <3>3. QED
      BY <1>1, <2>1, <2>6, <3>1, <3>2 DEF Yielded
  <2>9. QED
    BY <2>5, <2>7, <2>8 DEF CodecInv
<1>6. CASE "?" \in Range(Line)
  <2>1. reader' = "failed" /\ UNCHANGED <<stream, coming, src, next_index, messages>>
    BY <1>1, <1>6 DEF TakeLine, Line, Fail
  <2>2. PICK st : st = Way("bytes", stream)[Decoded + k]
    OBVIOUS
  <2>3. st.failed /\ st.got = messages
    BY <1>3, <1>6, <2>2
  <2>4. Decoded + k \in 0..Len(stream)
    BY <1>3, <1>4
  <2>5. Way("bytes", stream)[Len(stream)].failed /\ Way("bytes", stream)[Len(stream)].got = messages
    BY <2>2, <2>3, <2>4, Stuck DEF CodecInv
  <2>6. QED
    BY <2>1, <2>5 DEF CodecInv, CodecTyped, Framed, Decoded, Yielded
<1>7. QED
  BY <1>5, <1>6

\* A line too long ends it where it should.
LEMMA OverlongKeeps ==
  ASSUME CodecInv, Overlong
  PROVE  CodecInv'
<1>1. /\ reader \in {"decode", "eof"} /\ reader' = "failed"
      /\ UNCHANGED <<stream, coming, src, next_index, messages>>
      /\ NewlineAt > MAX_LINE_BYTES \/ (NewlineAt = 0 /\ Len(src) > MAX_LINE_BYTES)
  BY DEF Overlong, Fail
<1>2. PICK m \in Nat : m = MAX_LINE_BYTES
  BY CodecConstants
<1>3. Len(src) \in Nat /\ src \in Seq(Bytes)
  BY DEF CodecInv, CodecTyped
<1>4. m + 1 \in 1..Len(src) /\ \A i \in 1..m : src[i] # LF
  <2>1. CASE NewlineAt = 0
    BY <1>1, <1>2, <1>3, <2>1, FirstLF DEF CodecInv
  <2>2. CASE NewlineAt # 0
    <3>1. NewlineAt > m /\ NewlineAt \in 1..Len(src) /\ \A i \in 1 .. NewlineAt - 1 : src[i] # LF
      BY <1>1, <1>2, <2>2, FirstLF DEF CodecInv
    <3>2. PICK k \in 1..Len(src) : k = NewlineAt
      BY <3>1
    <3>3. m + 1 \in 1..Len(src) /\ \A i \in 1..m : i \in 1 .. k - 1
      BY <1>2, <1>3, <3>1, <3>2
    <3>4. QED
      BY <3>1, <3>2, <3>3
  <2>3. QED
    BY <2>1, <2>2
<1>5. m \in 0..Len(src) /\ (m + 1) - 1 = m
  BY <1>2, <1>3, <1>4
<1>6. LineIs(Way("bytes", stream)[Decoded + m], SubSeq(src, 1, m))
  BY <1>1, <1>2, <1>4, <1>5, LineGrows
<1>7. /\ Way("bytes", stream)[Decoded + (m + 1)] = Parse(Way("bytes", stream)[Decoded + m], src[m + 1])
      /\ Decoded + (m + 1) \in 1..Len(stream)
  BY <1>4, <1>5, NextByte DEF CodecInv
<1>8. Way("bytes", stream)[Decoded + m] \in States("bytes")
  <2>1. stream \in Seq(Symbols("bytes"))
    BY DEF CodecInv, CodecTyped, Symbols
  <2>2. Decoded + m \in 0..Len(stream)
    BY <1>4, <1>5, NextByte DEF CodecInv
  <2>3. QED
    BY <2>1, <2>2, WayGrows
<1>9. PICK st, text : st = Way("bytes", stream)[Decoded + m] /\ text = SubSeq(src, 1, m)
  OBVIOUS
<1>10. Len(text) = m
  BY <1>2, <1>3, <1>5, <1>9
<1>11. ~st.failed /\ st.got = messages /\ Len(st.line) >= MAX_LINE_BYTES
  BY <1>2, <1>6, <1>9, <1>10 DEF LineIs
<1>12. PICK l \in Seq(Bytes), g \in Seq(Seq(Bytes)), f \in BOOLEAN : st = [line |-> l, got |-> g, failed |-> f]
  BY <1>8, <1>9 DEF States
<1>13. PICK long \in BOOLEAN : long = TRUE /\ long = (Len(st.line) >= MAX_LINE_BYTES)
  BY <1>11
<1>14. PICK b : b = src[m + 1]
  OBVIOUS
<1>15. Parse(st, b).failed /\ Parse(st, b).got = messages
  <2>1. CASE b # LF
    <3>1. Parse(st, b) = [st EXCEPT !.line = Append(@, b), !.failed = Len(st.line) >= MAX_LINE_BYTES]
      BY <1>11, <2>1 DEF Parse
    <3>2. Parse(st, b).failed = long /\ Parse(st, b).got = g
      BY <1>12, <1>13, <3>1
    <3>3. QED
      BY <1>11, <1>12, <1>13, <3>2
  <2>2. CASE b = LF
    <3>1. Parse(st, b) =
            [line |-> <<>>,
             got |-> IF Strip(st.line) = <<>> \/ "?" \in Range(Strip(st.line)) \/ long
                     THEN st.got ELSE Append(st.got, Strip(st.line)),
             failed |-> "?" \in Range(Strip(st.line)) \/ long]
      BY <1>11, <1>13, <2>2 DEF Parse
    <3>2. QED
      BY <1>11, <1>13, <3>1
  <2>3. QED
    BY <2>1, <2>2
<1>16. Way("bytes", stream)[Len(stream)].failed /\ Way("bytes", stream)[Len(stream)].got = messages
  <2>1. Decoded + (m + 1) \in 0..Len(stream)
    BY <1>7
  <2>2. QED
    BY <1>7, <1>9, <1>14, <1>15, <2>1, Stuck DEF CodecInv
<1>17. QED
  BY <1>1, <1>16 DEF CodecInv, CodecTyped, Framed, Decoded, Yielded

\* No line yet: more is read, or nothing may be left.
LEMMA NoLineKeeps ==
  ASSUME CodecInv, NoLine
  PROVE  CodecInv'
<1>1. /\ reader \in {"decode", "eof"} /\ NewlineAt = 0 /\ Len(src) <= MAX_LINE_BYTES
      /\ next_index' = Len(src) /\ UNCHANGED <<stream, coming, src, messages>>
      /\ reader' = IF reader = "decode" THEN "read" ELSE IF src = <<>> THEN "end" ELSE "failed"
  BY DEF NoLine
<1>2. Len(src) \in Nat /\ src \in Seq(Bytes)
  BY DEF CodecInv, CodecTyped
<1>3. \A i \in 1..Len(src) : src[i] # LF
  <2>1. NewlineAt \notin 1..Len(src)
    BY <1>1, <1>2
  <2>2. QED
    BY <2>1, FirstLF DEF CodecInv
<1>4. CodecTyped'
  BY <1>1, <1>2 DEF CodecInv, CodecTyped
<1>5. Framed'
  BY <1>1, <1>3 DEF CodecInv, Framed, Decoded
<1>6. Decoded' = Decoded /\ Way("bytes", stream)[Decoded] = [line |-> <<>>, got |-> messages, failed |-> FALSE]
  BY <1>1 DEF Decoded, CodecInv, Yielded
<1>7. CASE reader = "decode"
  BY <1>1, <1>4, <1>5, <1>6, <1>7 DEF CodecInv, Yielded
<1>8. CASE reader = "eof"
  <2>1. coming = <<>>
    BY <1>8 DEF CodecInv, Yielded
  <2>2. Decoded + Len(src) = Len(stream)
    <3>1. Len(coming) = 0
      BY <2>1
    <3>2. PICK p \in Nat, b \in Nat : p = Decoded /\ b = Len(src) /\ p + b + 0 = Len(stream)
      BY <3>1, Counts DEF CodecInv
    <3>3. QED
      BY <3>2
  <2>3. CASE src = <<>>
    BY <1>1, <1>4, <1>5, <1>6, <1>8, <2>1, <2>3 DEF CodecInv, Yielded
  <2>4. CASE src # <<>>
    <3>1. Len(src) \in 0..Len(src)
      BY <1>2
    <3>2. LineIs(Way("bytes", stream)[Decoded + Len(src)], SubSeq(src, 1, Len(src)))
      BY <1>1, <1>3, <3>1, LineGrows
    <3>3. SubSeq(src, 1, Len(src)) = src
      BY <1>2
    <3>4. Way("bytes", stream)[Len(stream)].got = messages /\ Way("bytes", stream)[Len(stream)].line # <<>>
      BY <2>2, <2>4, <3>2, <3>3 DEF LineIs
    <3>5. reader' = "failed"
      BY <1>1, <1>8, <2>4
    <3>6. QED
      BY <1>1, <1>4, <1>5, <3>4, <3>5 DEF CodecInv, Yielded
  <2>5. QED
    BY <2>3, <2>4
<1>9. QED
  BY <1>1, <1>7, <1>8

\* Bytes arrive, or there are no more.
LEMMA ArriveKeeps ==
  ASSUME CodecInv, Arrive
  PROVE  CodecInv'
<1>1. reader = "read" /\ UNCHANGED <<stream, next_index, messages>>
  BY DEF Arrive
<1>2. PICK n \in Nat, a \in Nat, b \in Nat, p \in Nat :
        n = Len(stream) /\ a = Len(coming) /\ b = Len(src) /\ p = Decoded /\ p + b + a = n
  BY Counts DEF CodecInv
<1>3. /\ src \in Seq(Bytes) /\ coming \in Seq(Bytes) /\ next_index \in Nat /\ next_index <= b
      /\ Way("bytes", stream)[p] = [line |-> <<>>, got |-> messages, failed |-> FALSE]
      /\ \A i \in 1..b : src[i] = stream[p + i]
      /\ \A i \in 1..a : coming[i] = stream[p + b + i]
      /\ \A i \in 1..next_index : src[i] # LF
  BY <1>1, <1>2 DEF CodecInv, CodecTyped, Framed, Yielded
<1>4. CASE coming = <<>> /\ reader' = "eof" /\ UNCHANGED <<src, coming>>
  BY <1>1, <1>4 DEF CodecInv, CodecTyped, Framed, Decoded, Yielded
<1>5. CASE /\ reader' = "decode"
           /\ \E k \in 1..Len(coming) :
                src' = src \o SubSeq(coming, 1, k) /\ coming' = SubSeq(coming, k + 1, Len(coming))
  <2>1. PICK k \in 1..a : src' = src \o SubSeq(coming, 1, k) /\ coming' = SubSeq(coming, k + 1, a)
    BY <1>2, <1>5
  <2>2. k \in Nat /\ k >= 1 /\ k <= a /\ a - k \in Nat
    BY <1>2, <2>1
  <2>3. PICK new \in Seq(Bytes) : new = SubSeq(coming, 1, k)
    <3>1. SubSeq(coming, 1, k) \in Seq(Bytes)
      <4>1. \A i \in 1..k : coming[i] \in Bytes
        <5>1. \A i \in 1..k : i \in 1..a
          BY <1>2, <2>2
        <5>2. QED
          BY <1>2, <1>3, <5>1, ElementOfSeq
      <4>2. QED
        BY <2>2, <4>1
    <3>2. QED
      BY <3>1
  <2>4. Len(new) = k /\ \A i \in 1..k : new[i] = coming[i]
    BY <1>2, <1>3, <2>2, <2>3
  <2>5. /\ src' \in Seq(Bytes) /\ Len(src') = b + k
        /\ \A i \in 1..b : src'[i] = src[i]
        /\ \A i \in 1..k : src'[b + i] = new[i]
    <3>1. /\ src \o new \in Seq(Bytes) /\ Len(src \o new) = Len(src) + Len(new)
          /\ \A i \in 1 .. Len(src) + Len(new) :
               (src \o new)[i] = IF i <= Len(src) THEN src[i] ELSE new[i - Len(src)]
      BY <1>3, <2>3, ConcatProperties
    <3>2. src' = src \o new /\ Len(src) = b /\ Len(new) = k
      BY <1>2, <2>1, <2>3, <2>4
    <3>3. src' \in Seq(Bytes) /\ Len(src') = b + k
          /\ \A i \in 1 .. b + k : src'[i] = IF i <= b THEN src[i] ELSE new[i - b]
      BY <3>1, <3>2
    <3>4. \A i \in 1..b : i \in 1 .. b + k /\ i <= b
      BY <1>2, <2>2
    <3>5. \A i \in 1..k : b + i \in 1 .. b + k /\ ~ (b + i <= b) /\ (b + i) - b = i
      BY <1>2, <2>2
    <3>6. QED
      BY <3>3, <3>4, <3>5
  <2>6. coming' \in Seq(Bytes) /\ Len(coming') = a - k /\ \A i \in 1 .. a - k : coming'[i] = coming[k + i]
    <3>1. coming' \in Seq(Bytes) /\ Len(coming') = a - k
      <4>1. coming \in Seq(Bytes) /\ Len(coming) = a
        BY <1>2, <1>3
      <4>2. QED
        BY <2>1, <2>2, <4>1
    <3>2. ASSUME NEW i \in 1 .. a - k PROVE coming'[i] = coming[k + i]
      <4>1. coming'[i] = coming[(k + 1) + i - 1] /\ (k + 1) + i - 1 = k + i
        BY <1>2, <1>3, <2>1, <2>2
      <4>2. QED
        BY <4>1
    <3>3. QED
      BY <3>1, <3>2
  <2>7. Decoded' = p
    <3>1. Decoded' = n - (a - k) - (b + k) /\ n - (a - k) - (b + k) = p
      BY <1>1, <1>2, <2>2, <2>5, <2>6 DEF Decoded
    <3>2. QED
      BY <3>1
  <2>8. \A i \in 1 .. b + k : src'[i] = stream'[p + i]
    <3>1. ASSUME NEW i \in 1 .. b + k PROVE src'[i] = stream'[p + i]
      <4>1. CASE i <= b
        BY <1>1, <1>2, <1>3, <2>5, <4>1
      <4>2. CASE i > b
        <5>1. PICK j \in 1..k : i = b + j
          <6>1. i - b \in 1..k /\ i = b + (i - b)
            BY <1>2, <2>2, <4>2
          <6>2. QED
            BY <6>1
        <5>2. j \in 1..a /\ p + b + j = p + i
          BY <1>2, <2>2, <5>1
        <5>3. src'[i] = new[j] /\ new[j] = coming[j] /\ coming[j] = stream[p + b + j]
          BY <1>3, <2>4, <2>5, <5>1, <5>2
        <5>4. QED
          BY <1>1, <5>2, <5>3
      <4>3. QED
        BY <1>2, <2>2, <4>1, <4>2
    <3>2. QED
      BY <3>1
  <2>9. \A i \in 1 .. a - k : coming'[i] = stream'[p + (b + k) + i]
    <3>1. ASSUME NEW i \in 1 .. a - k PROVE coming'[i] = stream'[p + (b + k) + i]
      <4>1. k + i \in 1..a /\ p + b + (k + i) = p + (b + k) + i
        BY <1>2, <2>2
      <4>2. QED
        BY <1>1, <1>3, <2>6, <4>1
    <3>2. QED
      BY <3>1
  <2>10. \A i \in 1..next_index' : src'[i] # LF
    BY <1>1, <1>2, <1>3, <2>5
  <2>11. (a - k) + (b + k) <= n /\ next_index' <= b + k
    BY <1>1, <1>2, <1>3, <2>2
  <2>12. Framed'
    BY <1>1, <1>2, <2>5, <2>6, <2>7, <2>8, <2>9, <2>10, <2>11 DEF Framed
  <2>13. CodecTyped'
    BY <1>1, <1>5, <2>5, <2>6, <2>11 DEF CodecInv, CodecTyped
  <2>14. Yielded'
    BY <1>1, <1>3, <1>5, <2>7 DEF Yielded
  <2>15. QED
    BY <2>12, <2>13, <2>14 DEF CodecInv
<1>6. QED
  BY <1>4, <1>5 DEF Arrive

LEMMA CodecKept ==
  ASSUME CodecInv, CodecNext
  PROVE  CodecInv'
BY ArriveKeeps, TakeLineKeeps, OverlongKeeps, NoLineKeeps DEF CodecNext

LEMMA DecodedTrue ==
  ASSUME CodecInv
  PROVE  DecodedAsSent
<1> DEFINE w == Way("bytes", stream)
           n == Len(stream)
<1>1. stream \in Seq(Symbols("bytes")) /\ n \in Nat /\ Decoded \in Nat /\ Decoded + Len(src) + Len(coming) = n
      /\ Len(src) \in Nat /\ Len(coming) \in Nat /\ messages \in Seq(Seq(Bytes))
  BY Counts DEF CodecInv, CodecTyped, Symbols
<1>2. Parsed(stream) = w[n]
  <2>1. Steps(w, "bytes", stream)
    BY <1>1, StepsExist
  <2>2. QED
    BY <2>1 DEF Steps, Yields
<1>3. Decoded \in 0..n /\ n \in 0..n /\ Decoded <= n
  BY <1>1
<1>4. w[Decoded] \in States("bytes") /\ w[n] \in States("bytes") /\ Grows("bytes", w[Decoded], w[n])
  BY <1>1, <1>3, WayGrows
<1> HIDE DEF w, n
<1>5. PICK all \in Seq(Seq(Bytes)) : all = w[n].got
  BY <1>4 DEF States
<1>6. CASE reader = "failed"
  <2>1. messages = all /\ (w[n].failed \/ w[n].line # <<>>)
    BY <1>5, <1>6 DEF CodecInv, Yielded, w, n
  <2>2. Begins(messages, all)
    BY <1>1, <2>1 DEF Begins
  <2>3. IsPrefix(messages, all)
    BY <1>1, <2>2, BeginsIsPrefix
  <2>4. QED
    BY <1>2, <1>5, <1>6, <2>1, <2>3 DEF DecodedAsSent
<1>7. CASE reader # "failed"
  <2>1. w[Decoded] = [line |-> <<>>, got |-> messages, failed |-> FALSE]
    BY <1>7 DEF CodecInv, Yielded, w
  <2>2. PICK st : st = w[Decoded]
    OBVIOUS
  <2>3. st.line = <<>> /\ st.got = messages /\ st.failed = FALSE
    BY <2>1, <2>2
  <2>4. Begins(messages, all)
    BY <1>4, <1>5, <2>2, <2>3 DEF Grows
  <2>5. IsPrefix(messages, all)
    BY <1>1, <2>4, BeginsIsPrefix
  <2>6. reader = "read" => Len(src) <= MAX_LINE_BYTES
    BY DEF CodecInv, Yielded
  <2>7. ASSUME reader = "end" PROVE messages = all /\ ~w[n].failed /\ w[n].line = <<>>
    <3>1. Len(src) = 0 /\ Len(coming) = 0
      BY <2>7 DEF CodecInv, Yielded
    <3>2. Decoded = n
      BY <1>1, <3>1
    <3>3. QED
      BY <1>5, <2>2, <2>3, <3>2
  <2>8. QED
    BY <1>2, <1>5, <1>7, <2>5, <2>6, <2>7 DEF DecodedAsSent
<1>8. QED
  BY <1>6, <1>7

-----------------------------------------------------------------------------
(* The theorems.                                                           *)

ChunksInv == KeysInv /\ BeliefInv /\ CodecInv

LEMMA ChunksStart ==
  ASSUME ChunksInit
  PROVE  ChunksInv
<1>1. PICK keys \in Seq(Keys), bytes \in Seq(Bytes) : ShellInit(keys) /\ CodecInit(bytes)
  <2>1. \A S, m : \A s \in BoundedSeq(S, m) : s \in Seq(S)
    <3>1. \A m : \A k \in 0..m : k \in Nat
      OBVIOUS
    <3>2. QED
      BY <3>1 DEF BoundedSeq, SeqOf
  <2>2. <<>> \in Seq(Keys) /\ <<>> \in Seq(Bytes)
    OBVIOUS
  <2>3. QED
    BY <2>1, <2>2 DEF ChunksInit
<1>2. <<>> \in Seq(Keys) /\ <<>> \in Seq(Things) /\ <<>> \in Seq(Requests) /\ <<>> \in Seq(Answers)
      /\ <<>> \in Seq(Bytes) /\ <<>> \in Seq(Seq(Bytes)) /\ Len(<<>>) = 0 /\ <<>> \o <<>> = <<>>
  OBVIOUS
<1>3. ShellTyped
  BY <1>1, <1>2 DEF ShellInit, ShellTyped
<1>4. Way("keys", typing)[0] = Start("keys") /\ Way("bytes", stream)[0] = Start("bytes")
  <2>1. typing \in Seq(Keys) /\ stream \in Seq(Bytes)
    BY <1>1 DEF ShellInit, CodecInit
  <2>2. Steps(Way("keys", typing), "keys", typing) /\ Steps(Way("bytes", stream), "bytes", stream)
    BY <2>1, StepsExist
  <2>3. QED
    BY <2>2 DEF Steps
<1>5. /\ unread = typing /\ chunk = <<>> /\ buffer = <<>> /\ sent = <<>> /\ escape_pending = FALSE
      /\ shell = "read" /\ queue = <<>> /\ answers = <<>> /\ dtr_on = TRUE
      /\ line \in BOOLEAN /\ moved = ~line
  BY <1>1 DEF ShellInit
<1>6. coming = stream /\ src = <<>> /\ next_index = 0 /\ reader = "read" /\ messages = <<>> /\ stream \in Seq(Bytes)
  BY <1>1 DEF CodecInit
<1>7. KeysInv
  <2>1. PICK n \in Nat : n = Len(typing)
    BY <1>3 DEF ShellTyped
  <2>2. Looked = 0
    <3>1. Looked = Len(typing) - Len(unread) - Len(chunk) /\ Len(unread) = n /\ Len(chunk) = 0
      BY <1>5, <2>1 DEF Looked
    <3>2. n - n - 0 = 0
      BY <2>1
    <3>3. QED
      BY <2>1, <3>1, <3>2
  <2>3. Cut
    <3>1. n + 0 <= n /\ \A i \in 1..n : 0 + 0 + i = i
      BY <2>1
    <3>2. QED
      BY <1>2, <1>5, <2>1, <2>2, <3>1 DEF Cut
  <2>4. Told
    BY <1>2, <1>4, <1>5, <2>2 DEF Told, Start
  <2>5. QED
    BY <1>3, <2>3, <2>4 DEF KeysInv
<1>8. BeliefInv
  <2>1. Len(queue) = 0 /\ Len(answers) = 0
    BY <1>5
  <2>2. Numbered /\ Still
    BY <2>1 DEF Numbered, Still
  <2>3. QED
    BY <1>3, <1>5, <2>2 DEF BeliefInv, Belief, Idle
<1>9. CodecInv
  <2>1. PICK n \in Nat : n = Len(stream)
    BY <1>6
  <2>2. Decoded = 0
    <3>1. Decoded = Len(stream) - Len(coming) - Len(src) /\ Len(coming) = n /\ Len(src) = 0
      BY <1>6, <2>1 DEF Decoded
    <3>2. n - n - 0 = 0
      BY <2>1
    <3>3. QED
      BY <2>1, <3>1, <3>2
  <2>3. Framed
    <3>1. n + 0 <= n /\ \A i \in 1..n : 0 + 0 + i = i
      BY <2>1
    <3>2. QED
      BY <1>2, <1>6, <2>1, <2>2, <3>1 DEF Framed
  <2>4. Yielded
    BY <1>2, <1>4, <1>6, <2>2, CodecConstants DEF Yielded, Start
  <2>5. CodecTyped
    BY <1>2, <1>6 DEF CodecTyped
  <2>6. QED
    BY <2>3, <2>4, <2>5 DEF CodecInv
<1>10. QED
  BY <1>7, <1>8, <1>9 DEF ChunksInv

LEMMA ChunksKept ==
  ASSUME ChunksInv, [ChunksNext]_<<shellVars, codecVars>>
  PROVE  ChunksInv'
<1>1. ASSUME UNCHANGED shellVars PROVE KeysInv' /\ BeliefInv'
  <2>1. UNCHANGED <<typing, unread, chunk, buffer, escape_pending, dtr_on, next_id, want, shell, sent,
                    queue, answers, daemon, line, moved, timedout>>
    BY <1>1 DEF shellVars
  <2>2. ShellTyped' /\ Looked' = Looked
    BY <2>1 DEF ChunksInv, KeysInv, ShellTyped, Looked
  <2>3. KeysInv'
    BY <2>1, <2>2 DEF ChunksInv, KeysInv, Cut, Told
  <2>4. BeliefInv'
    BY <2>1, <2>2 DEF ChunksInv, BeliefInv, Numbered, Belief, Idle, Asked, Still, Toggled
  <2>5. QED
    BY <2>3, <2>4
<1>2. ASSUME UNCHANGED codecVars PROVE CodecInv'
  <2>1. UNCHANGED <<stream, coming, src, next_index, reader, messages>>
    BY <1>2 DEF codecVars
  <2>2. QED
    BY <2>1 DEF ChunksInv, CodecInv, CodecTyped, Framed, Decoded, Yielded
<1>3. CASE ShellNext /\ UNCHANGED codecVars
  BY <1>2, <1>3, KeysKept, BeliefKept DEF ChunksInv
<1>4. CASE CodecNext /\ UNCHANGED shellVars
  BY <1>1, <1>4, CodecKept DEF ChunksInv
<1>5. CASE UNCHANGED <<shellVars, codecVars>>
  BY <1>1, <1>2, <1>5 DEF ChunksInv
<1>6. QED
  BY <1>3, <1>4, <1>5 DEF ChunksNext

\* shell_loop: whichever way the terminal cuts what is typed, the device gets
\* what it means, in its order; nothing is missing unless the daemon has gone.
THEOREM KeysSafe == ChunksSpec => []KeysAsTyped
<1>1. ChunksInv => KeysAsTyped
  BY KeysTrue DEF ChunksInv
<1>2. QED
  BY ChunksStart, ChunksKept, <1>1, PTL DEF ChunksSpec

\* shell_loop: as long as every escape gets its answer, what the shell believes
\* of the line is what it is, unless another hand has moved it since the port
\* was opened or the shell last set it.
THEOREM BeliefSafe == ChunksSpec => []BeliefHolds
<1>1. ChunksInv => BeliefHolds
  BY BeliefTrue DEF ChunksInv
<1>2. QED
  BY ChunksStart, ChunksKept, <1>1, PTL DEF ChunksSpec

\* LineCodec::decode: whichever way the bytes arrive, the messages are those of
\* the stream, and it fails if and where it should.
THEOREM DecodedSafe == ChunksSpec => []DecodedAsSent
<1>1. ChunksInv => DecodedAsSent
  BY DecodedTrue DEF ChunksInv
<1>2. QED
  BY ChunksStart, ChunksKept, <1>1, PTL DEF ChunksSpec
==============================================================================
