---------------------------- MODULE ClientProofs ----------------------------
(***************************************************************************)
(* What a command did to the device when it ends, and what its streams do  *)
(* to the bytes that pass through them, for streams, chunks and numbers of *)
(* probes of any size.                                                     *)
(***************************************************************************)
EXTENDS Client, SequenceTheorems, WellFoundedInduction, TLAPS

-----------------------------------------------------------------------------
(* The invariant.                                                          *)

\* What can be asked for; most of it does nothing to the device.
Methods ==
  {"hello", "list_devices", "personality", "status", "attach", "expect", "reconnect"} \cup Effects

\* A step whose failure is passed over, or that is repeated, does nothing.
StepSet ==
  {s \in [method : Methods, how : {"must", "may", "retry", "probe"}] :
     s.how \in {"may", "probe"} => s.method \notin Effects}

RequestSet == [id : Nat, method : Methods \cup {"typed"}, data : Seq(Nat)]
Results == {"ok", "error", "timeout", "closed", "disconnected"}
AnswerSet == [kind : {"answer"}, id : Nat, method : Methods \cup {"typed"}, result : Results]
NewsSet == [kind : {"data", "lag"}, lo : Nat, hi : Nat]

\* The shape, with that of the messages.
ClientTyped ==
  /\ pc \in {"next", "send", "await", "over"} \cup Streaming
  /\ outcome \in {"none", "ok", "failed"} /\ (outcome = "ok" => pc = "over")
  /\ todo \in Seq(StepSet) /\ id \in Nat /\ done \in Seq(Effects)
  /\ requests \in Seq(RequestSet) /\ serving \subseteq AnswerSet
  /\ inbox \in Seq(AnswerSet \cup NewsSet)
  /\ taken \in Nat /\ cursor \in Nat /\ produced \in Nat

\* Of the sequence w of effects a command is there for, those after the first k
\* are what the steps t will do: one after another, and nothing besides.
Matches(w, t, k) ==
  \E a \in 0..Len(t) :
    /\ \A i \in 1..a : t[i].method \notin Effects
    /\ \A j \in 1 .. Len(w) - k : a + j <= Len(t) /\ t[a + j].method = w[k + j]
    /\ \A i \in 1..Len(t) : i > a /\ i > a + Len(w) - k => t[i].method \notin Effects

\* The step under way has had no effect so far, or it has had its effect.
NotYet == Matches(Wanted, todo, Len(done))
HasBeen == todo # <<>> /\ Head(todo).method \in Effects /\ Matches(Wanted, Tail(todo), Len(done))

\* What was done is the beginning of what was to be done, and the steps left are
\* for the rest.
Progress ==
  /\ Len(done) <= Len(Wanted) /\ \A i \in 1..Len(done) : done[i] = Wanted[i]
  /\ NotYet \/ HasBeen
  /\ pc \notin {"await", "over"} => NotYet

\* A request that will have an effect is on its way.
Pending == requests # <<>> /\ requests[Len(requests)].method \in Effects

\* It is the last request there is, it belongs to the step under way, and that
\* step, which nobody goes past without an answer, has had no effect yet.
EffectsAwaited ==
  /\ \A i \in 1..Len(requests) : requests[i].method \in Effects => i = Len(requests)
  /\ Pending =>
       /\ pc \in {"await", "over"} /\ NotYet /\ todo # <<>>
       /\ Head(todo).method = requests[Len(requests)].method
       /\ pc = "await" => \A i \in 1..Len(requests) : requests[i].id = id <=> i = Len(requests)

\* The requests that are on their way were made before, or are this call's.
Numbered ==
  /\ pc \in {"next", "send", "await"} => \A i \in 1..Len(requests) : requests[i].id <= id
  /\ pc \in {"send", "await"} => todo # <<>>
  /\ pc = "await" =>
       /\ \A i \in 1..Len(requests) :
            requests[i].id = id => requests[i].method = Head(todo).method

\* The answers on their way.
Due == serving \cup {a \in Range(inbox) : a.kind = "answer"}

\* An answer tells what became of the effect, if it answers this call; and there
\* is none while the request is still on its way.
Truthful ==
  \A a \in Due :
    /\ pc \in {"next", "send", "await"} => a.id <= id
    /\ pc = "await" /\ a.id = id =>
         /\ ~Pending
         /\ a.result = "ok" /\ Head(todo).method \in Effects => HasBeen
         /\ a.result = "disconnected" => NotYet

\* A command that says it went well, or streams, has no step left.
Complete == outcome = "ok" \/ pc \in Streaming => todo = <<>> /\ NotYet

ClientInv == ClientTyped /\ Progress /\ EffectsAwaited /\ Numbered /\ Truthful /\ Complete

-----------------------------------------------------------------------------
(* The steps left and the effects left.                                    *)

\* What a command is there for are effects.
LEMMA WantedEffects == Wanted \in Seq(Effects)
<1>1. /\ "send" \in Effects /\ "run" \in Effects /\ "set" \in Effects /\ "lock" \in Effects
      /\ "dtr=0" \in Effects /\ "dtr=1" \in Effects /\ "rts=0" \in Effects /\ "rts=1" \in Effects
  BY DEF Effects, Lines
<1>2. /\ <<>> \in Seq(Effects)
      /\ <<"send">> \in Seq(Effects) /\ <<"run">> \in Seq(Effects) /\ <<"set">> \in Seq(Effects)
      /\ <<"lock">> \in Seq(Effects)
      /\ <<"dtr=0", "rts=1", "dtr=1", "rts=0", "dtr=0">> \in Seq(Effects)
  BY <1>1
<1>3. \/ Wanted = <<>> \/ Wanted = <<"send">> \/ Wanted = <<"run">> \/ Wanted = <<"set">>
      \/ Wanted = <<"lock">> \/ Wanted = <<"dtr=0", "rts=1", "dtr=1", "rts=0", "dtr=0">>
  BY DEF Wanted
<1>4. QED
  BY <1>2, <1>3

\* A first step that does nothing can go.
LEMMA MatchesIdle ==
  ASSUME NEW w \in Seq(Effects), NEW t \in Seq(StepSet), NEW k \in 0..Len(w),
         t # <<>>, Head(t).method \notin Effects, Matches(w, t, k)
  PROVE  Matches(w, Tail(t), k)
<1> DEFINE u == Tail(t)
<1>1. /\ u \in Seq(StepSet) /\ Len(t) \in Nat \ {0} /\ Len(u) = Len(t) - 1 /\ Head(t) = t[1]
      /\ \A i \in 1..Len(u) : u[i] = t[i + 1]
  OBVIOUS
<1>2. Len(w) \in Nat /\ \A i \in 1..Len(w) : w[i] \in Effects
  OBVIOUS
<1> HIDE DEF u
<1>3. PICK a \in 0..Len(t) :
        /\ \A i \in 1..a : t[i].method \notin Effects
        /\ \A j \in 1 .. Len(w) - k : a + j <= Len(t) /\ t[a + j].method = w[k + j]
        /\ \A i \in 1..Len(t) : i > a /\ i > a + Len(w) - k => t[i].method \notin Effects
  BY DEF Matches
<1>4. CASE a = 0
  <2>1. Len(w) - k = 0
    <3>1. SUFFICES ASSUME Len(w) - k >= 1 PROVE FALSE
      BY <1>2
    <3>2. t[1].method = w[k + 1]
      BY <1>3, <1>4, <3>1, <1>2
    <3>3. QED
      BY <3>1, <3>2, <1>1, <1>2
  <2>2. \A i \in 1..Len(u) : u[i].method \notin Effects
    BY <1>1, <1>3, <1>4, <2>1, <1>2
  <2>3. 0 \in 0..Len(u) /\ 1..0 = {} /\ 1 .. Len(w) - k = {}
    BY <2>1, <1>1, <1>2
  <2>4. QED
    BY <2>2, <2>3 DEF Matches, u
<1>5. CASE a > 0
  <2>1. a - 1 \in 0..Len(u)
    BY <1>1, <1>5
  <2>2. \A i \in 1 .. a - 1 : u[i].method \notin Effects
    BY SMTT(20), <1>1, <1>3, <1>5
  <2>3. \A j \in 1 .. Len(w) - k : (a - 1) + j <= Len(u) /\ u[(a - 1) + j].method = w[k + j]
    <3>1. TAKE j \in 1 .. Len(w) - k
    <3>2. a + j <= Len(t) /\ t[a + j].method = w[k + j]
      BY <1>3
    <3>3. a - 1 + j \in 1..Len(u) /\ (a - 1 + j) + 1 = a + j
      BY <1>1, <1>2, <1>5, <3>2
    <3>4. QED
      BY <1>1, <3>2, <3>3
  <2>4. \A i \in 1..Len(u) :
          i > a - 1 /\ i > (a - 1) + Len(w) - k => u[i].method \notin Effects
    <3>1. TAKE i \in 1..Len(u)
    <3>2. HAVE i > a - 1 /\ i > (a - 1) + Len(w) - k
    <3>3. i + 1 \in 1..Len(t) /\ i + 1 > a /\ i + 1 > a + Len(w) - k
      BY <1>1, <1>2, <3>2
    <3>4. QED
      BY <1>1, <1>3, <3>3
  <2>5. QED
    BY <2>1, <2>2, <2>3, <2>4 DEF Matches, u
<1>6. QED
  BY <1>4, <1>5

\* A first step that does something does what comes next.
LEMMA MatchesEffect ==
  ASSUME NEW w \in Seq(Effects), NEW t \in Seq(StepSet), NEW k \in 0..Len(w),
         t # <<>>, Head(t).method \in Effects, Matches(w, t, k)
  PROVE  /\ k + 1 \in 1..Len(w) /\ Head(t).method = w[k + 1]
         /\ Matches(w, Tail(t), k + 1)
<1> DEFINE u == Tail(t)
<1>1. /\ u \in Seq(StepSet) /\ Len(t) \in Nat \ {0} /\ Len(u) = Len(t) - 1 /\ Head(t) = t[1]
      /\ \A i \in 1..Len(u) : u[i] = t[i + 1]
  OBVIOUS
<1>2. Len(w) \in Nat
  OBVIOUS
<1> HIDE DEF u
<1>3. PICK a \in 0..Len(t) :
        /\ \A i \in 1..a : t[i].method \notin Effects
        /\ \A j \in 1 .. Len(w) - k : a + j <= Len(t) /\ t[a + j].method = w[k + j]
        /\ \A i \in 1..Len(t) : i > a /\ i > a + Len(w) - k => t[i].method \notin Effects
  BY DEF Matches
<1>4. a = 0
  BY <1>1, <1>3
<1>5. Len(w) - k >= 1
  BY <1>1, <1>2, <1>3, <1>4
<1>6. t[1].method = w[k + 1]
  BY <1>2, <1>3, <1>4, <1>5
<1>7. \A j \in 1 .. Len(w) - (k + 1) : 0 + j <= Len(u) /\ u[0 + j].method = w[(k + 1) + j]
  <2>1. TAKE j \in 1 .. Len(w) - (k + 1)
  <2>2. j + 1 \in 1 .. Len(w) - k /\ k + (j + 1) = (k + 1) + j /\ 0 + (j + 1) = j + 1 /\ 0 + j = j
    BY <1>2
  <2>3. j + 1 <= Len(t) /\ t[j + 1].method = w[(k + 1) + j]
    BY <1>3, <1>4, <2>2
  <2>4. j \in 1..Len(u)
    BY <1>1, <1>2, <2>3
  <2>5. QED
    BY <1>1, <2>2, <2>3, <2>4
<1>8. \A i \in 1..Len(u) : i > 0 /\ i > 0 + Len(w) - (k + 1) => u[i].method \notin Effects
  <2>1. TAKE i \in 1..Len(u)
  <2>2. HAVE i > 0 /\ i > 0 + Len(w) - (k + 1)
  <2>3. i + 1 \in 1..Len(t) /\ i + 1 > 0 /\ i + 1 > 0 + Len(w) - k
    BY <1>1, <1>2, <2>2
  <2>4. QED
    BY <1>1, <1>3, <1>4, <2>3
<1>9. 0 \in 0..Len(u) /\ \A i \in 1..0 : u[i].method \notin Effects
  BY <1>1
<1>10. Matches(w, u, k + 1)
  BY <1>7, <1>8, <1>9 DEF Matches
<1>11. QED
  BY <1>1, <1>2, <1>5, <1>6, <1>10 DEF u

\* Steps that do nothing may come first.
LEMMA MatchesBefore ==
  ASSUME NEW w \in Seq(Effects), NEW k \in 0..Len(w),
         NEW s \in Seq(StepSet), \A i \in 1..Len(s) : s[i].method \notin Effects,
         NEW t \in Seq(StepSet), Matches(w, t, k)
  PROVE  Matches(w, s \o t, k)
<1> DEFINE u == s \o t
<1>1. /\ u \in Seq(StepSet) /\ Len(t) \in Nat /\ Len(s) \in Nat /\ Len(u) = Len(s) + Len(t)
      /\ \A i \in 1 .. Len(s) + Len(t) : u[i] = IF i <= Len(s) THEN s[i] ELSE t[i - Len(s)]
  BY ConcatProperties
<1>2. Len(w) \in Nat
  OBVIOUS
<1> HIDE DEF u
<1>3. PICK a \in 0..Len(t) :
        /\ \A i \in 1..a : t[i].method \notin Effects
        /\ \A j \in 1 .. Len(w) - k : a + j <= Len(t) /\ t[a + j].method = w[k + j]
        /\ \A i \in 1..Len(t) : i > a /\ i > a + Len(w) - k => t[i].method \notin Effects
  BY DEF Matches
<1> DEFINE b == Len(s) + a
<1>4. b \in 0..Len(u) /\ b = Len(s) + a
  BY <1>1
<1> HIDE DEF b
<1>5. ASSUME NEW i \in 1..b PROVE u[i].method \notin Effects
  <2>1. CASE i <= Len(s)
    BY SMTT(20), <2>1, <1>1, <1>4
  <2>2. CASE i > Len(s)
    <3>1. i - Len(s) \in 1..a /\ i \in 1 .. Len(s) + Len(t)
      BY <2>2, <1>1, <1>4
    <3>2. u[i] = t[i - Len(s)]
      BY <2>2, <3>1, <1>1
    <3>3. QED
      BY <3>1, <3>2, <1>3
  <2>3. QED
    BY <2>1, <2>2, <1>1, <1>4
<1>6. ASSUME NEW j \in 1 .. Len(w) - k
      PROVE  b + j <= Len(u) /\ u[b + j].method = w[k + j]
  <2>1. a + j <= Len(t) /\ t[a + j].method = w[k + j]
    BY <1>3
  <2>2. b + j \in 1 .. Len(s) + Len(t) /\ b + j > Len(s) /\ (b + j) - Len(s) = a + j
    BY <2>1, <1>1, <1>2, <1>4
  <2>3. u[b + j] = t[a + j]
    BY <2>2, <1>1
  <2>4. QED
    BY <2>1, <2>2, <2>3, <1>1
<1>7. ASSUME NEW i \in 1..Len(u), i > b, i > b + Len(w) - k PROVE u[i].method \notin Effects
  <2>1. i - Len(s) \in 1..Len(t) /\ i - Len(s) > a /\ i - Len(s) > a + Len(w) - k
    BY <1>7, <1>1, <1>2, <1>4
  <2>2. u[i] = t[i - Len(s)]
    BY <2>1, <1>1, <1>7, <1>4
  <2>3. QED
    BY <2>1, <2>2, <1>3
<1>8. QED
  BY <1>4, <1>5, <1>6, <1>7 DEF Matches, u

\* Nothing left to do, by steps that do nothing.
LEMMA MatchesNothing ==
  ASSUME NEW w \in Seq(Effects), NEW k \in 0..Len(w), Matches(w, <<>>, k)
  PROVE  k = Len(w)
<1>1. Len(w) \in Nat
  OBVIOUS
<1>2. PICK a \in 0..Len(<<>>) :
        \A j \in 1 .. Len(w) - k : a + j <= Len(<<>>)
  BY DEF Matches
<1>3. a = 0
  OBVIOUS
<1>4. QED
  BY <1>1, <1>2, <1>3

\* Only the methods matter.
LEMMA MatchesAlike ==
  ASSUME NEW w \in Seq(Effects), NEW k \in 0..Len(w),
         NEW t \in Seq(StepSet), NEW u \in Seq(StepSet), Len(u) = Len(t),
         \A i \in 1..Len(t) : u[i].method = t[i].method,
         Matches(w, t, k)
  PROVE  Matches(w, u, k)
<1>1. Len(w) \in Nat /\ Len(t) \in Nat
  OBVIOUS
<1>2. PICK a \in 0..Len(t) :
        /\ \A i \in 1..a : t[i].method \notin Effects
        /\ \A j \in 1 .. Len(w) - k : a + j <= Len(t) /\ t[a + j].method = w[k + j]
        /\ \A i \in 1..Len(t) : i > a /\ i > a + Len(w) - k => t[i].method \notin Effects
  BY DEF Matches
<1>3. \A i \in 1..a : u[i].method \notin Effects
  BY <1>1, <1>2
<1>4. \A j \in 1 .. Len(w) - k : a + j <= Len(u) /\ u[a + j].method = w[k + j]
  <2>1. TAKE j \in 1 .. Len(w) - k
  <2>2. a + j \in 1..Len(t) /\ t[a + j].method = w[k + j]
    BY <1>1, <1>2
  <2>3. QED
    BY <2>2
<1>5. \A i \in 1..Len(u) : i > a /\ i > a + Len(w) - k => u[i].method \notin Effects
  BY <1>1, <1>2
<1>6. QED
  BY <1>3, <1>4, <1>5 DEF Matches

\* One more reconnect, and the step once more, do what the step would have done.
LEMMA MatchesAgain ==
  ASSUME NEW w \in Seq(Effects), NEW k \in 0..Len(w), NEW t \in Seq(StepSet), t # <<>>,
         Matches(w, t, k)
  PROVE  LET again == <<Must("reconnect"), Must(Head(t).method)>> \o Tail(t)
         IN  again \in Seq(StepSet) /\ Matches(w, again, k)
<1>1. /\ Tail(t) \in Seq(StepSet) /\ Len(t) \in Nat \ {0} /\ Len(Tail(t)) = Len(t) - 1
      /\ Head(t) = t[1] /\ Head(t) \in StepSet /\ \A i \in 1..Len(t) - 1 : Tail(t)[i] = t[i + 1]
  OBVIOUS
<1> DEFINE r == Must("reconnect")
           m == Must(Head(t).method)
           u == <<m>> \o Tail(t)
<1>2. r \in StepSet /\ m \in StepSet /\ r.method = "reconnect" /\ m.method = t[1].method
  BY <1>1 DEF Must, StepSet, Methods
<1>3. "reconnect" \notin Effects
  BY DEF Effects, Lines
<1> HIDE DEF r, m
<1>4. /\ u \in Seq(StepSet) /\ Len(u) = Len(t)
      /\ \A i \in 1..Len(t) : u[i] = IF i = 1 THEN m ELSE t[i]
  BY <1>1, <1>2
<1> HIDE DEF u
<1>5. \A i \in 1..Len(t) : u[i].method = t[i].method
  BY <1>2, <1>4
<1>6. Matches(w, u, k)
  BY <1>4, <1>5, MatchesAlike
<1> DEFINE s == <<r>>
<1>7. s \in Seq(StepSet) /\ \A i \in 1..Len(s) : s[i].method \notin Effects
  BY <1>2, <1>3
<1> HIDE DEF s
<1>8. s \o u \in Seq(StepSet)
  BY <1>4, <1>7, ConcatProperties
<1>9. Matches(w, s \o u, k)
  BY <1>4, <1>6, <1>7, MatchesBefore
<1>10. s \o u = <<r, m>> \o Tail(t)
  <2>1. <<m>> \in Seq(StepSet) /\ <<r>> \in Seq(StepSet)
    BY <1>2
  <2>2. (<<r>> \o <<m>>) \o Tail(t) = <<r>> \o (<<m>> \o Tail(t))
    BY <1>1, <2>1, ConcatAssociative
  <2>3. <<r>> \o <<m>> = <<r, m>>
    <3> DEFINE p == <<r>> \o <<m>>
               q == <<r, m>>
    <3>1. p \in Seq(StepSet) /\ Len(p) = 2 /\ p[1] = r /\ p[2] = m
      BY <2>1
    <3>2. q \in Seq(StepSet) /\ Len(q) = 2 /\ q[1] = r /\ q[2] = m
      BY <1>2
    <3> HIDE DEF p, q
    <3>3. \A i \in 1..Len(p) : p[i] = q[i]
      BY <3>1, <3>2
    <3>4. p = q
      BY <3>1, <3>2, <3>3, SeqEqual
    <3>5. QED
      BY <3>4 DEF p, q
  <2>4. QED
    BY <2>2, <2>3 DEF s, u
<1>11. QED
  BY <1>8, <1>9, <1>10 DEF r, m

\* The steps of every command do what it is there for.
LEMMA Planned ==
  ASSUME cmd.name \in Commands
  PROVE  Steps(cmd.name) \in Seq(StepSet) /\ Matches(Wanted, Steps(cmd.name), 0)
<1> DEFINE G == Greeting
<1>1. /\ \A e \in Methods \ Effects : /\ Must(e) \in StepSet /\ Must(e).method = e
                                      /\ May(e) \in StepSet /\ May(e).method = e
      /\ \A e \in Methods : /\ Must(e) \in StepSet /\ Must(e).method = e
                            /\ Retry(e) \in StepSet /\ Retry(e).method = e
  BY DEF Must, May, Retry, StepSet
<1>2. /\ {"hello", "list_devices", "personality", "status", "attach", "expect", "reconnect"}
           \subseteq Methods \ Effects
      /\ {"send", "run", "set", "lock", "dtr=0", "dtr=1", "rts=0", "rts=1"} \subseteq Effects
      /\ Effects \subseteq Methods
  BY DEF Methods, Effects, Lines
<1>3. G \in Seq(StepSet) /\ \A i \in 1..Len(G) : G[i].method \notin Effects
  BY <1>1, <1>2 DEF Greeting
<1> DEFINE Good(w, s) == s \in Seq(StepSet) /\ Matches(w, s, 0)
<1> HIDE DEF G
<1>4. ASSUME NEW w \in Seq(Effects), NEW s, Good(w, s) PROVE Good(w, G \o s)
  <2>1. s \in Seq(StepSet) /\ Matches(w, s, 0) /\ 0 \in 0..Len(w)
    BY <1>4
  <2>2. G \o s \in Seq(StepSet)
    BY <1>3, <2>1, ConcatProperties
  <2>3. Matches(w, G \o s, 0)
    BY <1>3, <2>1, MatchesBefore
  <2>4. QED
    BY <2>2, <2>3
<1>5. cmd.name \in {"status", "set", "send", "expect", "run", "exec", "tail", "sync", "reset",
                    "pty", "reconnect"}
  BY ClientConstants
<1>6. ASSUME NEW s \in Seq(StepSet), \A i \in 1..Len(s) : s[i].method \notin Effects
      PROVE  Good(<<>>, s)
  <2>1. Len(s) \in 0..Len(s) /\ 1 .. Len(<<>>) - 0 = {} /\ \A i \in 1..Len(s) : ~ i > Len(s)
    OBVIOUS
  <2>2. QED
    BY <2>1, <1>6 DEF Matches
<1>7. ASSUME NEW e \in Effects, NEW s \in Seq(StepSet), NEW b \in 1..Len(s),
             \A i \in 1..Len(s) : IF i = b THEN s[i].method = e ELSE s[i].method \notin Effects
      PROVE  Good(<<e>>, s)
  <2>1. b - 1 \in 0..Len(s) /\ Len(<<e>>) = 1
    OBVIOUS
  <2>2. \A i \in 1 .. b - 1 : s[i].method \notin Effects
    BY <1>7
  <2>3. \A j \in 1 .. 1 - 0 : (b - 1) + j <= Len(s) /\ s[(b - 1) + j].method = <<e>>[0 + j]
    <3>1. TAKE j \in 1 .. 1 - 0
    <3>2. j = 1 /\ (b - 1) + j = b /\ <<e>>[0 + j] = e
      OBVIOUS
    <3>3. QED
      BY <3>2, <1>7
  <2>4. \A i \in 1..Len(s) : i > b - 1 /\ i > (b - 1) + 1 - 0 => s[i].method \notin Effects
    BY <1>7
  <2>5. QED
    BY <2>1, <2>2, <2>3, <2>4 DEF Matches
<1> HIDE DEF Good
<1>8. CASE cmd.name = "status"
  <2>1. StatusSteps \in Seq(StepSet) /\ \A i \in 1..Len(StatusSteps) : StatusSteps[i].method \notin Effects
    BY <1>1, <1>2 DEF StatusSteps
  <2>2. Wanted = <<>> /\ Steps(cmd.name) = G \o StatusSteps
    BY <1>8 DEF Wanted, Steps, G
  <2>3. QED
    BY <2>1, <2>2, <1>4, <1>6, WantedEffects DEF Good
<1>9. CASE cmd.name = "expect"
  <2>1. ExpectSteps \in Seq(StepSet) /\ \A i \in 1..Len(ExpectSteps) : ExpectSteps[i].method \notin Effects
    BY <1>1, <1>2 DEF ExpectSteps
  <2>2. Wanted = <<>> /\ Steps(cmd.name) = G \o ExpectSteps
    BY <1>9 DEF Wanted, Steps, G
  <2>3. QED
    BY <2>1, <2>2, <1>4, <1>6, WantedEffects DEF Good
<1>10. CASE cmd.name = "tail"
  <2>1. TailSteps \in Seq(StepSet) /\ \A i \in 1..Len(TailSteps) : TailSteps[i].method \notin Effects
    BY <1>1, <1>2 DEF TailSteps
  <2>2. Wanted = <<>> /\ Steps(cmd.name) = G \o TailSteps
    BY <1>10 DEF Wanted, Steps, G
  <2>3. QED
    BY <2>1, <2>2, <1>4, <1>6, WantedEffects DEF Good
<1>11. CASE cmd.name = "reconnect"
  <2>1. /\ ReconnectSteps \in Seq(StepSet)
        /\ \A i \in 1..Len(ReconnectSteps) : ReconnectSteps[i].method \notin Effects
    BY <1>1, <1>2 DEF ReconnectSteps
  <2>2. Wanted = <<>> /\ Steps(cmd.name) = G \o ReconnectSteps
    BY <1>11 DEF Wanted, Steps, G
  <2>3. QED
    BY <2>1, <2>2, <1>4, <1>6, WantedEffects DEF Good
<1>12. CASE cmd.name = "set"
  <2>1. /\ SetSteps \in Seq(StepSet) /\ 1 \in 1..Len(SetSteps) /\ "set" \in Effects
        /\ \A i \in 1..Len(SetSteps) :
             IF i = 1 THEN SetSteps[i].method = "set" ELSE SetSteps[i].method \notin Effects
    BY <1>1, <1>2 DEF SetSteps
  <2>2. Wanted = <<"set">> /\ Steps(cmd.name) = G \o SetSteps
    BY <1>12 DEF Wanted, Steps, G
  <2>3. Good(<<"set">>, SetSteps)
    BY <2>1, <1>7
  <2>4. QED
    BY <2>2, <2>3, <1>4, WantedEffects DEF Good
<1>13. CASE cmd.name = "send"
  <2>1. /\ SendSteps \in Seq(StepSet) /\ 2 \in 1..Len(SendSteps) /\ "send" \in Effects
        /\ \A i \in 1..Len(SendSteps) :
             IF i = 2 THEN SendSteps[i].method = "send" ELSE SendSteps[i].method \notin Effects
    BY <1>1, <1>2 DEF SendSteps
  <2>2. Wanted = <<"send">> /\ Steps(cmd.name) = G \o SendSteps
    BY <1>13 DEF Wanted, Steps, G
  <2>3. Good(<<"send">>, SendSteps)
    BY <2>1, <1>7
  <2>4. QED
    BY <2>2, <2>3, <1>4, WantedEffects DEF Good
<1>14. CASE cmd.name = "run"
  <2>1. /\ RunSteps \in Seq(StepSet) /\ 3 \in 1..Len(RunSteps) /\ "run" \in Effects
        /\ \A i \in 1..Len(RunSteps) :
             IF i = 3 THEN RunSteps[i].method = "run" ELSE RunSteps[i].method \notin Effects
    BY <1>1, <1>2 DEF RunSteps
  <2>2. Wanted = <<"run">> /\ Steps(cmd.name) = G \o RunSteps
    BY <1>14 DEF Wanted, Steps, G
  <2>3. Good(<<"run">>, RunSteps)
    BY <2>1, <1>7
  <2>4. QED
    BY <2>2, <2>3, <1>4, WantedEffects DEF Good
<1>15. CASE cmd.name = "exec"
  <2>1. /\ ExecSteps \in Seq(StepSet) /\ 3 \in 1..Len(ExecSteps) /\ "run" \in Effects
        /\ \A i \in 1..Len(ExecSteps) :
             IF i = 3 THEN ExecSteps[i].method = "run" ELSE ExecSteps[i].method \notin Effects
    BY <1>1, <1>2 DEF ExecSteps
  <2>2. Wanted = <<"run">> /\ Steps(cmd.name) = G \o ExecSteps
    BY <1>15 DEF Wanted, Steps, G
  <2>3. Good(<<"run">>, ExecSteps)
    BY <2>1, <1>7
  <2>4. QED
    BY <2>2, <2>3, <1>4, WantedEffects DEF Good
<1>16. CASE cmd.name = "sync"
  <2>1. /\ SyncSteps \in Seq(StepSet) /\ 3 \in 1..Len(SyncSteps) /\ "send" \in Effects
        /\ \A i \in 1..Len(SyncSteps) :
             IF i = 3 THEN SyncSteps[i].method = "send" ELSE SyncSteps[i].method \notin Effects
    <3>1. [method |-> "expect", how |-> "probe"] \in StepSet
      BY <1>2 DEF StepSet
    <3>2. QED
      BY <1>1, <1>2, <3>1 DEF SyncSteps
  <2>2. Wanted = <<"send">> /\ Steps(cmd.name) = G \o SyncSteps
    BY <1>16 DEF Wanted, Steps, G
  <2>3. Good(<<"send">>, SyncSteps)
    BY <2>1, <1>7
  <2>4. QED
    BY <2>2, <2>3, <1>4, WantedEffects DEF Good
<1>17. CASE cmd.name = "pty" /\ cmd.lock
  <2>1. /\ PtySteps \in Seq(StepSet) /\ 2 \in 1..Len(PtySteps) /\ "lock" \in Effects
        /\ \A i \in 1..Len(PtySteps) :
             IF i = 2 THEN PtySteps[i].method = "lock" ELSE PtySteps[i].method \notin Effects
    BY <1>1, <1>2, <1>17 DEF PtySteps
  <2>2. Wanted = <<"lock">> /\ Steps(cmd.name) = G \o PtySteps
    BY <1>17 DEF Wanted, Steps, G
  <2>3. Good(<<"lock">>, PtySteps)
    BY <2>1, <1>7
  <2>4. QED
    BY <2>2, <2>3, <1>4, WantedEffects DEF Good
<1>18. CASE cmd.name = "pty" /\ ~cmd.lock
  <2>1. PtySteps \in Seq(StepSet) /\ \A i \in 1..Len(PtySteps) : PtySteps[i].method \notin Effects
    BY <1>1, <1>2, <1>18 DEF PtySteps
  <2>2. Wanted = <<>> /\ Steps(cmd.name) = G \o PtySteps
    BY <1>18 DEF Wanted, Steps, G
  <2>3. QED
    BY <2>1, <2>2, <1>4, <1>6, WantedEffects DEF Good
<1>19. CASE cmd.name = "reset"
  <2> DEFINE w == <<"dtr=0", "rts=1", "dtr=1", "rts=0", "dtr=0">>
  <2>1. /\ ResetSteps \in Seq(StepSet) /\ Len(ResetSteps) = 5
        /\ \A i \in 1..5 : ResetSteps[i].method = w[i]
    BY <1>1, <1>2 DEF ResetSteps
  <2>2. Wanted = w /\ Steps(cmd.name) = G \o ResetSteps /\ Len(w) = 5
    BY <1>19 DEF Wanted, Steps, G
  <2> HIDE DEF w
  <2>3. Matches(w, ResetSteps, 0)
    <3>1. 0 \in 0..Len(ResetSteps) /\ 1..0 = {}
      BY <2>1
    <3>2. \A j \in 1 .. Len(w) - 0 : 0 + j <= Len(ResetSteps) /\ ResetSteps[0 + j].method = w[0 + j]
      BY <2>1, <2>2
    <3>3. \A i \in 1..Len(ResetSteps) : ~ i > 0 + Len(w) - 0
      BY <2>1, <2>2
    <3>4. QED
      BY <3>1, <3>2, <3>3 DEF Matches
  <2>4. QED
    BY <2>1, <2>2, <2>3, <1>4, WantedEffects DEF Good
<1>20. QED
  BY <1>5, <1>8, <1>9, <1>10, <1>11, <1>12, <1>13, <1>14, <1>15, <1>16, <1>17, <1>18, <1>19

-----------------------------------------------------------------------------
(* The steps, by what they do to the command's own state.                  *)

\* A message that is read leaves the others.
LEMMA DueRead ==
  ASSUME ClientTyped, inbox # <<>>, inbox' = Tail(inbox), serving' = serving
  PROVE  /\ Due' \subseteq Due /\ inbox' \in Seq(AnswerSet \cup NewsSet)
         /\ First.kind = "answer" => First \in Due /\ First \in AnswerSet
<1>1. /\ inbox \in Seq(AnswerSet \cup NewsSet) /\ Len(inbox) \in Nat \ {0}
      /\ Len(Tail(inbox)) = Len(inbox) - 1 /\ First = inbox[1] /\ 1 \in 1..Len(inbox)
      /\ \A i \in 1 .. Len(inbox) - 1 : Tail(inbox)[i] = inbox[i + 1] /\ i + 1 \in 1..Len(inbox)
      /\ Tail(inbox) \in Seq(AnswerSet \cup NewsSet)
  BY DEF ClientTyped, First
<1>2. Range(inbox') \subseteq Range(inbox)
  BY <1>1 DEF Range
<1>3. First \in Range(inbox)
  BY <1>1 DEF Range
<1>4. First \in AnswerSet \cup NewsSet
  BY <1>1
<1>5. First.kind = "answer" => First \in AnswerSet
  BY <1>4 DEF NewsSet
<1>6. QED
  BY <1>1, <1>2, <1>3, <1>5 DEF Due

\* What the effects are told by.
LEMMA SameEffects ==
  ASSUME UNCHANGED <<cmd, todo, done>>
  PROVE  Wanted' = Wanted /\ (NotYet <=> NotYet') /\ (HasBeen <=> HasBeen')
<1>1. Wanted' = Wanted
  BY DEF Wanted
<1>2. QED
  BY <1>1 DEF NotYet, HasBeen

\* A step of the daemon's or of a stream's that answers nothing new.
LEMMA Quiet ==
  ASSUME ClientInv, ClientTyped', Due' \subseteq Due,
         UNCHANGED <<cmd, pc, todo, id, outcome, requests, done>>
  PROVE  ClientInv'
<1>1. Wanted' = Wanted /\ (NotYet <=> NotYet') /\ (HasBeen <=> HasBeen') /\ (Pending <=> Pending')
  BY SameEffects DEF Pending
<1>2. Progress'
  BY <1>1 DEF ClientInv, Progress
<1>3. EffectsAwaited'
  BY <1>1 DEF ClientInv, EffectsAwaited
<1>4. Numbered'
  BY DEF ClientInv, Numbered
<1>5. Truthful'
  BY <1>1 DEF ClientInv, Truthful
<1>6. Complete'
  BY <1>1 DEF ClientInv, Complete
<1>7. QED
  BY <1>2, <1>3, <1>4, <1>5, <1>6 DEF ClientInv

\* The command ends.
LEMMA Over ==
  ASSUME ClientInv, ClientTyped', pc' = "over",
         UNCHANGED <<cmd, todo, requests, done>>,
         outcome' = "ok" => todo = <<>> /\ NotYet
  PROVE  ClientInv'
<1>1. Wanted' = Wanted /\ (NotYet <=> NotYet') /\ (HasBeen <=> HasBeen') /\ (Pending <=> Pending')
  BY SameEffects DEF Pending
<1>2. Progress'
  BY <1>1 DEF ClientInv, Progress
<1>3. EffectsAwaited'
  BY <1>1 DEF ClientInv, EffectsAwaited
<1>4. Numbered' /\ Truthful'
  BY DEF Numbered, Truthful
<1>5. Complete'
  BY <1>1 DEF Complete, Streaming
<1>6. QED
  BY <1>2, <1>3, <1>4, <1>5 DEF ClientInv

\* The command goes on to its next call.
LEMMA GoOn ==
  ASSUME ClientInv, ClientTyped', pc \in {"next", "send", "await"}, pc' = "next",
         UNCHANGED <<cmd, requests, done, outcome>>, id' >= id, Due' \subseteq Due,
         ~Pending, Matches(Wanted, todo', Len(done))
  PROVE  ClientInv'
<1>1. Wanted' = Wanted /\ ~Pending'
  BY DEF Wanted, Pending
<1>2. NotYet'
  BY <1>1 DEF NotYet
<1>3. Progress'
  BY <1>1, <1>2 DEF ClientInv, Progress
<1>4. EffectsAwaited'
  BY <1>1 DEF ClientInv, EffectsAwaited
<1>5. Numbered'
  <2>1. \A i \in 1..Len(requests) : requests[i].id <= id /\ requests[i].id \in Nat
    <3>1. TAKE i \in 1..Len(requests)
    <3>2. requests[i] \in RequestSet
      BY DEF ClientInv, ClientTyped
    <3>3. requests[i].id <= id
      BY DEF ClientInv, Numbered
    <3>4. QED
      BY <3>2, <3>3 DEF RequestSet
  <2>2. id \in Nat /\ id' \in Nat
    BY DEF ClientInv, ClientTyped
  <2>3. \A i \in 1..Len(requests) : requests[i].id <= id'
    BY <2>1, <2>2
  <2>4. QED
    BY <2>3 DEF Numbered
<1>6. Truthful'
  <2>1. \A a \in Due : a.id <= id
    BY DEF ClientInv, Truthful
  <2>2. \A a \in Due' : a.id \in Nat
    BY SMTT(40) DEF ClientTyped, AnswerSet, NewsSet, Due, Range
  <2>3. id \in Nat /\ id' \in Nat
    BY DEF ClientInv, ClientTyped
  <2>4. \A a \in Due' : a.id <= id'
    BY <2>1, <2>2, <2>3
  <2>5. QED
    BY <2>4 DEF Truthful
<1>7. Complete'
  BY DEF ClientInv, ClientTyped, Complete, Streaming
<1>8. QED
  BY <1>3, <1>4, <1>5, <1>6, <1>7 DEF ClientInv

\* The first step, and what the state says of it.
LEMMA FirstStep ==
  ASSUME ClientInv, todo # <<>>
  PROVE  /\ Head(todo) \in StepSet /\ Tail(todo) \in Seq(StepSet)
         /\ Len(done) \in 0..Len(Wanted) /\ Wanted \in Seq(Effects)
         /\ Head(todo).method \notin Effects =>
              NotYet /\ ~Pending /\ Matches(Wanted, Tail(todo), Len(done))
         /\ Head(todo).how \in {"may", "probe"} => Head(todo).method \notin Effects
<1>1. todo \in Seq(StepSet) /\ Head(todo) \in StepSet /\ Tail(todo) \in Seq(StepSet)
  BY DEF ClientInv, ClientTyped
<1>2. Len(done) \in 0..Len(Wanted) /\ Wanted \in Seq(Effects)
  BY WantedEffects DEF ClientInv, ClientTyped, Progress
<1>3. ASSUME Head(todo).method \notin Effects
      PROVE  NotYet /\ ~Pending /\ Matches(Wanted, Tail(todo), Len(done))
  <2>1. NotYet
    BY <1>3 DEF ClientInv, Progress, HasBeen
  <2>2. ~Pending
    BY <1>3 DEF ClientInv, EffectsAwaited, Pending
  <2>3. Matches(Wanted, Tail(todo), Len(done))
    BY <1>1, <1>2, <1>3, <2>1, MatchesIdle DEF NotYet
  <2>4. QED
    BY <2>1, <2>2, <2>3
<1>4. QED
  BY <1>1, <1>2, <1>3 DEF StepSet

\* What a call and its end leave typed.
RestTyped ==
  /\ id \in Nat /\ done \in Seq(Effects)
  /\ requests \in Seq(RequestSet) /\ serving \subseteq AnswerSet
  /\ inbox \in Seq(AnswerSet \cup NewsSet)
  /\ taken \in Nat /\ cursor \in Nat /\ produced \in Nat

\* A step fails: either it did nothing, and the next one comes, or the command
\* has failed.
LEMMA FailsStep ==
  ASSUME ClientInv, Fails, todo # <<>>, pc \in {"next", "send", "await"}, RestTyped',
         UNCHANGED <<cmd, requests, done>>, id' >= id, Due' \subseteq Due
  PROVE  ClientInv'
<1>1. CASE /\ Head(todo).how = "may"
           /\ pc' = "next" /\ todo' = Tail(todo) /\ UNCHANGED outcome
  <2>1. ~Pending /\ Matches(Wanted, todo', Len(done)) /\ todo' \in Seq(StepSet)
    BY <1>1, FirstStep
  <2>2. outcome' \in {"none", "ok", "failed"} /\ outcome' # "ok"
    BY <1>1 DEF ClientInv, ClientTyped
  <2>3. ClientTyped'
    BY <1>1, <2>1, <2>2 DEF ClientTyped, RestTyped
  <2>4. QED
    BY <1>1, <2>1, <2>3, GoOn
<1>2. CASE Head(todo).how # "may" /\ End("failed") /\ UNCHANGED todo
  <2>1. pc' = "over" /\ outcome' = "failed" /\ todo' = todo
    BY <1>2 DEF End
  <2>2. ClientTyped'
    BY <2>1 DEF ClientInv, ClientTyped, RestTyped
  <2>3. QED
    BY <2>1, <2>2, Over
<1>3. QED
  BY <1>1, <1>2 DEF Fails

\* An answer to the call under way.
LEMMA ReturnsStep ==
  ASSUME ClientInv, NEW result, Returns(result)
  PROVE  /\ pc = "await" /\ todo # <<>> /\ ~Pending
         /\ UNCHANGED <<cmd, id, requests, done>> /\ Due' \subseteq Due /\ RestTyped'
         /\ result = "ok" /\ Head(todo).method \in Effects => HasBeen
         /\ result = "disconnected" => NotYet
<1>1. /\ pc = "await" /\ inbox # <<>> /\ First.kind = "answer" /\ First.id = id
      /\ First.result = result /\ inbox' = Tail(inbox)
      /\ UNCHANGED <<theirs, cmd, id, taken, hand, link, requests, typed, shown>>
  BY DEF Returns, Mine
<1>2. UNCHANGED <<serving, cursor, produced, done>>
  BY <1>1 DEF theirs
<1>3. /\ Due' \subseteq Due /\ inbox' \in Seq(AnswerSet \cup NewsSet)
      /\ First \in Due
  BY <1>1, <1>2, DueRead DEF ClientInv
<1>4. /\ ~Pending
      /\ First.result = "ok" /\ Head(todo).method \in Effects => HasBeen
      /\ First.result = "disconnected" => NotYet
  BY <1>1, <1>3 DEF ClientInv, Truthful
<1>5. todo # <<>>
  BY <1>1 DEF ClientInv, Numbered
<1>6. RestTyped'
  BY <1>1, <1>2, <1>3 DEF ClientInv, ClientTyped, RestTyped
<1>7. QED
  BY <1>1, <1>2, <1>3, <1>4, <1>5, <1>6

-----------------------------------------------------------------------------
(* The steps, one by one.                                                  *)

\* A request that is made is the last one.
LEMMA Asked ==
  ASSUME NEW q \in Seq(RequestSet), NEW r \in RequestSet
  PROVE  /\ Append(q, r) \in Seq(RequestSet) /\ Append(q, r) # <<>>
         /\ Len(Append(q, r)) = Len(q) + 1 /\ Len(q) \in Nat
         /\ \A i \in 1..Len(q) : Append(q, r)[i] = q[i]
         /\ Append(q, r)[Len(q) + 1] = r
BY AppendProperties

\* Nothing has been done yet.
LEMMA Starts == Init => ClientInv
<1> SUFFICES ASSUME Init PROVE ClientInv
  OBVIOUS
<1>1. Steps(cmd.name) \in Seq(StepSet) /\ Matches(Wanted, Steps(cmd.name), 0)
  BY Planned DEF Init
<1>2. /\ pc = "next" /\ todo = Steps(cmd.name) /\ id = 0 /\ outcome = "none"
      /\ taken = 0 /\ requests = <<>> /\ serving = {} /\ inbox = <<>>
      /\ cursor = 0 /\ produced = 0 /\ done = <<>>
  BY DEF Init
<1>3. ClientTyped
  BY <1>1, <1>2 DEF ClientTyped
<1>4. NotYet
  BY <1>1, <1>2 DEF NotYet
<1>5. Len(Wanted) \in Nat
  BY WantedEffects
<1>6. Progress
  BY <1>2, <1>4, <1>5 DEF Progress
<1>7. EffectsAwaited
  BY <1>2 DEF EffectsAwaited, Pending
<1>8. Numbered
  BY <1>2 DEF Numbered
<1>9. Due = {}
  BY <1>2 DEF Due, Range
<1>10. Truthful
  BY <1>9 DEF Truthful
<1>11. Complete
  BY <1>2 DEF Complete, Streaming
<1>12. QED
  BY <1>3, <1>6, <1>7, <1>8, <1>10, <1>11 DEF ClientInv

\* call: the request is written.
LEMMA CallStep == ClientInv /\ Call => ClientInv'
<1> SUFFICES ASSUME ClientInv, Call PROVE ClientInv'
  OBVIOUS
<1>1. /\ pc = "next" /\ todo # <<>> /\ pc' = "send"
      /\ UNCHANGED <<ours, theirs, requests, inbox>>
  BY DEF Call
<1>2. UNCHANGED <<cmd, todo, id, outcome, taken, serving, cursor, produced, done>> /\ Due' = Due
  BY <1>1 DEF ours, theirs, Due
<1>3. Wanted' = Wanted /\ (NotYet <=> NotYet') /\ (HasBeen <=> HasBeen') /\ (Pending <=> Pending')
  BY <1>1, <1>2, SameEffects DEF Pending
<1>4. NotYet /\ ~Pending
  BY <1>1 DEF ClientInv, Progress, EffectsAwaited
<1>5. ClientTyped'
  BY <1>1, <1>2 DEF ClientInv, ClientTyped
<1>6. Progress' /\ EffectsAwaited'
  BY <1>1, <1>2, <1>3, <1>4 DEF ClientInv, Progress, EffectsAwaited
<1>7. Numbered' /\ Truthful'
  BY <1>1, <1>2 DEF ClientInv, Numbered, Truthful
<1>8. Complete'
  BY <1>1, <1>5 DEF ClientTyped, Complete, Streaming
<1>9. QED
  BY <1>5, <1>6, <1>7, <1>8 DEF ClientInv

\* The request is out, or the step fails at once.
LEMMA SendStep == ClientInv /\ (SendOut \/ SendFails) => ClientInv'
<1> SUFFICES ASSUME ClientInv, SendOut \/ SendFails PROVE ClientInv'
  OBVIOUS
<1>1. /\ pc = "send" /\ todo # <<>> /\ id' = id + 1
      /\ UNCHANGED <<theirs, cmd, taken, hand, link, inbox, typed, shown>>
  BY DEF SendOut, SendFails, ClientInv, Numbered
<1>2. UNCHANGED <<serving, cursor, produced, done, inbox, cmd, taken>> /\ Due' = Due
  BY <1>1 DEF theirs, Due
<1>t. id \in Nat /\ id' \in Nat
  BY <1>1 DEF ClientInv, ClientTyped
<1>3. CASE Fails /\ UNCHANGED requests
  <2>1. RestTyped'
    BY <1>1, <1>2, <1>3, <1>t DEF ClientInv, ClientTyped, RestTyped
  <2>2. QED
    BY <1>1, <1>2, <1>3, <1>t, <2>1, FailsStep
<1>4. CASE /\ requests' = Append(requests, Request(Head(todo).method, <<>>))
           /\ id' = id + 1 /\ pc' = "await" /\ UNCHANGED <<todo, outcome>>
  <2> DEFINE m == Head(todo).method
  <2>1. m \in Methods /\ requests \in Seq(RequestSet) /\ <<>> \in Seq(Nat)
    BY <1>1, FirstStep DEF StepSet, ClientInv, ClientTyped
  <2>2. /\ requests' \in Seq(RequestSet) /\ requests' # <<>>
        /\ Len(requests') = Len(requests) + 1 /\ Len(requests) \in Nat
        /\ \A i \in 1..Len(requests) : requests'[i] = requests[i]
        /\ requests'[Len(requests) + 1].method = m /\ requests'[Len(requests) + 1].id = id + 1
    <3>1. requests' = Append(requests, [id |-> id + 1, method |-> m, data |-> <<>>])
      BY <1>4 DEF Request
    <3>2. id + 1 \in Nat
      BY <1>t
    <3> DEFINE r == [id |-> id + 1, method |-> m, data |-> <<>>]
    <3>3. m \in Methods \cup {"typed"} /\ requests' = Append(requests, r)
      BY <2>1, <3>1
    <3>4. r \in RequestSet /\ r.method = m /\ r.id = id + 1
      BY <2>1, <3>2, <3>3 DEF RequestSet
    <3> HIDE DEF m, r
    <3>5. QED
      BY <2>1, <3>3, <3>4, Asked
  <2>3. NotYet /\ ~Pending /\ \A i \in 1..Len(requests) : requests[i].method \notin Effects
    BY <1>1, <2>1 DEF ClientInv, Progress, EffectsAwaited, Pending
  <2>4. Wanted' = Wanted /\ (NotYet <=> NotYet') /\ (HasBeen <=> HasBeen')
    BY <1>2, <1>4, SameEffects
  <2>5. ClientTyped'
    BY <1>1, <1>2, <1>4, <1>t, <2>2 DEF ClientInv, ClientTyped, RestTyped
  <2>6. Progress'
    BY <1>2, <1>4, <2>3, <2>4 DEF ClientInv, Progress
  <2>7. \A i \in 1..Len(requests) : requests[i].id <= id /\ requests[i].id \in Nat
    <3>1. TAKE i \in 1..Len(requests)
    <3>2. requests[i] \in RequestSet
      BY <2>1
    <3>3. requests[i].id <= id
      BY <1>1 DEF ClientInv, Numbered
    <3>4. QED
      BY <3>2, <3>3 DEF RequestSet
  <2> HIDE DEF m
  <2>8. \A i \in 1..Len(requests') : IF i = Len(requests') THEN requests'[i].id = id' /\ requests'[i].method = m
                                    ELSE /\ requests'[i].id <= id' /\ requests'[i].id # id'
                                         /\ requests'[i].method \notin Effects
    BY <1>1, <1>t, <2>2, <2>3, <2>7
  <2>9. EffectsAwaited'
    <3>1. \A i \in 1..Len(requests') : requests'[i].method \in Effects => i = Len(requests')
      BY <2>8
    <3>2. \A i \in 1..Len(requests') : requests'[i].id = id' <=> i = Len(requests')
      BY <2>8
    <3>3. Head(todo').method = requests'[Len(requests')].method
      BY <1>4, <2>2 DEF m
    <3>4. QED
      BY <1>1, <1>4, <2>3, <2>4, <3>1, <3>2, <3>3 DEF EffectsAwaited
  <2>10. Numbered'
    <3>1. \A i \in 1..Len(requests') : requests'[i].id <= id'
      BY <2>8, <1>t
    <3>2. \A i \in 1..Len(requests') : requests'[i].id = id' => requests'[i].method = Head(todo').method
      BY <2>8, <1>4 DEF m
    <3>3. QED
      BY <1>1, <1>4, <3>1, <3>2 DEF Numbered
  <2>11. Truthful'
    <3>1. \A a \in Due : a.id <= id
      BY <1>1 DEF ClientInv, Truthful
    <3>2. \A a \in Due : a.id \in Nat
      BY SMTT(20) DEF ClientInv, ClientTyped, AnswerSet, NewsSet, Due, Range
    <3>3. \A a \in Due' : a.id <= id' /\ a.id # id'
      BY <1>1, <1>2, <1>t, <3>1, <3>2
    <3>4. QED
      BY <3>3 DEF Truthful
  <2>12. Complete'
    BY <1>4, <2>5 DEF ClientTyped, Complete, Streaming
  <2>13. QED
    BY <2>5, <2>6, <2>9, <2>10, <2>11, <2>12 DEF ClientInv
<1>5. QED
  BY <1>3, <1>4 DEF SendOut, SendFails

\* The last step is done.
LEMMA FinishStep == ClientInv /\ Finish => ClientInv'
<1> SUFFICES ASSUME ClientInv, Finish PROVE ClientInv'
  OBVIOUS
<1>1. /\ pc = "next" /\ todo = <<>>
      /\ UNCHANGED <<theirs, cmd, todo, taken, hand, link, requests, inbox, typed, shown>>
  BY DEF Finish
<1>2. UNCHANGED <<serving, cursor, produced, done>> /\ Due' = Due
  BY <1>1 DEF theirs, Due
<1>3. NotYet /\ ~Pending
  BY <1>1 DEF ClientInv, Progress, EffectsAwaited
<1>4. Wanted' = Wanted /\ (NotYet <=> NotYet') /\ (HasBeen <=> HasBeen') /\ (Pending <=> Pending')
  BY <1>1, <1>2, SameEffects DEF Pending
<1>5. outcome # "ok"
  BY <1>1 DEF ClientInv, ClientTyped
<1>6. CASE cmd.name \notin {"tail", "pty"} /\ End("ok") /\ UNCHANGED id
  <2>1. pc' = "over" /\ outcome' = "ok"
    BY <1>6 DEF End
  <2>2. ClientTyped'
    BY <1>1, <1>2, <1>6, <2>1 DEF ClientInv, ClientTyped
  <2>3. QED
    BY <1>1, <1>2, <1>3, <2>1, <2>2, Over
<1>7. ASSUME pc' \in Streaming, outcome' = outcome, id' \in Nat PROVE ClientInv'
  <2>1. pc' \notin {"next", "send", "await", "over"}
    BY <1>7 DEF Streaming
  <2>2. ClientTyped'
    BY <1>1, <1>2, <1>5, <1>7 DEF ClientInv, ClientTyped
  <2>3. Progress'
    BY <1>2, <1>3, <1>4 DEF ClientInv, Progress
  <2>4. EffectsAwaited'
    BY <1>1, <1>3, <1>4 DEF ClientInv, EffectsAwaited
  <2>5. Numbered' /\ Truthful'
    BY <2>1 DEF Numbered, Truthful
  <2>6. Complete'
    BY <1>1, <1>3, <1>4 DEF Complete
  <2>7. QED
    BY <2>2, <2>3, <2>4, <2>5, <2>6 DEF ClientInv
<1>8. CASE cmd.name = "tail" /\ pc' = "tail" /\ UNCHANGED <<outcome, id>>
  BY <1>7, <1>8 DEF Streaming, ClientInv, ClientTyped
<1>9. CASE cmd.name = "pty" /\ pc' = "bridge" /\ id' = 0 /\ UNCHANGED outcome
  BY <1>7, <1>9 DEF Streaming
<1>10. QED
  BY <1>6, <1>8, <1>9 DEF Finish

\* A result: the step is over, `sync` probes on, or the command gives up.
LEMMA ReturnOkStep == ClientInv /\ ReturnOk => ClientInv'
<1> SUFFICES ASSUME ClientInv, ReturnOk PROVE ClientInv'
  OBVIOUS
<1>1. Returns("ok")
  BY DEF ReturnOk
<1>2. /\ pc = "await" /\ todo # <<>> /\ ~Pending
      /\ UNCHANGED <<cmd, id, requests, done>> /\ Due' \subseteq Due /\ RestTyped'
      /\ Head(todo).method \in Effects => HasBeen
  BY <1>1, ReturnsStep
<1>3. id' >= id
  BY <1>2 DEF RestTyped
<1>4. outcome # "ok" /\ outcome \in {"none", "ok", "failed"} /\ todo \in Seq(StepSet)
  BY <1>2 DEF ClientInv, ClientTyped
<1>5. CASE Head(todo).how = "probe" /\ pc' = "next" /\ UNCHANGED <<todo, outcome>>
  <2>1. Matches(Wanted, todo', Len(done))
    BY <1>2, <1>5, FirstStep DEF NotYet
  <2>2. ClientTyped'
    BY <1>2, <1>4, <1>5 DEF ClientTyped, RestTyped
  <2>3. QED
    BY <1>2, <1>3, <1>5, <2>1, <2>2, GoOn
<1>6. CASE Head(todo).how # "probe" /\ pc' = "next" /\ todo' = Tail(todo) /\ UNCHANGED outcome
  <2>1. Matches(Wanted, todo', Len(done))
    BY <1>2, <1>6, FirstStep DEF HasBeen
  <2>2. ClientTyped'
    BY <1>2, <1>4, <1>6, FirstStep DEF ClientTyped, RestTyped
  <2>3. QED
    BY <1>2, <1>3, <1>6, <2>1, <2>2, GoOn
<1>7. CASE Head(todo).method \in {"personality", "status"} /\ End("failed") /\ UNCHANGED todo
  <2>1. pc' = "over" /\ outcome' = "failed" /\ todo' = todo
    BY <1>7 DEF End
  <2>2. ClientTyped'
    BY <1>2, <1>4, <2>1 DEF ClientTyped, RestTyped
  <2>3. QED
    BY <1>2, <2>1, <2>2, Over
<1>8. QED
  BY <1>5, <1>6, <1>7 DEF ReturnOk

\* The device is gone, and nothing was written: the step may come once more.
LEMMA ReturnDisconnectedStep == ClientInv /\ ReturnDisconnected => ClientInv'
<1> SUFFICES ASSUME ClientInv, ReturnDisconnected PROVE ClientInv'
  OBVIOUS
<1>1. Returns("disconnected")
  BY DEF ReturnDisconnected
<1>2. /\ pc = "await" /\ todo # <<>> /\ ~Pending
      /\ UNCHANGED <<cmd, id, requests, done>> /\ Due' \subseteq Due /\ RestTyped'
      /\ NotYet
  BY <1>1, ReturnsStep
<1>3. id' >= id
  BY <1>2 DEF RestTyped
<1>4. outcome # "ok" /\ outcome \in {"none", "ok", "failed"} /\ todo \in Seq(StepSet)
  BY <1>2 DEF ClientInv, ClientTyped
<1>5. CASE Head(todo).how = "retry" /\ cmd.auto
  <2>1. pc' = "next" /\ todo' = Again /\ UNCHANGED outcome
    BY <1>5 DEF ReturnDisconnected
  <2>2. todo' \in Seq(StepSet) /\ Matches(Wanted, todo', Len(done))
    BY <1>2, <1>4, <2>1, FirstStep, MatchesAgain DEF NotYet, Again
  <2>3. ClientTyped'
    BY <1>2, <1>4, <2>1, <2>2 DEF ClientTyped, RestTyped
  <2>4. QED
    BY <1>2, <1>3, <2>1, <2>2, <2>3, GoOn
<1>6. CASE ~(Head(todo).how = "retry" /\ cmd.auto)
  <2>1. Fails
    BY <1>6 DEF ReturnDisconnected
  <2>2. QED
    BY <1>2, <1>3, <2>1, FailsStep
<1>7. QED
  BY <1>5, <1>6

\* Any other error.
LEMMA ReturnErrorStep == ClientInv /\ ReturnError => ClientInv'
<1> SUFFICES ASSUME ClientInv, ReturnError PROVE ClientInv'
  OBVIOUS
<1>1. /\ pc = "await" /\ todo # <<>>
      /\ UNCHANGED <<cmd, id, requests, done>> /\ Due' \subseteq Due /\ RestTyped'
  BY ReturnsStep DEF ReturnError
<1>2. id' >= id
  BY <1>1 DEF RestTyped
<1>3. QED
  BY <1>1, <1>2, FailsStep DEF ReturnError

\* A reconnect that brings nothing back did nothing, whoever goes past it.
LEMMA ReturnClosedStep == ClientInv /\ ReturnClosed => ClientInv'
<1> SUFFICES ASSUME ClientInv, ReturnClosed PROVE ClientInv'
  OBVIOUS
<1>1. Returns("closed")
  BY DEF ReturnClosed
<1>2. /\ pc = "await" /\ todo # <<>> /\ ~Pending
      /\ UNCHANGED <<cmd, id, requests, done>> /\ Due' \subseteq Due /\ RestTyped'
  BY <1>1, ReturnsStep
<1>3. id' >= id
  BY <1>2 DEF RestTyped
<1>4. CASE Fails
  BY <1>2, <1>3, <1>4, FailsStep
<1>5. CASE /\ Head(todo).method = "reconnect"
           /\ pc' = "next" /\ todo' = Tail(todo) /\ UNCHANGED outcome
  <2>1. Head(todo).method \notin Effects
    BY <1>5 DEF Effects, Lines
  <2>2. Matches(Wanted, todo', Len(done)) /\ todo' \in Seq(StepSet)
    BY <1>2, <1>5, <2>1, FirstStep
  <2>3. outcome # "ok" /\ outcome \in {"none", "ok", "failed"}
    BY <1>2 DEF ClientInv, ClientTyped
  <2>4. ClientTyped'
    BY <1>2, <1>5, <2>2, <2>3 DEF ClientTyped, RestTyped
  <2>5. QED
    BY <1>2, <1>3, <1>5, <2>2, <2>4, GoOn
<1>6. QED
  BY <1>4, <1>5 DEF ReturnClosed

\* A probe that times out did nothing, whatever comes next.
LEMMA ReturnTimeoutStep == ClientInv /\ ReturnTimeout => ClientInv'
<1> SUFFICES ASSUME ClientInv, ReturnTimeout PROVE ClientInv'
  OBVIOUS
<1>1. Returns("timeout")
  BY DEF ReturnTimeout
<1>2. /\ pc = "await" /\ todo # <<>> /\ ~Pending
      /\ UNCHANGED <<cmd, id, requests, done>> /\ Due' \subseteq Due /\ RestTyped'
  BY <1>1, ReturnsStep
<1>3. id' >= id
  BY <1>2 DEF RestTyped
<1>4. outcome # "ok" /\ outcome \in {"none", "ok", "failed"} /\ todo \in Seq(StepSet)
  BY <1>2 DEF ClientInv, ClientTyped
<1>5. CASE Head(todo).how = "probe" /\ pc' = "next" /\ todo' \in {todo, Tail(todo)} /\ UNCHANGED outcome
  <2>1. NotYet /\ Matches(Wanted, Tail(todo), Len(done)) /\ Tail(todo) \in Seq(StepSet)
    BY <1>2, <1>5, FirstStep
  <2>2. Matches(Wanted, todo', Len(done)) /\ todo' \in Seq(StepSet)
    BY <1>4, <1>5, <2>1 DEF NotYet
  <2>3. ClientTyped'
    BY <1>2, <1>4, <1>5, <2>2 DEF ClientTyped, RestTyped
  <2>4. QED
    BY <1>2, <1>3, <1>5, <2>2, <2>3, GoOn
<1>6. CASE Fails
  BY <1>2, <1>3, <1>6, FailsStep
<1>7. QED
  BY <1>5, <1>6 DEF ReturnTimeout

\* The probes are given up.
LEMMA StopProbingStep == ClientInv /\ StopProbing => ClientInv'
<1> SUFFICES ASSUME ClientInv, StopProbing PROVE ClientInv'
  OBVIOUS
<1>1. /\ pc = "next" /\ todo # <<>> /\ Head(todo).how = "probe" /\ todo' = Tail(todo)
      /\ UNCHANGED <<theirs, cmd, pc, id, outcome, taken, hand, link, requests, inbox, typed, shown>>
  BY DEF StopProbing
<1>2. UNCHANGED <<serving, cursor, produced, done>> /\ Due' = Due
  BY <1>1 DEF theirs, Due
<1>3. ~Pending /\ Matches(Wanted, todo', Len(done)) /\ todo' \in Seq(StepSet)
  BY <1>1, FirstStep
<1>4. ClientTyped'
  BY <1>1, <1>2, <1>3 DEF ClientInv, ClientTyped
<1>5. id' >= id
  BY <1>1, <1>4 DEF ClientTyped
<1>6. QED
  BY <1>1, <1>2, <1>3, <1>4, <1>5, GoOn

\* run gives up for want of a pattern.
LEMMA NoPatternStep == ClientInv /\ NoPattern => ClientInv'
<1> SUFFICES ASSUME ClientInv, NoPattern PROVE ClientInv'
  OBVIOUS
<1>1. /\ pc = "next" /\ pc' = "over" /\ outcome' = "failed"
      /\ UNCHANGED <<theirs, cmd, todo, id, taken, requests, inbox>>
  BY DEF NoPattern, End
<1>2. UNCHANGED <<serving, cursor, produced, done>>
  BY <1>1 DEF theirs
<1>3. ClientTyped'
  BY <1>1, <1>2 DEF ClientInv, ClientTyped
<1>4. QED
  BY <1>1, <1>2, <1>3, Over

\* No answer comes, and none is taken later for one that did.
LEMMA NoAnswerStep == ClientInv /\ NoAnswer => ClientInv'
<1> SUFFICES ASSUME ClientInv, NoAnswer PROVE ClientInv'
  OBVIOUS
<1>1. /\ pc = "await" /\ Fails
      /\ UNCHANGED <<theirs, cmd, id, taken, hand, link, requests, inbox, typed, shown>>
  BY DEF NoAnswer
<1>2. UNCHANGED <<serving, cursor, produced, done>> /\ Due' = Due
  BY <1>1 DEF theirs, Due
<1>3. todo # <<>>
  BY <1>1 DEF ClientInv, Numbered
<1>4. RestTyped'
  BY <1>1, <1>2 DEF ClientInv, ClientTyped, RestTyped
<1>5. id' >= id
  BY <1>1, <1>4 DEF RestTyped
<1>6. QED
  BY <1>1, <1>2, <1>3, <1>4, <1>5, FailsStep

\* The daemon takes the first request.
LEMMA Taken ==
  ASSUME NEW q \in Seq(RequestSet), q # <<>>
  PROVE  /\ Head(q) \in RequestSet /\ Head(q) = q[1] /\ Len(q) \in Nat \ {0}
         /\ Tail(q) \in Seq(RequestSet) /\ Len(Tail(q)) = Len(q) - 1
         /\ \A i \in 1 .. Len(q) - 1 : Tail(q)[i] = q[i + 1]
OBVIOUS

\* What has no effect never says that it had one, nor that nothing was written;
\* what has one says ok only if it had it, and `disconnected` only if not.
LEMMA OutcomesHonest ==
  ASSUME NEW m \in Methods, NEW o \in Outcomes(m)
  PROVE  /\ o[2] \in Results
         /\ m \notin Effects => ~o[1] /\ o[2] # "disconnected"
         /\ m \in Effects /\ o[2] = "ok" => o[1]
         /\ o[2] = "disconnected" => ~o[1]
<1> DEFINE Honest == /\ o[2] \in Results
                     /\ m \notin Effects => ~o[1] /\ o[2] # "disconnected"
                     /\ m \in Effects /\ o[2] = "ok" => o[1]
                     /\ o[2] = "disconnected" => ~o[1]
<1> SUFFICES Honest
  OBVIOUS
<1>1. ASSUME m \notin Effects, NEW s \in {"ok", "error", "timeout", "closed"}, o = <<FALSE, s>>
      PROVE  Honest
  <2>1. ~o[1] /\ o[2] = s
    BY <1>1
  <2>2. QED
    BY <1>1, <2>1 DEF Results
<1>2. ASSUME m \in Effects, NEW s \in {"ok", "timeout", "error"}, o = <<TRUE, s>>
      PROVE  Honest
  <2>1. o[1] /\ o[2] = s
    BY <1>2
  <2>2. QED
    BY <1>2, <2>1 DEF Results
<1>3. ASSUME m \in Effects, NEW s \in {"disconnected", "error"}, o = <<FALSE, s>>
      PROVE  Honest
  <2>1. ~o[1] /\ o[2] = s
    BY <1>3
  <2>2. QED
    BY <1>3, <2>1 DEF Results
<1> HIDE DEF Honest
<1>4. CASE m \in {"hello", "list_devices", "personality", "status", "attach"}
  <2>1. o = <<FALSE, "ok">> \/ o = <<FALSE, "error">>
    BY <1>4 DEF Outcomes, Plain
  <2>2. m \notin Effects
    BY <1>4 DEF Effects, Lines
  <2>3. QED
    BY <2>1, <2>2, <1>1
<1>5. CASE m = "expect"
  <2>1. o = <<FALSE, "ok">> \/ o = <<FALSE, "error">> \/ o = <<FALSE, "timeout">>
    BY <1>5 DEF Outcomes, Plain
  <2>2. m \notin Effects
    BY <1>5 DEF Effects, Lines
  <2>3. QED
    BY <2>1, <2>2, <1>1
<1>6. CASE m = "reconnect"
  <2>1. o = <<FALSE, "ok">> \/ o = <<FALSE, "error">> \/ o = <<FALSE, "closed">>
    BY <1>6 DEF Outcomes, Plain
  <2>2. m \notin Effects
    BY <1>6 DEF Effects, Lines
  <2>3. QED
    BY <2>1, <2>2, <1>1
<1>7. CASE m = "lock"
  <2>1. o = <<TRUE, "ok">> \/ o = <<FALSE, "error">>
    BY <1>7 DEF Outcomes, Plain
  <2>2. m \in Effects
    BY <1>7 DEF Effects, Lines
  <2>3. QED
    BY <2>1, <2>2, <1>2, <1>3
<1>8. CASE m = "run"
  <2>1. \/ o = <<TRUE, "ok">> \/ o = <<TRUE, "timeout">> \/ o = <<TRUE, "error">>
        \/ o = <<FALSE, "disconnected">> \/ o = <<FALSE, "error">>
    BY <1>8 DEF Outcomes, Plain
  <2>2. m \in Effects
    BY <1>8 DEF Effects, Lines
  <2>3. QED
    BY <2>1, <2>2, <1>2, <1>3
<1>9. CASE m \in {"send", "set"} \cup Lines
  <2>1. \/ o = <<TRUE, "ok">> \/ o = <<TRUE, "error">>
        \/ o = <<FALSE, "disconnected">> \/ o = <<FALSE, "error">>
    BY <1>9 DEF Outcomes, Plain, Lines
  <2>2. m \in Effects
    BY <1>9 DEF Effects, Lines
  <2>3. QED
    BY <2>1, <2>2, <1>2, <1>3
<1>10. QED
  BY <1>4, <1>5, <1>6, <1>7, <1>8, <1>9 DEF Methods, Effects

\* A request is taken up, and may have its effect.
LEMMA HandleStep == ClientInv /\ Handle => ClientInv'
<1> SUFFICES ASSUME ClientInv, Handle PROVE ClientInv'
  OBVIOUS
<1> DEFINE r == Head(requests)
           n == Len(requests)
<1>1. /\ requests # <<>> /\ r.method # "typed" /\ requests' = Tail(requests)
      /\ UNCHANGED <<ours, pc, hand, link, inbox, produced, typed, written, shown>>
  BY DEF Handle
<1>2. PICK o \in Outcomes(r.method) :
        /\ serving' = {Answer(r.id, r.method, o[2])}
        /\ done' = IF o[1] THEN Append(done, r.method) ELSE done
        /\ \/ /\ o = <<FALSE, "ok">> /\ r.method = "attach"
              /\ attached' = TRUE /\ cursor' = IF cmd.from = "now" THEN produced ELSE 0
           \/ ~(o = <<FALSE, "ok">> /\ r.method = "attach") /\ UNCHANGED <<attached, cursor>>
  BY DEF Handle
<1>3. UNCHANGED <<cmd, todo, id, outcome, taken, pc, inbox, produced>>
  BY <1>1 DEF ours
<1>4. /\ requests \in Seq(RequestSet) /\ r \in RequestSet /\ r = requests[1] /\ n \in Nat \ {0}
      /\ requests' \in Seq(RequestSet) /\ Len(requests') = n - 1
      /\ \A i \in 1 .. n - 1 : requests'[i] = requests[i + 1]
  BY <1>1, Taken DEF ClientInv, ClientTyped
<1>5. r.method \in Methods /\ r.id \in Nat
  BY <1>1, <1>4 DEF RequestSet
<1>6. /\ o[2] \in Results
      /\ r.method \notin Effects => ~o[1] /\ o[2] # "disconnected"
      /\ r.method \in Effects /\ o[2] = "ok" => o[1]
      /\ o[2] = "disconnected" => ~o[1]
  BY <1>5, OutcomesHonest
<1> DEFINE a0 == Answer(r.id, r.method, o[2])
<1>7. a0 \in AnswerSet /\ a0.id = r.id /\ a0.result = o[2] /\ serving' = {a0}
  BY <1>2, <1>5, <1>6 DEF Answer, AnswerSet
<1> HIDE DEF a0
<1>8. \A a \in Due' : a \in Due \/ a = a0
  BY <1>3, <1>7 DEF Due
<1>9. cursor' \in Nat
  <2>1. cursor \in Nat /\ produced \in Nat
    BY DEF ClientInv, ClientTyped
  <2>2. cursor' = cursor \/ cursor' = produced \/ cursor' = 0
    <3>1. CASE cmd.from = "now"
      BY <1>2, <3>1
    <3>2. CASE cmd.from # "now"
      BY <1>2, <3>2
    <3>3. QED
      BY <3>1, <3>2
  <2>3. QED
    BY <2>1, <2>2
<1>10. ASSUME done' \in Seq(Effects) PROVE ClientTyped'
  BY <1>3, <1>4, <1>7, <1>9, <1>10 DEF ClientInv, ClientTyped
<1> HIDE DEF r, n
<1>11. CASE r.method \in Effects
  <2>1. n = 1 /\ Pending
    <3>1. 1 \in 1..Len(requests) /\ requests[1].method \in Effects
      BY <1>4, <1>11 DEF n
    <3>2. 1 = Len(requests)
      BY <3>1 DEF ClientInv, EffectsAwaited
    <3>3. QED
      BY <1>1, <3>1, <3>2 DEF Pending, n
  <2>2. /\ pc \in {"await", "over"} /\ NotYet /\ todo # <<>>
        /\ Head(todo).method = r.method
        /\ pc = "await" => r.id = id
    BY <1>4, <2>1 DEF ClientInv, EffectsAwaited, n
  <2>3. requests' = <<>> /\ ~Pending'
    BY <1>4, <2>1 DEF Pending
  <2>4. EffectsAwaited'
    BY <2>3 DEF EffectsAwaited
  <2>5. Numbered'
    BY <1>3, <2>2, <2>3 DEF Numbered
  <2>6. /\ Wanted' = Wanted /\ Wanted \in Seq(Effects) /\ done \in Seq(Effects)
        /\ Len(done) \in 0..Len(Wanted) /\ todo \in Seq(StepSet)
    BY <1>3, <2>2, FirstStep DEF Wanted, ClientInv, ClientTyped
  <2>7. /\ Len(done) + 1 \in 1..Len(Wanted) /\ r.method = Wanted[Len(done) + 1]
        /\ Matches(Wanted, Tail(todo), Len(done) + 1)
    BY <1>11, <2>2, <2>6, MatchesEffect DEF NotYet
  <2>8. Complete'
    <3>1. outcome # "ok" /\ pc \notin Streaming
      BY <2>2 DEF ClientInv, Complete, Streaming
    <3>2. QED
      BY <1>3, <3>1 DEF Complete
  <2>9. ASSUME a0.result = "ok" => HasBeen', a0.result = "disconnected" => NotYet' PROVE Truthful'
    <3>1. SUFFICES ASSUME NEW a \in Due'
                   PROVE  /\ pc \in {"next", "send", "await"} => a.id <= id
                          /\ pc = "await" /\ a.id = id =>
                               /\ a.result = "ok" /\ Head(todo).method \in Effects => HasBeen'
                               /\ a.result = "disconnected" => NotYet'
      BY <1>3, <2>3 DEF Truthful
    <3>2. CASE a \in Due
      BY <2>1, <3>2 DEF ClientInv, Truthful
    <3>3. CASE a = a0
      <4>1. pc = "await" => a.id = id /\ id \in Nat
        BY <1>7, <2>2, <3>3 DEF ClientInv, ClientTyped
      <4>2. QED
        BY <2>2, <2>9, <3>3, <4>1
    <3>4. QED
      BY <1>8, <3>2, <3>3
  <2>10. CASE o[1]
    <3>1. done' = Append(done, r.method)
      BY <1>2, <2>10 DEF r
    <3>2. /\ done' \in Seq(Effects) /\ Len(done') = Len(done) + 1
          /\ \A i \in 1..Len(done) : done'[i] = done[i] /\ done'[Len(done) + 1] = r.method
          /\ done'[Len(done) + 1] = r.method
      BY <1>11, <2>6, <3>1, AppendProperties
    <3>3. HasBeen'
      BY <1>3, <1>11, <2>2, <2>6, <2>7, <3>2 DEF HasBeen
    <3>4. Progress'
      <4>1. \A i \in 1..Len(done') : done'[i] = Wanted[i]
        <5>1. TAKE i \in 1..Len(done')
        <5>2. CASE i = Len(done) + 1
          BY <5>2, <2>7, <3>2
        <5>3. CASE i # Len(done) + 1
          <6>1. i \in 1..Len(done)
            BY <5>3, <2>6, <3>2
          <6>2. QED
            BY <6>1, <3>2 DEF ClientInv, Progress
        <5>4. QED
          BY <5>2, <5>3
      <4>2. Len(done') <= Len(Wanted)
        BY <2>6, <2>7, <3>2
      <4>3. QED
        BY <1>3, <2>2, <2>6, <3>3, <4>1, <4>2 DEF Progress
    <3>5. a0.result # "disconnected"
      BY <1>6, <1>7, <2>10
    <3>6. QED
      BY <1>10, <2>4, <2>5, <2>8, <2>9, <3>2, <3>3, <3>4, <3>5 DEF ClientInv
  <2>11. CASE ~o[1]
    <3>1. done' = done
      BY <1>2, <2>11
    <3>2. NotYet'
      BY <1>3, <2>2, <3>1, SameEffects
    <3>3. Progress'
      BY <1>3, <2>6, <3>1, <3>2 DEF ClientInv, Progress
    <3>4. a0.result # "ok"
      BY <1>6, <1>7, <1>11, <2>11
    <3>5. QED
      BY <1>10, <2>4, <2>5, <2>6, <2>8, <2>9, <3>1, <3>2, <3>3, <3>4 DEF ClientInv
  <2>12. QED
    BY <2>10, <2>11
<1>12. CASE r.method \notin Effects
  <2>1. done' = done
    BY <1>2, <1>6, <1>12
  <2>2. Wanted' = Wanted /\ (NotYet <=> NotYet') /\ (HasBeen <=> HasBeen')
    BY <1>3, <2>1, SameEffects
  <2>3. ClientTyped'
    BY <1>10, <2>1 DEF ClientInv, ClientTyped
  <2>4. Progress'
    BY <1>3, <2>1, <2>2 DEF ClientInv, Progress
  <2>5. Pending' => Pending /\ n > 1 /\ requests'[Len(requests')] = requests[n]
    BY <1>1, <1>4 DEF Pending, n
  <2>6. \A i \in 1..Len(requests') : i + 1 \in 1..n /\ requests'[i] = requests[i + 1]
    BY <1>4
  <2>7. EffectsAwaited'
    <3>1. \A i \in 1..Len(requests') : requests'[i].method \in Effects => i = Len(requests')
      <4>1. TAKE i \in 1..Len(requests')
      <4>2. HAVE requests'[i].method \in Effects
      <4>3. i + 1 = n
        BY <2>6, <4>2 DEF ClientInv, EffectsAwaited, n
      <4>4. QED
        BY <1>4, <4>3
    <3>2. ASSUME Pending'
          PROVE  /\ pc \in {"await", "over"} /\ NotYet /\ todo # <<>>
                 /\ Head(todo).method = requests'[Len(requests')].method
                 /\ pc = "await" =>
                      \A i \in 1..Len(requests') : requests'[i].id = id <=> i = Len(requests')
      <4>1. /\ pc \in {"await", "over"} /\ NotYet /\ todo # <<>>
            /\ Head(todo).method = requests[n].method
            /\ pc = "await" => \A i \in 1..n : requests[i].id = id <=> i = n
        BY <2>5, <3>2 DEF ClientInv, EffectsAwaited, n
      <4>2. ASSUME pc = "await", NEW i \in 1..Len(requests')
            PROVE  requests'[i].id = id <=> i = Len(requests')
        <5>1. requests'[i].id = id <=> i + 1 = n
          BY <2>6, <4>1, <4>2
        <5>2. i + 1 = n <=> i = Len(requests')
          BY <1>4
        <5>3. QED
          BY <5>1, <5>2
      <4>3. QED
        BY <2>5, <3>2, <4>1, <4>2
    <3>3. QED
      BY <1>3, <2>2, <3>1, <3>2 DEF EffectsAwaited
  <2>8. Numbered'
    BY <1>3, <2>6 DEF ClientInv, Numbered, n
  <2>9. Truthful'
    <3>1. SUFFICES ASSUME NEW a \in Due'
                   PROVE  /\ pc \in {"next", "send", "await"} => a.id <= id
                          /\ pc = "await" /\ a.id = id =>
                               /\ ~Pending'
                               /\ a.result = "ok" /\ Head(todo).method \in Effects => HasBeen
                               /\ a.result = "disconnected" => NotYet
      BY <1>3, <2>2 DEF Truthful
    <3>2. CASE a \in Due
      BY <2>5, <3>2 DEF ClientInv, Truthful
    <3>3. CASE a = a0
      <4>1. 1 \in 1..Len(requests) /\ a.id = requests[1].id
        BY <1>4, <1>7, <3>3 DEF n
      <4>2. pc \in {"next", "send", "await"} => a.id <= id
        BY <4>1 DEF ClientInv, Numbered
      <4>3. pc = "await" /\ a.id = id => r.method = Head(todo).method
        BY <1>4, <4>1 DEF ClientInv, Numbered
      <4>4. pc = "await" /\ a.id = id => ~Pending'
        <5>1. SUFFICES ASSUME pc = "await", a.id = id, Pending' PROVE FALSE
          OBVIOUS
        <5>2. 1 = n
          BY <2>5, <4>1, <5>1 DEF ClientInv, EffectsAwaited, n
        <5>3. QED
          BY <2>5, <5>1, <5>2
      <4>5. a.result # "disconnected"
        BY <1>6, <1>7, <1>12, <3>3
      <4>6. QED
        BY <1>12, <4>2, <4>3, <4>4, <4>5
    <3>4. QED
      BY <1>8, <3>2, <3>3
  <2>10. Complete'
    BY <1>3, <2>2 DEF ClientInv, Complete
  <2>11. QED
    BY <2>3, <2>4, <2>7, <2>8, <2>9, <2>10 DEF ClientInv
<1>13. QED
  BY <1>11, <1>12

\* The bridge's sends have no effect of the command's.
LEMMA HandleTypedStep == ClientInv /\ HandleTyped => ClientInv'
<1> SUFFICES ASSUME ClientInv, HandleTyped PROVE ClientInv'
  OBVIOUS
<1> DEFINE n == Len(requests)
<1>1. /\ requests # <<>> /\ Head(requests).method = "typed" /\ requests' = Tail(requests)
      /\ UNCHANGED <<ours, pc, hand, link, inbox, attached, cursor, produced, typed, done, shown>>
  BY DEF HandleTyped
<1>2. PICK k \in 0..Len(Head(requests).data) :
        serving' = {Answer(Head(requests).id, "typed",
                           IF k = Len(Head(requests).data) THEN "ok" ELSE "error")}
  BY DEF HandleTyped
<1>3. UNCHANGED <<cmd, todo, id, outcome, taken, pc, inbox, produced, cursor, done>>
  BY <1>1 DEF ours
<1>4. /\ requests \in Seq(RequestSet) /\ Head(requests) \in RequestSet
      /\ Head(requests) = requests[1] /\ n \in Nat \ {0}
      /\ requests' \in Seq(RequestSet) /\ Len(requests') = n - 1
      /\ \A i \in 1 .. n - 1 : requests'[i] = requests[i + 1]
  BY <1>1, Taken DEF ClientInv, ClientTyped
<1>5. PICK a0 \in AnswerSet : a0.id = requests[1].id /\ serving' = {a0}
  <2> DEFINE res == IF k = Len(Head(requests).data) THEN "ok" ELSE "error"
             a == Answer(Head(requests).id, "typed", res)
  <2>1. res \in Results /\ Head(requests).id \in Nat
    BY <1>4 DEF RequestSet, Results
  <2>2. serving' = {a}
    BY <1>2
  <2> HIDE DEF res
  <2>3. a \in AnswerSet /\ a.id = Head(requests).id
    BY <2>1 DEF Answer, AnswerSet
  <2> HIDE DEF a
  <2>4. QED
    BY <1>4, <2>2, <2>3
<1>6. \A a \in Due' : a \in Due \/ a = a0
  BY <1>3, <1>5 DEF Due
<1>7. "typed" \notin Methods /\ "typed" \notin Effects
  BY DEF Methods, Effects, Lines
<1>8. ClientTyped'
  BY <1>3, <1>4, <1>5 DEF ClientInv, ClientTyped
<1>9. Wanted' = Wanted /\ (NotYet <=> NotYet') /\ (HasBeen <=> HasBeen')
  BY <1>3, SameEffects
<1>10. Progress'
  BY <1>3, <1>9 DEF ClientInv, Progress
<1>11. Pending' => Pending /\ n > 1 /\ requests'[Len(requests')] = requests[n]
  BY <1>1, <1>4 DEF Pending
<1> HIDE DEF n
<1>12. \A i \in 1..Len(requests') : i + 1 \in 1..n /\ requests'[i] = requests[i + 1]
  BY <1>4
<1>13. EffectsAwaited'
  <2>1. \A i \in 1..Len(requests') : requests'[i].method \in Effects => i = Len(requests')
    <3>1. TAKE i \in 1..Len(requests')
    <3>2. HAVE requests'[i].method \in Effects
    <3>3. i + 1 = n
      BY <1>12, <3>2 DEF ClientInv, EffectsAwaited, n
    <3>4. QED
      BY <1>4, <3>3
  <2>2. ASSUME Pending'
        PROVE  /\ pc \in {"await", "over"} /\ NotYet /\ todo # <<>>
               /\ Head(todo).method = requests'[Len(requests')].method
               /\ pc = "await" =>
                    \A i \in 1..Len(requests') : requests'[i].id = id <=> i = Len(requests')
    <3>1. /\ pc \in {"await", "over"} /\ NotYet /\ todo # <<>>
          /\ Head(todo).method = requests[n].method
          /\ pc = "await" => \A i \in 1..n : requests[i].id = id <=> i = n
      BY <1>11, <2>2 DEF ClientInv, EffectsAwaited, n
    <3>2. ASSUME pc = "await", NEW i \in 1..Len(requests')
          PROVE  requests'[i].id = id <=> i = Len(requests')
      <4>1. requests'[i].id = id <=> i + 1 = n
        BY <1>12, <3>1, <3>2
      <4>2. i + 1 = n <=> i = Len(requests')
        BY <1>4
      <4>3. QED
        BY <4>1, <4>2
    <3>3. QED
      BY <1>11, <2>2, <3>1, <3>2
  <2>3. QED
    BY <1>3, <1>9, <2>1, <2>2 DEF EffectsAwaited
<1>14. Numbered'
  BY <1>3, <1>12 DEF ClientInv, Numbered, n
<1>15. Truthful'
  <2>1. SUFFICES ASSUME NEW a \in Due'
                 PROVE  /\ pc \in {"next", "send", "await"} => a.id <= id
                        /\ pc = "await" /\ a.id = id =>
                             /\ ~Pending'
                             /\ a.result = "ok" /\ Head(todo).method \in Effects => HasBeen
                             /\ a.result = "disconnected" => NotYet
    BY <1>3, <1>9 DEF Truthful
  <2>2. CASE a \in Due
    BY <1>11, <2>2 DEF ClientInv, Truthful
  <2>3. CASE a = a0
    <3>1. 1 \in 1..Len(requests) /\ a.id = requests[1].id
      BY <1>4, <1>5, <2>3 DEF n
    <3>2. pc \in {"next", "send", "await"} => a.id <= id
      BY <3>1 DEF ClientInv, Numbered
    <3>3. pc = "await" => a.id # id
      <4>1. SUFFICES ASSUME pc = "await", a.id = id PROVE FALSE
        OBVIOUS
      <4>2. Head(todo).method = "typed" /\ todo # <<>>
        BY <1>1, <1>4, <3>1, <4>1 DEF ClientInv, Numbered
      <4>3. Head(todo).method \in Methods
        BY <4>2, FirstStep DEF StepSet
      <4>4. QED
        BY <1>7, <4>2, <4>3
    <3>4. QED
      BY <3>2, <3>3
  <2>4. QED
    BY <1>6, <2>2, <2>3
<1>16. Complete'
  BY <1>3, <1>9 DEF ClientInv, Complete
<1>17. QED
  BY <1>8, <1>10, <1>13, <1>14, <1>15, <1>16 DEF ClientInv

\* An answer goes out.
LEMMA ReplyStep == ClientInv /\ Reply => ClientInv'
<1> SUFFICES ASSUME ClientInv, Reply PROVE ClientInv'
  OBVIOUS
<1>1. PICK a \in serving : inbox' = Append(inbox, a) /\ serving' = serving \ {a}
  BY DEF Reply
<1>2. UNCHANGED <<cmd, todo, id, outcome, taken, pc, requests, cursor, produced, done>>
  BY DEF Reply, ours
<1>3. a \in AnswerSet /\ inbox \in Seq(AnswerSet \cup NewsSet)
  BY <1>1 DEF ClientInv, ClientTyped
<1>4. /\ inbox' \in Seq(AnswerSet \cup NewsSet) /\ Len(inbox') = Len(inbox) + 1
      /\ \A i \in 1..Len(inbox) : inbox'[i] = inbox[i]
      /\ inbox'[Len(inbox) + 1] = a
  BY <1>1, <1>3, AppendProperties
<1>5. Due' \subseteq Due
  <2>1. \A e \in Range(inbox') : e \in Range(inbox) \/ e = a
    BY <1>3, <1>4 DEF Range
  <2>2. QED
    BY <1>1, <2>1 DEF Due
<1>6. ClientTyped'
  BY <1>1, <1>2, <1>4 DEF ClientInv, ClientTyped
<1>7. QED
  BY <1>2, <1>5, <1>6, Quiet

\* A notification goes out, and is no answer.
LEMMA NotifyStep == ClientInv /\ Notify => ClientInv'
<1> SUFFICES ASSUME ClientInv, Notify PROVE ClientInv'
  OBVIOUS
<1>1. PICK hi \in cursor + 1 .. produced : \E kind \in {"data", "lag"} :
        inbox' = Append(inbox, Message(kind, cursor, hi)) /\ cursor' = hi
  BY DEF Notify
<1>2. PICK kind \in {"data", "lag"} :
        inbox' = Append(inbox, Message(kind, cursor, hi)) /\ cursor' = hi
  BY <1>1
<1>3. UNCHANGED <<cmd, todo, id, outcome, taken, pc, requests, serving, produced, done>>
  BY DEF Notify, ours
<1>4. cursor \in Nat /\ produced \in Nat /\ inbox \in Seq(AnswerSet \cup NewsSet) /\ hi \in Nat
  BY DEF ClientInv, ClientTyped
<1> DEFINE a == Message(kind, cursor, hi)
<1>5. a \in NewsSet /\ a.kind # "answer"
  BY <1>4 DEF Message, NewsSet
<1> HIDE DEF a
<1>6. /\ inbox' \in Seq(AnswerSet \cup NewsSet) /\ Len(inbox') = Len(inbox) + 1
      /\ \A i \in 1..Len(inbox) : inbox'[i] = inbox[i]
      /\ inbox'[Len(inbox) + 1] = a
  <2>1. inbox' = Append(inbox, a) /\ a \in AnswerSet \cup NewsSet
    BY <1>2, <1>5 DEF a
  <2>2. QED
    BY <1>4, <2>1, AppendProperties
<1>7. Due' \subseteq Due
  <2>1. \A e \in Range(inbox') : e \in Range(inbox) \/ e = a
    BY <1>4, <1>6 DEF Range
  <2>2. QED
    BY <1>3, <1>5, <2>1 DEF Due
<1>8. ClientTyped'
  BY <1>2, <1>3, <1>4, <1>6 DEF ClientInv, ClientTyped
<1>9. QED
  BY <1>3, <1>7, <1>8, Quiet

\* A message is read that is no answer to a call.
LEMMA ReadsStep == ClientInv /\ (Skip \/ TailReads \/ BridgeReads) => ClientInv'
<1> SUFFICES ASSUME ClientInv, Skip \/ TailReads \/ BridgeReads PROVE ClientInv'
  OBVIOUS
<1>1. /\ inbox # <<>> /\ inbox' = Tail(inbox)
      /\ UNCHANGED <<ours, theirs, pc, link, requests, typed>>
  BY DEF Skip, TailReads, BridgeReads
<1>2. UNCHANGED <<cmd, todo, id, outcome, taken, serving, cursor, produced, done>>
  BY <1>1 DEF ours, theirs
<1>3. Due' \subseteq Due /\ inbox' \in Seq(AnswerSet \cup NewsSet)
  BY <1>1, <1>2, DueRead DEF ClientInv
<1>4. ClientTyped'
  BY <1>1, <1>2, <1>3 DEF ClientInv, ClientTyped
<1>5. QED
  BY <1>1, <1>2, <1>3, <1>4, Quiet

\* The device, the tool, the network and the far end of the pty.
LEMMA OthersStep ==
  ClientInv /\ (BridgeWrites \/ BridgeDrops \/ ToolTypes \/ DeviceSends \/ LoseDaemon \/ UNCHANGED vars)
    => ClientInv'
<1> SUFFICES ASSUME ClientInv,
                    BridgeWrites \/ BridgeDrops \/ ToolTypes \/ DeviceSends \/ LoseDaemon \/ UNCHANGED vars
             PROVE  ClientInv'
  OBVIOUS
<1>1. UNCHANGED <<ours, pc, requests, serving, inbox, done, cursor>>
  BY DEF BridgeWrites, BridgeDrops, ToolTypes, DeviceSends, LoseDaemon, theirs, ours, vars
<1>2. UNCHANGED <<cmd, todo, id, outcome, taken>> /\ Due' = Due
  BY <1>1 DEF ours, Due
<1>3. produced' = produced \/ produced' = produced + 1
  BY DEF BridgeWrites, BridgeDrops, ToolTypes, DeviceSends, LoseDaemon, theirs, vars
<1>4. produced' \in Nat
  BY <1>3 DEF ClientInv, ClientTyped
<1>5. ClientTyped'
  BY <1>1, <1>2, <1>4 DEF ClientInv, ClientTyped
<1>6. QED
  BY <1>1, <1>2, <1>5, Quiet

\* A stream ends.
LEMMA StreamEndsStep == ClientInv /\ (BridgeEnds \/ StreamEof) => ClientInv'
<1> SUFFICES ASSUME ClientInv, BridgeEnds \/ StreamEof PROVE ClientInv'
  OBVIOUS
<1>1. /\ pc \in Streaming /\ pc' = "over" /\ outcome' \in {"ok", "failed"}
      /\ UNCHANGED <<theirs, cmd, todo, id, taken, requests, inbox>>
  BY DEF BridgeEnds, StreamEof, End, Streaming
<1>2. UNCHANGED <<serving, cursor, produced, done>>
  BY <1>1 DEF theirs
<1>3. todo = <<>> /\ NotYet
  BY <1>1 DEF ClientInv, Complete
<1>4. ClientTyped'
  BY <1>1, <1>2 DEF ClientInv, ClientTyped
<1>5. QED
  BY <1>1, <1>2, <1>3, <1>4, Over

\* The tool's bytes go out, or nowhere.
LEMMA BridgeTakesStep == ClientInv /\ BridgeTakes => ClientInv'
<1> SUFFICES ASSUME ClientInv, BridgeTakes PROVE ClientInv'
  OBVIOUS
<1>1. PICK n \in 1..MaxChunk :
        /\ taken + n <= typed /\ taken' = taken + n
        /\ \/ cmd.read_only /\ UNCHANGED <<id, requests, pc, outcome>>
           \/ /\ ~cmd.read_only /\ link # "closed"
              /\ requests' = Append(requests, Request("typed", [i \in 1..n |-> taken + i - 1]))
              /\ id' = id + 1 /\ UNCHANGED <<pc, outcome>>
           \/ ~cmd.read_only /\ link = "closed" /\ End("failed") /\ UNCHANGED <<id, requests>>
  BY DEF BridgeTakes
<1>2. pc = "bridge" /\ UNCHANGED <<theirs, cmd, todo, inbox>>
  BY DEF BridgeTakes
<1>3. UNCHANGED <<serving, cursor, produced, done>> /\ Due' = Due
  BY <1>2 DEF theirs, Due
<1>4. taken \in Nat /\ taken' \in Nat /\ id \in Nat
  BY <1>1 DEF ClientInv, ClientTyped
<1>5. todo = <<>> /\ NotYet /\ ~Pending
  BY <1>2 DEF ClientInv, Complete, Streaming, EffectsAwaited
<1>6. CASE UNCHANGED <<id, requests, pc, outcome>>
  <2>1. ClientTyped'
    BY <1>2, <1>3, <1>4, <1>6 DEF ClientInv, ClientTyped
  <2>2. QED
    BY <1>2, <1>3, <1>6, <2>1, Quiet
<1>7. CASE End("failed") /\ UNCHANGED <<id, requests>>
  <2>1. pc' = "over" /\ outcome' = "failed"
    BY <1>7 DEF End
  <2>2. ClientTyped'
    BY <1>2, <1>3, <1>4, <1>7, <2>1 DEF ClientInv, ClientTyped
  <2>3. QED
    BY <1>2, <1>3, <1>7, <2>1, <2>2, Over
<1>8. CASE /\ requests' = Append(requests, Request("typed", [i \in 1..n |-> taken + i - 1]))
           /\ id' = id + 1 /\ UNCHANGED <<pc, outcome>>
  <2> DEFINE d == [i \in 1..n |-> taken + i - 1]
  <2>1. d \in Seq(Nat)
    BY <1>4
  <2> HIDE DEF d
  <2> DEFINE r == Request("typed", d)
  <2>2. r \in RequestSet /\ r.method = "typed" /\ requests' = Append(requests, r)
    BY <1>4, <1>8, <2>1 DEF Request, RequestSet, d
  <2> HIDE DEF r
  <2>3. requests \in Seq(RequestSet)
    BY DEF ClientInv, ClientTyped
  <2>4. /\ requests' \in Seq(RequestSet) /\ requests' # <<>>
        /\ Len(requests') = Len(requests) + 1 /\ Len(requests) \in Nat
        /\ \A i \in 1..Len(requests) : requests'[i] = requests[i]
        /\ requests'[Len(requests) + 1] = r
    BY <2>2, <2>3, Asked
  <2>5. "typed" \notin Effects
    BY DEF Effects, Lines
  <2>6. \A i \in 1..Len(requests) : requests[i].method \notin Effects
    BY <1>5, <2>3 DEF ClientInv, EffectsAwaited, Pending
  <2>7. \A i \in 1..Len(requests') : requests'[i].method \notin Effects
    BY <2>2, <2>4, <2>5, <2>6
  <2>8. ~Pending'
    BY <2>4, <2>7 DEF Pending
  <2>9. ClientTyped'
    BY <1>2, <1>3, <1>4, <1>8, <2>4 DEF ClientInv, ClientTyped
  <2>10. Wanted' = Wanted /\ (NotYet <=> NotYet') /\ (HasBeen <=> HasBeen')
    BY <1>2, <1>3, SameEffects
  <2>11. Progress'
    BY <1>3, <1>5, <2>10 DEF ClientInv, Progress
  <2>12. EffectsAwaited'
    BY <2>7, <2>8 DEF EffectsAwaited
  <2>13. Numbered' /\ Truthful'
    BY <1>2, <1>8 DEF Numbered, Truthful
  <2>14. Complete'
    BY <1>2, <1>5, <2>10 DEF Complete
  <2>15. QED
    BY <2>9, <2>11, <2>12, <2>13, <2>14 DEF ClientInv
<1>9. QED
  BY <1>1, <1>6, <1>7, <1>8

\* The invariant is kept.
LEMMA ClientKept == ClientInv /\ [Next]_vars => ClientInv'
BY CallStep, SendStep, NoPatternStep, FinishStep, ReturnOkStep, ReturnDisconnectedStep,
   ReturnErrorStep, ReturnClosedStep, ReturnTimeoutStep, StopProbingStep, NoAnswerStep, ReadsStep, OthersStep, StreamEndsStep,
   BridgeTakesStep, HandleStep, HandleTypedStep, ReplyStep, NotifyStep DEF Next, ClientStep

-----------------------------------------------------------------------------
(* Spans: what is on its way in one direction, as far as it is somebody's  *)
(* bytes.  N are the places of the messages that carry some, lo and hi the *)
(* first byte of each and the one past its last.                           *)

Spans(N, lo, hi, c) ==
  /\ N \in SUBSET Nat /\ lo \in [N -> Nat] /\ hi \in [N -> Nat] /\ c \in Nat
  /\ \A i \in N : lo[i] < hi[i] /\ hi[i] <= c
  /\ \A i, j \in N : i < j => hi[i] <= lo[j]

\* The first byte of the first message, or the one that is due if there is none.
Earliest(N, lo, c) == IF N # {} THEN lo[CHOOSE i \in N : \A j \in N : i <= j] ELSE c

\* A set of places has a first one.
LEMMA FirstPlace ==
  ASSUME NEW T \in SUBSET Nat, T # {}
  PROVE  \E x \in T : \A y \in T : x <= y
<1> DEFINE R == OpToRel(<, Nat)
<1>1. IsWellFoundedOn(R, Nat)
  BY NatLessThanWellFounded
<1>2. R = {ss \in Nat \X Nat : ss[1] < ss[2]}
  BY DEF OpToRel
<1> HIDE DEF R
<1>3. PICK x \in T : \A y \in T : ~ (<<y, x>> \in R)
  BY <1>1, WFMin
<1>4. ASSUME NEW y \in T PROVE x <= y
  <2>1. x \in Nat /\ y \in Nat /\ (y < x => <<y, x>> \in R)
    BY <1>2
  <2>2. QED
    BY <2>1, <1>3
<1>5. QED
  BY <1>4

\* It comes before everything.
LEMMA EarliestFirst ==
  ASSUME NEW N, NEW lo, NEW hi, NEW c, Spans(N, lo, hi, c)
  PROVE  /\ Earliest(N, lo, c) \in Nat /\ Earliest(N, lo, c) <= c
         /\ \A i \in N : Earliest(N, lo, c) <= lo[i]
         /\ N = {} => Earliest(N, lo, c) = c
         /\ N # {} => \E i \in N : Earliest(N, lo, c) = lo[i]
<1>1. CASE N = {}
  BY <1>1 DEF Earliest, Spans
<1>2. CASE N # {}
  <2> DEFINE k == CHOOSE i \in N : \A j \in N : i <= j
  <2>1. N \in SUBSET Nat
    BY DEF Spans
  <2>2. \E i \in N : \A j \in N : i <= j
    BY <1>2, <2>1, FirstPlace
  <2>3. k \in N /\ \A j \in N : k <= j
    BY <2>2
  <2>4. Earliest(N, lo, c) = lo[k]
    BY <1>2 DEF Earliest
  <2> HIDE DEF k
  <2>5. lo[k] \in Nat /\ hi[k] \in Nat /\ lo[k] < hi[k] /\ hi[k] <= c /\ c \in Nat
    BY <2>3 DEF Spans
  <2>6. ASSUME NEW i \in N PROVE lo[k] <= lo[i]
    <3>1. k = i \/ (k < i /\ hi[k] <= lo[i])
      BY <2>1, <2>3 DEF Spans
    <3>2. lo[i] \in Nat
      BY DEF Spans
    <3>3. QED
      BY <2>5, <3>1, <3>2
  <2>7. QED
    BY <1>2, <2>3, <2>4, <2>5, <2>6
<1>3. QED
  BY <1>1, <1>2

\* What comes before everything, and is there, is it.
LEMMA EarliestIs ==
  ASSUME NEW N, NEW lo, NEW hi, NEW c, Spans(N, lo, hi, c), NEW x \in Nat,
         \A i \in N : x <= lo[i],
         \/ N = {} /\ x = c
         \/ \E i \in N : x = lo[i]
  PROVE  Earliest(N, lo, c) = x
<1> DEFINE e == Earliest(N, lo, c)
<1>1. /\ e \in Nat /\ \A i \in N : e <= lo[i]
      /\ N = {} => e = c
      /\ N # {} => \E i \in N : e = lo[i]
  BY EarliestFirst
<1> HIDE DEF e
<1>2. CASE N = {}
  BY <1>1, <1>2 DEF e
<1>3. CASE N # {}
  <2>1. PICK i \in N : e = lo[i]
    BY <1>1, <1>3
  <2>2. PICK j \in N : x = lo[j]
    BY <1>3
  <2>3. x <= e /\ e <= x
    BY <1>1, <2>1, <2>2
  <2>4. QED
    BY <1>1, <2>3 DEF e
<1>4. QED
  BY <1>2, <1>3

\* The message at place 1 is taken.
Shifted(N, lo, hi, M, lm, hm) ==
  /\ M = {i \in Nat : i > 0 /\ i + 1 \in N} /\ 0 \notin N
  /\ lm \in [M -> Nat] /\ hm \in [M -> Nat]
  /\ \A i \in M : lm[i] = lo[i + 1] /\ hm[i] = hi[i + 1]

\* Then what it carries was the first, and the rest comes later.
LEMMA SpansTail ==
  ASSUME NEW N, NEW lo, NEW hi, NEW c, Spans(N, lo, hi, c),
         NEW M, NEW lm, NEW hm, Shifted(N, lo, hi, M, lm, hm)
  PROVE  /\ Spans(M, lm, hm, c)
         /\ 1 \notin N => Earliest(M, lm, c) = Earliest(N, lo, c)
         /\ 1 \in N => /\ Earliest(N, lo, c) = lo[1] /\ lo[1] \in Nat /\ hi[1] \in Nat /\ lo[1] < hi[1]
                       /\ hi[1] <= Earliest(M, lm, c)
                       /\ \A i \in M : hi[1] <= lm[i]
<1>1. /\ N \in SUBSET Nat /\ lo \in [N -> Nat] /\ hi \in [N -> Nat] /\ c \in Nat
      /\ \A i \in N : lo[i] < hi[i] /\ hi[i] <= c
      /\ \A i, j \in N : i < j => hi[i] <= lo[j]
  BY DEF Spans
<1>2. /\ M \in SUBSET Nat /\ lm \in [M -> Nat] /\ hm \in [M -> Nat]
      /\ M = {i \in Nat : i > 0 /\ i + 1 \in N} /\ 0 \notin N
      /\ \A i \in M : i \in Nat /\ i > 0 /\ i + 1 \in N /\ lm[i] = lo[i + 1] /\ hm[i] = hi[i + 1]
  BY <1>1 DEF Shifted
<1>3. \A i \in M : lm[i] < hm[i] /\ hm[i] <= c
  BY <1>1, <1>2
<1>4. ASSUME NEW i \in M, NEW j \in M, i < j PROVE hm[i] <= lm[j]
  <2>1. i + 1 < j + 1
    BY <1>2, <1>4
  <2>2. QED
    BY <1>1, <1>2, <2>1
<1>5. Spans(M, lm, hm, c)
  BY <1>1, <1>2, <1>3, <1>4 DEF Spans
<1> DEFINE e == Earliest(M, lm, c)
<1> HIDE DEF e
<1>6. /\ e \in Nat /\ e <= c /\ \A i \in M : e <= lm[i]
      /\ M = {} => e = c
      /\ M # {} => \E i \in M : e = lm[i]
  <2>1. /\ Earliest(M, lm, c) \in Nat /\ Earliest(M, lm, c) <= c
        /\ \A i \in M : Earliest(M, lm, c) <= lm[i]
        /\ M = {} => Earliest(M, lm, c) = c
        /\ M # {} => \E i \in M : Earliest(M, lm, c) = lm[i]
    BY ONLY <1>5, EarliestFirst
  <2>2. QED
    BY <2>1 DEF e
<1>7. ASSUME 1 \notin N PROVE Earliest(N, lo, c) = e
  <2>1. ASSUME NEW i \in N PROVE i - 1 \in M /\ lm[i - 1] = lo[i]
    <3>1. i \in Nat /\ i # 0 /\ i # 1
      BY <1>1, <1>2, <1>7
    <3>2. i - 1 \in Nat /\ i - 1 > 0 /\ (i - 1) + 1 = i
      BY <3>1
    <3>3. i - 1 \in M
      BY <1>2, <3>2
    <3>4. QED
      BY <1>2, <3>2, <3>3
  <2>2. \A i \in N : e <= lo[i]
    BY <1>6, <2>1
  <2>3. M = {} => N = {}
    BY <2>1
  <2>4. M # {} => \E i \in N : e = lo[i]
    BY <1>2, <1>6
  <2>5. M # {} \/ (N = {} /\ e = c)
    BY <1>6, <2>3
  <2>6. QED
    BY <1>6, <2>2, <2>4, <2>5, EarliestIs
<1>8. ASSUME 1 \in N
      PROVE  /\ Earliest(N, lo, c) = lo[1] /\ lo[1] \in Nat /\ hi[1] \in Nat /\ lo[1] < hi[1]
             /\ hi[1] <= e
             /\ \A i \in M : hi[1] <= lm[i]
  <2>1. lo[1] \in Nat /\ hi[1] \in Nat /\ lo[1] < hi[1] /\ hi[1] <= c
    BY <1>1, <1>8
  <2>2. ASSUME NEW i \in N PROVE lo[1] <= lo[i]
    <3>1. i \in Nat /\ i # 0 /\ lo[i] \in Nat
      BY <1>1, <1>2
    <3>2. i = 1 \/ hi[1] <= lo[i]
      BY <1>1, <1>8, <3>1
    <3>3. QED
      BY <2>1, <3>1, <3>2
  <2>3. Earliest(N, lo, c) = lo[1]
    BY <1>8, <2>1, <2>2, EarliestIs
  <2>4. ASSUME NEW i \in M PROVE hi[1] <= lm[i]
    <3>1. i \in Nat /\ i > 0 /\ i + 1 \in N /\ 1 < i + 1
      BY <1>2
    <3>2. QED
      BY <1>1, <1>2, <1>8, <3>1
  <2>5. hi[1] <= e
    BY <1>6, <2>1, <2>4
  <2>6. QED
    BY <2>1, <2>3, <2>4, <2>5
<1>9. QED
  BY <1>5, <1>7, <1>8 DEF e

\* A message is added at place n that carries what was due, from c up to d.
Extended(N, lo, hi, c, M, lm, hm, n, d) ==
  /\ n \in Nat /\ \A i \in N : i < n
  /\ M = N \cup {n} /\ lm \in [M -> Nat] /\ hm \in [M -> Nat]
  /\ lm[n] = c /\ hm[n] = d /\ \A i \in N : lm[i] = lo[i] /\ hm[i] = hi[i]

\* Then it is the last.
LEMMA SpansMore ==
  ASSUME NEW N, NEW lo, NEW hi, NEW c, Spans(N, lo, hi, c), NEW d \in Nat, c < d,
         NEW M, NEW lm, NEW hm, NEW n, Extended(N, lo, hi, c, M, lm, hm, n, d)
  PROVE  Spans(M, lm, hm, d) /\ Earliest(M, lm, d) = Earliest(N, lo, c)
<1>1. /\ N \in SUBSET Nat /\ lo \in [N -> Nat] /\ hi \in [N -> Nat] /\ c \in Nat
      /\ \A i \in N : lo[i] < hi[i] /\ hi[i] <= c
      /\ \A i, j \in N : i < j => hi[i] <= lo[j]
  BY DEF Spans
<1>2. /\ M \in SUBSET Nat /\ lm \in [M -> Nat] /\ hm \in [M -> Nat]
      /\ lm[n] = c /\ hm[n] = d /\ n \in M
      /\ \A i \in N : i \in M /\ i # n /\ i < n /\ lm[i] = lo[i] /\ hm[i] = hi[i]
      /\ \A i \in M : i \in N \/ i = n
  BY <1>1 DEF Extended
<1>3. \A i \in M : lm[i] < hm[i] /\ hm[i] <= d
  <2>1. TAKE i \in M
  <2>2. CASE i = n
    BY <1>1, <1>2, <2>2
  <2>3. CASE i \in N
    <3>1. lo[i] \in Nat /\ hi[i] \in Nat /\ lo[i] < hi[i] /\ hi[i] <= c
      BY <1>1, <2>3
    <3>2. QED
      BY <1>1, <1>2, <2>3, <3>1
  <2>4. QED
    BY <1>2, <2>2, <2>3
<1>4. ASSUME NEW i \in M, NEW j \in M, i < j PROVE hm[i] <= lm[j]
  <2>1. i \in N
    BY <1>1, <1>2, <1>4
  <2>2. QED
    BY <1>1, <1>2, <1>4, <2>1
<1>5. Spans(M, lm, hm, d)
  BY <1>1, <1>2, <1>3, <1>4 DEF Spans
<1> DEFINE e == Earliest(N, lo, c)
<1>6. /\ e \in Nat /\ e <= c /\ \A i \in N : e <= lo[i]
      /\ N = {} => e = c
      /\ N # {} => \E i \in N : e = lo[i]
  BY EarliestFirst
<1> HIDE DEF e
<1>7. \A i \in M : e <= lm[i]
  BY <1>2, <1>6
<1>8. \E i \in M : e = lm[i]
  BY <1>2, <1>6
<1>9. Earliest(M, lm, d) = e
  BY <1>5, <1>6, <1>7, <1>8, EarliestIs
<1>10. QED
  BY <1>5, <1>9 DEF e

\* What was due is passed over, up to d.
LEMMA SpansLater ==
  ASSUME NEW N, NEW lo, NEW hi, NEW c, Spans(N, lo, hi, c), NEW d \in Nat, c <= d
  PROVE  Spans(N, lo, hi, d) /\ Earliest(N, lo, c) <= Earliest(N, lo, d)
<1>1. /\ N \in SUBSET Nat /\ lo \in [N -> Nat] /\ hi \in [N -> Nat] /\ c \in Nat
      /\ \A i \in N : lo[i] < hi[i] /\ hi[i] <= c
      /\ \A i, j \in N : i < j => hi[i] <= lo[j]
  BY DEF Spans
<1>2. \A i \in N : hi[i] <= d
  <2>1. TAKE i \in N
  <2>2. hi[i] \in Nat /\ hi[i] <= c
    BY <1>1
  <2>3. QED
    BY <1>1, <2>2
<1>3. Spans(N, lo, hi, d)
  BY <1>1, <1>2 DEF Spans
<1>4. /\ Earliest(N, lo, c) \in Nat /\ Earliest(N, lo, c) <= c
      /\ N # {} => Earliest(N, lo, c) = Earliest(N, lo, d)
  BY EarliestFirst DEF Earliest
<1>5. Earliest(N, lo, d) \in Nat /\ (N = {} => Earliest(N, lo, d) = d)
  BY <1>3, EarliestFirst
<1>6. QED
  BY <1>1, <1>3, <1>4, <1>5

-----------------------------------------------------------------------------
(* The notifications, and the spans they carry.                            *)

\* The notifications with data on their way to the client.
NewsAt(q) == {i \in 1..Len(q) : q[i].kind = "data"}
NewsLo(q) == [i \in NewsAt(q) |-> q[i].lo]
NewsHi(q) == [i \in NewsAt(q) |-> q[i].hi]
NewsSpans(q, c) == Spans(NewsAt(q), NewsLo(q), NewsHi(q), c)
NewsFirst(q, c) == Earliest(NewsAt(q), NewsLo(q), c)

\* Messages that are data are notifications.
LEMMA NewsTyped ==
  ASSUME NEW q \in Seq(AnswerSet \cup NewsSet)
  PROVE  /\ DOMAIN q = 1..Len(q) /\ Len(q) \in Nat /\ NewsAt(q) \in SUBSET Nat /\ 0 \notin NewsAt(q)
         /\ \A i \in NewsAt(q) : /\ i \in 1..Len(q) /\ q[i] \in NewsSet /\ q[i].lo \in Nat /\ q[i].hi \in Nat
                                 /\ NewsLo(q)[i] = q[i].lo /\ NewsHi(q)[i] = q[i].hi
<1>1. DOMAIN q = 1..Len(q) /\ Len(q) \in Nat /\ NewsAt(q) \in SUBSET Nat /\ 0 \notin NewsAt(q)
  BY DEF NewsAt
<1>2. ASSUME NEW i \in NewsAt(q)
      PROVE  /\ i \in 1..Len(q) /\ q[i] \in NewsSet /\ q[i].lo \in Nat /\ q[i].hi \in Nat
             /\ NewsLo(q)[i] = q[i].lo /\ NewsHi(q)[i] = q[i].hi
  <2>1. i \in 1..Len(q) /\ q[i] \in AnswerSet \cup NewsSet /\ q[i].kind = "data"
    BY DEF NewsAt
  <2>2. q[i] \in NewsSet
    BY <2>1 DEF AnswerSet
  <2>3. QED
    BY <2>1, <2>2 DEF NewsSet, NewsLo, NewsHi
<1>3. QED
  BY <1>1, <1>2

\* The client reads a message.
LEMMA NewsRead ==
  ASSUME NEW q \in Seq(AnswerSet \cup NewsSet), q # <<>>, NEW c, NewsSpans(q, c)
  PROVE  /\ Tail(q) \in Seq(AnswerSet \cup NewsSet)
         /\ NewsSpans(Tail(q), c)
         /\ Head(q).kind # "data" => NewsFirst(Tail(q), c) = NewsFirst(q, c)
         /\ Head(q).kind = "data" =>
              /\ NewsFirst(q, c) = Head(q).lo
              /\ Head(q).lo \in Nat /\ Head(q).hi \in Nat /\ Head(q).lo < Head(q).hi
              /\ Head(q).hi <= NewsFirst(Tail(q), c)
              /\ \A i \in NewsAt(Tail(q)) : Head(q).hi <= Tail(q)[i].lo
         /\ \A i \in NewsAt(Tail(q)) : i + 1 \in NewsAt(q) /\ Tail(q)[i] = q[i + 1]
<1> DEFINE t == Tail(q)
<1>1. /\ t \in Seq(AnswerSet \cup NewsSet) /\ Len(q) \in Nat \ {0} /\ Len(t) = Len(q) - 1
      /\ Head(q) = q[1] /\ 1 \in 1..Len(q)
      /\ \A i \in 1 .. Len(q) - 1 : t[i] = q[i + 1]
  OBVIOUS
<1> HIDE DEF t
<1>2. NewsAt(t) = {i \in Nat : i > 0 /\ i + 1 \in NewsAt(q)}
  <2>1. ASSUME NEW i \in NewsAt(t) PROVE i \in Nat /\ i > 0 /\ i + 1 \in NewsAt(q)
    <3>1. i \in 1 .. Len(q) - 1 /\ t[i].kind = "data"
      BY <1>1, <2>1 DEF NewsAt
    <3>2. QED
      BY <1>1, <3>1 DEF NewsAt
  <2>2. ASSUME NEW i \in Nat, i > 0, i + 1 \in NewsAt(q) PROVE i \in NewsAt(t)
    <3>1. i + 1 \in 1..Len(q) /\ q[i + 1].kind = "data"
      BY <2>2 DEF NewsAt
    <3>2. i \in 1 .. Len(q) - 1
      BY <1>1, <2>2, <3>1
    <3>3. QED
      BY <1>1, <3>1, <3>2 DEF NewsAt
  <2>3. QED
    BY <2>1, <2>2
<1>3. \A i \in NewsAt(t) : i \in 1 .. Len(q) - 1 /\ i + 1 \in NewsAt(q) /\ t[i] = q[i + 1]
  BY <1>1, <1>2 DEF NewsAt
<1>4. /\ NewsAt(q) \in SUBSET Nat /\ 0 \notin NewsAt(q)
      /\ \A i \in NewsAt(q) : NewsLo(q)[i] = q[i].lo /\ NewsHi(q)[i] = q[i].hi
  BY NewsTyped
<1>5. /\ \A i \in NewsAt(t) : NewsLo(t)[i] = NewsLo(q)[i + 1] /\ NewsHi(t)[i] = NewsHi(q)[i + 1]
      /\ NewsLo(t) \in [NewsAt(t) -> Nat] /\ NewsHi(t) \in [NewsAt(t) -> Nat]
  <2>1. \A i \in NewsAt(t) : NewsLo(t)[i] = NewsLo(q)[i + 1] /\ NewsHi(t)[i] = NewsHi(q)[i + 1]
    BY <1>3, <1>4 DEF NewsLo, NewsHi
  <2>2. \A i \in NewsAt(t) : t[i].lo \in Nat /\ t[i].hi \in Nat
    BY <1>1, NewsTyped
  <2>3. QED
    BY <2>1, <2>2 DEF NewsLo, NewsHi
<1>6. /\ Spans(NewsAt(t), NewsLo(t), NewsHi(t), c)
      /\ 1 \notin NewsAt(q) =>
           Earliest(NewsAt(t), NewsLo(t), c) = Earliest(NewsAt(q), NewsLo(q), c)
      /\ 1 \in NewsAt(q) =>
           /\ Earliest(NewsAt(q), NewsLo(q), c) = NewsLo(q)[1]
           /\ NewsLo(q)[1] \in Nat /\ NewsHi(q)[1] \in Nat /\ NewsLo(q)[1] < NewsHi(q)[1]
           /\ NewsHi(q)[1] <= Earliest(NewsAt(t), NewsLo(t), c)
           /\ \A i \in NewsAt(t) : NewsHi(q)[1] <= NewsLo(t)[i]
  <2>1. Spans(NewsAt(q), NewsLo(q), NewsHi(q), c)
    BY DEF NewsSpans
  <2>2. Shifted(NewsAt(q), NewsLo(q), NewsHi(q), NewsAt(t), NewsLo(t), NewsHi(t))
    BY <1>2, <1>4, <1>5 DEF Shifted
  <2>3. QED
    BY ONLY <2>1, <2>2, SpansTail
<1>7. Head(q).kind = "data" <=> 1 \in NewsAt(q)
  BY <1>1 DEF NewsAt
<1>8. \A i \in NewsAt(t) : NewsLo(t)[i] = t[i].lo
  BY DEF NewsLo
<1>9. QED
  BY <1>1, <1>3, <1>4, <1>6, <1>7, <1>8 DEF NewsSpans, NewsFirst, t

\* A message is sent that carries no data.
LEMMA NewsOther ==
  ASSUME NEW q \in Seq(AnswerSet \cup NewsSet), NEW a \in AnswerSet \cup NewsSet, a.kind # "data"
  PROVE  /\ NewsAt(Append(q, a)) = NewsAt(q)
         /\ NewsLo(Append(q, a)) = NewsLo(q) /\ NewsHi(Append(q, a)) = NewsHi(q)
         /\ \A i \in NewsAt(q) : Append(q, a)[i] = q[i]
<1> DEFINE p == Append(q, a)
<1>1. /\ Len(p) = Len(q) + 1 /\ Len(q) \in Nat
      /\ \A i \in 1..Len(q) : p[i] = q[i]
      /\ p[Len(q) + 1] = a
  BY AppendProperties
<1> HIDE DEF p
<1>2. NewsAt(p) = NewsAt(q)
  BY <1>1 DEF NewsAt
<1>3. \A i \in NewsAt(q) : p[i] = q[i]
  BY <1>1 DEF NewsAt
<1>4. NewsLo(p) = NewsLo(q) /\ NewsHi(p) = NewsHi(q)
  BY <1>2, <1>3 DEF NewsLo, NewsHi
<1>5. QED
  BY <1>2, <1>3, <1>4 DEF p

\* What follows the cursor is sent.
LEMMA NewsSent ==
  ASSUME NEW q \in Seq(AnswerSet \cup NewsSet), NEW c \in Nat, NEW d \in Nat, c < d, NewsSpans(q, c)
  PROVE  LET p == Append(q, Message("data", c, d)) IN
         /\ NewsSpans(p, d) /\ NewsFirst(p, d) = NewsFirst(q, c)
         /\ \A i \in NewsAt(p) : (i \in NewsAt(q) /\ p[i] = q[i]) \/ p[i].lo = c
<1> DEFINE m == Message("data", c, d)
           p == Append(q, m)
<1>1. m \in AnswerSet \cup NewsSet /\ m.kind = "data" /\ m.lo = c /\ m.hi = d
  BY DEF Message, NewsSet
<1> HIDE DEF m
<1>2. /\ Len(p) = Len(q) + 1 /\ Len(q) \in Nat
      /\ \A i \in 1..Len(q) : p[i] = q[i]
      /\ p[Len(q) + 1] = m
  BY <1>1, AppendProperties
<1> DEFINE n == Len(q) + 1
<1>3. n \in Nat /\ Len(p) = n /\ p[n] = m /\ \A i \in 1 .. n - 1 : p[i] = q[i]
  BY <1>2
<1> HIDE DEF p
<1>4. NewsAt(q) = {i \in 1 .. n - 1 : q[i].kind = "data"} /\ n \in Nat /\ n > 0
  BY <1>2 DEF NewsAt
<1> HIDE DEF n
<1>5. /\ NewsAt(p) = NewsAt(q) \cup {n}
      /\ \A i \in NewsAt(q) : i < n /\ p[i] = q[i]
  BY <1>1, <1>3, <1>4 DEF NewsAt
<1>6. /\ NewsLo(p) \in [NewsAt(p) -> Nat] /\ NewsHi(p) \in [NewsAt(p) -> Nat]
      /\ NewsLo(p)[n] = c /\ NewsHi(p)[n] = d
      /\ \A i \in NewsAt(q) : NewsLo(p)[i] = NewsLo(q)[i] /\ NewsHi(p)[i] = NewsHi(q)[i]
  <2>1. p \in Seq(AnswerSet \cup NewsSet)
    BY <1>1 DEF p
  <2>2. \A i \in NewsAt(p) : p[i].lo \in Nat /\ p[i].hi \in Nat
    BY <2>1, NewsTyped
  <2>3. NewsLo(p) \in [NewsAt(p) -> Nat] /\ NewsHi(p) \in [NewsAt(p) -> Nat]
    BY <2>2 DEF NewsLo, NewsHi
  <2>4. n \in NewsAt(p) /\ p[n] = m
    BY <1>3, <1>5
  <2>5. NewsLo(p)[n] = c /\ NewsHi(p)[n] = d
    BY <1>1, <2>4 DEF NewsLo, NewsHi
  <2>6. \A i \in NewsAt(q) : NewsLo(p)[i] = NewsLo(q)[i] /\ NewsHi(p)[i] = NewsHi(q)[i]
    BY <1>5 DEF NewsLo, NewsHi
  <2>7. QED
    BY <2>3, <2>5, <2>6
<1>7. \A i \in NewsAt(q) : i < n
  BY <1>5
<1>8. Spans(NewsAt(q), NewsLo(q), NewsHi(q), c)
  BY DEF NewsSpans
<1>9. NewsAt(p) = NewsAt(q) \cup {n}
  BY <1>5
<1>10. /\ Spans(NewsAt(p), NewsLo(p), NewsHi(p), d)
       /\ Earliest(NewsAt(p), NewsLo(p), d) = Earliest(NewsAt(q), NewsLo(q), c)
  <2>1. c < d /\ c \in Nat /\ d \in Nat /\ n \in Nat
    BY <1>3
  <2>2. Extended(NewsAt(q), NewsLo(q), NewsHi(q), c, NewsAt(p), NewsLo(p), NewsHi(p), n, d)
    BY <1>6, <1>7, <1>9, <2>1 DEF Extended
  <2>3. QED
    BY ONLY <1>8, <2>1, <2>2, SpansMore
<1>11. \A i \in NewsAt(p) : (i \in NewsAt(q) /\ p[i] = q[i]) \/ p[i].lo = c
  BY <1>1, <1>3, <1>5
<1>12. QED
  BY <1>10, <1>11 DEF NewsSpans, NewsFirst, p, m

-----------------------------------------------------------------------------
(* Runs: bytes as they come out of a stream, one after another.            *)

\* Bytes in a row.
Run(d) == d # <<>> /\ \A k \in 1..Len(d) : d[k] = d[1] + k - 1

\* What has come out after s are bytes from f on, less than k of them, in order.
Longer(s, t, f, k) ==
  /\ t \in Seq(Nat) /\ Len(t) >= Len(s)
  /\ \A i \in 1..Len(s) : t[i] = s[i]
  /\ \A i \in Len(s) + 1 .. Len(t) : t[i] \in f .. f + k - 1
  /\ \A i, j \in Len(s) + 1 .. Len(t) : i < j => t[i] < t[j]

\* The first bytes of a run come out like that.
LEMMA RunComesOut ==
  ASSUME NEW s \in Seq(Nat), NEW d \in Seq(Nat), Run(d), NEW k \in 0..Len(d)
  PROVE  /\ Longer(s, s \o SubSeq(d, 1, k), d[1], k)
         /\ d[1] \in Nat /\ Len(d) \in Nat \ {0}
<1> DEFINE t == s \o SubSeq(d, 1, k)
<1>1. d[1] \in Nat /\ Len(d) \in Nat \ {0} /\ Len(s) \in Nat /\ \A i \in 1..Len(d) : d[i] = d[1] + i - 1
  BY DEF Run
<1> DEFINE u == SubSeq(d, 1, k)
<1>2. u \in Seq(Nat) /\ Len(u) = k /\ \A i \in 1..k : u[i] = d[i]
  BY <1>1
<1> HIDE DEF u, t
<1>3. /\ t \in Seq(Nat) /\ Len(t) = Len(s) + k
      /\ \A i \in 1..Len(s) : t[i] = s[i]
      /\ \A i \in 1..k : t[Len(s) + i] = u[i]
  <2>1. t = s \o u
    BY DEF u, t
  <2>2. /\ t \in Seq(Nat) /\ Len(t) = Len(s) + Len(u)
        /\ \A i \in 1 .. Len(s) + Len(u) : t[i] = IF i <= Len(s) THEN s[i] ELSE u[i - Len(s)]
    BY <1>2, <2>1, ConcatProperties
  <2>3. ASSUME NEW i \in 1..k PROVE t[Len(s) + i] = u[i]
    <3>1. PICK j \in Nat : j = Len(s) + i
      BY <1>1
    <3>2. j \in 1 .. Len(s) + Len(u) /\ ~(j <= Len(s)) /\ j - Len(s) = i
      BY <1>1, <1>2, <3>1
    <3>3. t[j] = u[j - Len(s)]
      BY <2>2, <3>2
    <3>4. QED
      BY <3>1, <3>2, <3>3
  <2>4. \A i \in 1..Len(s) : t[i] = s[i]
    BY SMTT(20), <1>1, <1>2, <2>2
  <2>5. QED
    BY <1>2, <2>2, <2>3, <2>4
<1> DEFINE n == Len(s)
           f == d[1]
<1>4. n \in Nat /\ f \in Nat /\ k \in Nat /\ Len(t) = n + k
  BY <1>1, <1>3
<1>5. ASSUME NEW i \in 1..k PROVE u[i] = f + i - 1
  <2>1. i \in 1..Len(d)
    BY <1>1
  <2>2. u[i] = d[i] /\ d[i] = d[1] + i - 1
    BY <1>1, <1>2, <2>1
  <2>3. QED
    BY <2>2
<1> HIDE DEF n, f
<1>6. ASSUME NEW i \in n + 1 .. n + k PROVE t[i] = f + (i - n) - 1
  <2>1. i - n \in 1..k /\ n + (i - n) = i
    BY <1>4
  <2>2. t[n + (i - n)] = u[i - n]
    BY <1>3, <2>1 DEF n
  <2>3. QED
    BY <1>5, <2>1, <2>2
<1>7. \A i \in n + 1 .. Len(t) : t[i] \in f .. f + k - 1
  <2>1. TAKE i \in n + 1 .. Len(t)
  <2>2. i \in n + 1 .. n + k /\ i \in Nat
    BY <1>4
  <2>3. t[i] = f + (i - n) - 1
    BY <1>6, <2>2
  <2>4. f + (i - n) - 1 \in f .. f + k - 1
    BY <1>4, <2>2
  <2>5. QED
    BY <2>3, <2>4
<1>8. ASSUME NEW i \in n + 1 .. Len(t), NEW j \in n + 1 .. Len(t), i < j PROVE t[i] < t[j]
  <2>1. i \in n + 1 .. n + k /\ j \in n + 1 .. n + k /\ i \in Nat /\ j \in Nat
    BY <1>4
  <2>2. t[i] = f + (i - n) - 1 /\ t[j] = f + (j - n) - 1
    BY <1>6, <2>1
  <2>3. QED
    BY <1>4, <1>8, <2>1, <2>2
<1>9. Len(t) >= n
  BY <1>4
<1>10. Longer(s, t, d[1], k)
  BY <1>3, <1>7, <1>8, <1>9 DEF n, f, Longer
<1>11. QED
  BY <1>1, <1>10 DEF t

\* What is left of it, a run or nothing.
Left(d, k) == SubSeq(d, k + 1, Len(d))

\* The others follow.
LEMMA RunLeft ==
  ASSUME NEW d \in Seq(Nat), Run(d), NEW k \in 1..Len(d)
  PROVE  /\ Left(d, k) \in Seq(Nat) /\ Len(Left(d, k)) = Len(d) - k /\ Len(d) \in Nat
         /\ k < Len(d) => Run(Left(d, k)) /\ Left(d, k)[1] = d[1] + k
         /\ k = Len(d) => Left(d, k) = <<>>
<1> DEFINE e == Left(d, k)
<1>e. e = SubSeq(d, k + 1, Len(d))
  BY DEF Left
<1> HIDE DEF e
<1>1. d[1] \in Nat /\ Len(d) \in Nat \ {0} /\ \A i \in 1..Len(d) : d[i] = d[1] + i - 1
  BY DEF Run
<1> DEFINE n == Len(d)
           f == d[1]
<1>2. /\ e \in Seq(Nat) /\ Len(e) = n - k
      /\ \A i \in 1 .. n - k : e[i] = d[k + i]
  <2>1. k + 1 \in 1 .. n + 1 /\ n \in Nat /\ k \in Nat
    BY <1>1
  <2>2. \A i \in 1 .. n - k : (k + 1) + i - 1 = k + i
    BY <2>1
  <2>3. e \in Seq(Nat) /\ Len(e) = n - k /\ \A i \in 1 .. n - k : e[i] = d[(k + 1) + i - 1]
    BY <2>1, <1>e
  <2>4. QED
    BY <2>2, <2>3
<1>3. n \in Nat /\ f \in Nat /\ k \in 1..n /\ \A i \in 1..n : d[i] = f + i - 1
  BY <1>1
<1> HIDE DEF n, f
<1>4. \A i \in 1 .. n - k : k + i \in 1..n
  BY <1>3
<1>5. ASSUME NEW i \in 1 .. n - k PROVE e[i] = f + (k + i) - 1
  <2>1. PICK j \in 1..n : j = k + i
    BY <1>4
  <2>2. e[i] = d[j] /\ d[j] = f + j - 1
    BY <1>2, <1>3, <2>1
  <2>3. QED
    BY <2>1, <2>2
<1>6. ASSUME k < n PROVE Run(e) /\ e[1] = f + k
  <2>1. 1 \in 1 .. n - k
    BY <1>3, <1>6
  <2>2. e[1] = f + (k + 1) - 1 /\ f + (k + 1) - 1 = f + k
    <3>1. e[1] = f + (k + 1) - 1
      BY ONLY <1>5, <2>1
    <3>2. f + (k + 1) - 1 = f + k
      BY <1>3
    <3>3. QED
      BY ONLY <3>1, <3>2
  <2>3. \A i \in 1..Len(e) : e[i] = e[1] + i - 1
    <3>1. TAKE i \in 1..Len(e)
    <3>2. i \in 1 .. n - k /\ i \in Nat
      BY <1>2, <1>3
    <3>3. e[i] = f + (k + i) - 1 /\ f + (k + i) - 1 = (f + k) + i - 1
      BY <1>3, <1>5, <3>2
    <3>4. QED
      BY <2>2, <3>3
  <2>4. e # <<>>
    <3>1. Len(e) # 0
      BY ONLY <1>2, <1>3, <1>6
    <3>2. QED
      BY ONLY <3>1
  <2>5. QED
    BY <2>2, <2>3, <2>4 DEF Run
<1>7. k = n => e = <<>>
  BY <1>2, <1>3, EmptySeq
<1>8. QED
  BY <1>2, <1>3, <1>6, <1>7 DEF n, f, e

\* The bytes of a message that carries some are such.
LEMMA NumbersRun ==
  ASSUME NEW m, m.lo \in Nat, m.hi \in Nat, m.lo < m.hi
  PROVE  /\ Numbers(m) \in Seq(Nat) /\ Run(Numbers(m))
         /\ Numbers(m)[1] = m.lo /\ Len(Numbers(m)) = m.hi - m.lo
<1>1. PICK lo \in Nat : m.lo = lo
  OBVIOUS
<1>2. PICK hi \in Nat : m.hi = hi
  OBVIOUS
<1> DEFINE d == [i \in 1 .. hi - lo |-> lo + i - 1]
<1>3. Numbers(m) = d
  BY <1>1, <1>2 DEF Numbers
<1>4. lo < hi /\ hi - lo \in Nat /\ 1 \in 1 .. hi - lo
  BY <1>1, <1>2
<1>5. \A i \in 1 .. hi - lo : lo + i - 1 \in Nat
  BY <1>4
<1>6. d \in Seq(Nat) /\ Len(d) = hi - lo /\ \A i \in 1 .. hi - lo : d[i] = lo + i - 1
  BY <1>4, <1>5
<1> HIDE DEF d
<1>7. d[1] = lo /\ d # <<>>
  BY <1>4, <1>6
<1>8. Run(d)
  BY <1>6, <1>7 DEF Run
<1>9. QED
  BY <1>1, <1>2, <1>3, <1>6, <1>7, <1>8

-----------------------------------------------------------------------------
(* The bridge's sends, and the spans they carry.                           *)

\* The bridge's sends on their way to the daemon.
SendsAt(q) == {i \in 1..Len(q) : q[i].method = "typed"}
SendsLo(q) == [i \in SendsAt(q) |-> q[i].data[1]]
SendsHi(q) == [i \in SendsAt(q) |-> q[i].data[1] + Len(q[i].data)]
SendsSpans(q, c) ==
  /\ \A i \in SendsAt(q) : Run(q[i].data)
  /\ Spans(SendsAt(q), SendsLo(q), SendsHi(q), c)
SendsFirst(q, c) == Earliest(SendsAt(q), SendsLo(q), c)

\* Each carries bytes.
LEMMA SendsTyped ==
  ASSUME NEW q \in Seq(RequestSet), \A i \in SendsAt(q) : Run(q[i].data)
  PROVE  /\ DOMAIN q = 1..Len(q) /\ Len(q) \in Nat /\ SendsAt(q) \in SUBSET Nat /\ 0 \notin SendsAt(q)
         /\ \A i \in SendsAt(q) : /\ i \in 1..Len(q) /\ q[i].data \in Seq(Nat) /\ q[i].data[1] \in Nat
                                  /\ Len(q[i].data) \in Nat
                                  /\ SendsLo(q)[i] = q[i].data[1]
                                  /\ SendsHi(q)[i] = q[i].data[1] + Len(q[i].data)
         /\ SendsLo(q) \in [SendsAt(q) -> Nat] /\ SendsHi(q) \in [SendsAt(q) -> Nat]
<1>1. DOMAIN q = 1..Len(q) /\ Len(q) \in Nat /\ SendsAt(q) \in SUBSET Nat /\ 0 \notin SendsAt(q)
  BY DEF SendsAt
<1>2. ASSUME NEW i \in SendsAt(q)
      PROVE  /\ i \in 1..Len(q) /\ q[i].data \in Seq(Nat) /\ q[i].data[1] \in Nat
             /\ Len(q[i].data) \in Nat
             /\ q[i].data[1] + Len(q[i].data) \in Nat
             /\ SendsLo(q)[i] = q[i].data[1]
             /\ SendsHi(q)[i] = q[i].data[1] + Len(q[i].data)
  <2>1. i \in 1..Len(q) /\ q[i] \in RequestSet
    BY DEF SendsAt
  <2>2. q[i].data \in Seq(Nat) /\ q[i].data # <<>>
    BY <2>1 DEF RequestSet, Run
  <2>3. PICK d \in Seq(Nat) : q[i].data = d
    BY <2>2
  <2>4. d[1] \in Nat /\ Len(d) \in Nat /\ d[1] + Len(d) \in Nat
    BY <2>2, <2>3
  <2>5. QED
    BY <2>1, <2>2, <2>3, <2>4 DEF SendsLo, SendsHi
<1>3. SendsLo(q) \in [SendsAt(q) -> Nat] /\ SendsHi(q) \in [SendsAt(q) -> Nat]
  BY <1>2 DEF SendsLo, SendsHi
<1>4. QED
  BY <1>1, <1>2, <1>3

\* The daemon takes up a request.
LEMMA SendsRead ==
  ASSUME NEW q \in Seq(RequestSet), q # <<>>, NEW c, SendsSpans(q, c)
  PROVE  /\ Tail(q) \in Seq(RequestSet)
         /\ SendsSpans(Tail(q), c)
         /\ Head(q).method # "typed" => SendsFirst(Tail(q), c) = SendsFirst(q, c)
         /\ Head(q).method = "typed" =>
              /\ Head(q).data \in Seq(Nat) /\ Run(Head(q).data)
              /\ SendsFirst(q, c) = Head(q).data[1]
              /\ Head(q).data[1] + Len(Head(q).data) <= SendsFirst(Tail(q), c)
<1> DEFINE t == Tail(q)
<1>1. /\ t \in Seq(RequestSet) /\ Len(q) \in Nat \ {0} /\ Len(t) = Len(q) - 1
      /\ Head(q) = q[1] /\ 1 \in 1..Len(q)
      /\ \A i \in 1 .. Len(q) - 1 : t[i] = q[i + 1]
  OBVIOUS
<1> HIDE DEF t
<1>2. SendsAt(t) = {i \in Nat : i > 0 /\ i + 1 \in SendsAt(q)}
  <2>1. ASSUME NEW i \in SendsAt(t) PROVE i \in Nat /\ i > 0 /\ i + 1 \in SendsAt(q)
    <3>1. i \in 1 .. Len(q) - 1 /\ t[i].method = "typed"
      BY <1>1, <2>1 DEF SendsAt
    <3>2. QED
      BY <1>1, <3>1 DEF SendsAt
  <2>2. ASSUME NEW i \in Nat, i > 0, i + 1 \in SendsAt(q) PROVE i \in SendsAt(t)
    <3>1. i + 1 \in 1..Len(q) /\ q[i + 1].method = "typed"
      BY <2>2 DEF SendsAt
    <3>2. i \in 1 .. Len(q) - 1
      BY <1>1, <2>2, <3>1
    <3>3. QED
      BY <1>1, <3>1, <3>2 DEF SendsAt
  <2>3. QED
    BY <2>1, <2>2
<1>3. \A i \in SendsAt(t) : i \in 1 .. Len(q) - 1 /\ i + 1 \in SendsAt(q) /\ t[i] = q[i + 1]
  BY <1>1, <1>2 DEF SendsAt
<1>4. \A i \in SendsAt(q) : Run(q[i].data)
  BY DEF SendsSpans
<1>5. \A i \in SendsAt(t) : Run(t[i].data)
  BY <1>3, <1>4
<1>6. /\ 0 \notin SendsAt(q)
      /\ \A i \in SendsAt(q) : /\ SendsLo(q)[i] = q[i].data[1]
                               /\ SendsHi(q)[i] = q[i].data[1] + Len(q[i].data)
      /\ \A i \in SendsAt(q) : q[i].data \in Seq(Nat)
  BY <1>4, SendsTyped
<1>7. /\ SendsLo(t) \in [SendsAt(t) -> Nat] /\ SendsHi(t) \in [SendsAt(t) -> Nat]
      /\ \A i \in SendsAt(t) : /\ SendsLo(t)[i] = t[i].data[1]
                               /\ SendsHi(t)[i] = t[i].data[1] + Len(t[i].data)
  BY <1>1, <1>5, SendsTyped
<1>8. Shifted(SendsAt(q), SendsLo(q), SendsHi(q), SendsAt(t), SendsLo(t), SendsHi(t))
  <2>1. ASSUME NEW i \in SendsAt(t)
        PROVE  SendsLo(t)[i] = SendsLo(q)[i + 1] /\ SendsHi(t)[i] = SendsHi(q)[i + 1]
    <3>1. i + 1 \in SendsAt(q) /\ t[i] = q[i + 1]
      BY <1>3
    <3>2. /\ SendsLo(t)[i] = t[i].data[1] /\ SendsHi(t)[i] = t[i].data[1] + Len(t[i].data)
          /\ SendsLo(q)[i + 1] = q[i + 1].data[1]
          /\ SendsHi(q)[i + 1] = q[i + 1].data[1] + Len(q[i + 1].data)
      BY <1>6, <1>7, <3>1
    <3>3. QED
      BY <3>1, <3>2
  <2>2. QED
    BY <1>2, <1>6, <1>7, <2>1 DEF Shifted
<1>9. Spans(SendsAt(q), SendsLo(q), SendsHi(q), c)
  BY DEF SendsSpans
<1>10. /\ Spans(SendsAt(t), SendsLo(t), SendsHi(t), c)
       /\ 1 \notin SendsAt(q) =>
            Earliest(SendsAt(t), SendsLo(t), c) = Earliest(SendsAt(q), SendsLo(q), c)
       /\ 1 \in SendsAt(q) =>
            /\ Earliest(SendsAt(q), SendsLo(q), c) = SendsLo(q)[1]
            /\ SendsHi(q)[1] <= Earliest(SendsAt(t), SendsLo(t), c)
  BY ONLY <1>8, <1>9, SpansTail
<1>11. Head(q).method = "typed" <=> 1 \in SendsAt(q)
  BY <1>1 DEF SendsAt
<1>12. QED
  BY <1>1, <1>4, <1>5, <1>6, <1>10, <1>11 DEF SendsSpans, SendsFirst, t

\* A request is made that is none of the bridge's.
LEMMA SendsOther ==
  ASSUME NEW q \in Seq(RequestSet), NEW a \in RequestSet, a.method # "typed",
         NEW c, SendsSpans(q, c)
  PROVE  SendsSpans(Append(q, a), c) /\ SendsFirst(Append(q, a), c) = SendsFirst(q, c)
<1> DEFINE p == Append(q, a)
<1>1. /\ Len(p) = Len(q) + 1 /\ Len(q) \in Nat
      /\ \A i \in 1..Len(q) : p[i] = q[i]
      /\ p[Len(q) + 1] = a
  BY AppendProperties
<1> HIDE DEF p
<1>2. SendsAt(p) = SendsAt(q)
  BY <1>1 DEF SendsAt
<1>3. \A i \in SendsAt(q) : p[i] = q[i]
  BY <1>1 DEF SendsAt
<1>4. SendsLo(p) = SendsLo(q) /\ SendsHi(p) = SendsHi(q)
  BY <1>2, <1>3 DEF SendsLo, SendsHi
<1>5. QED
  BY <1>2, <1>3, <1>4 DEF SendsSpans, SendsFirst, p

\* The bridge sends what it has read.
LEMMA SendsMore ==
  ASSUME NEW q \in Seq(RequestSet), NEW c \in Nat, NEW n \in Nat \ {0},
         NEW a \in RequestSet, a.method = "typed", a.data = [i \in 1..n |-> c + i - 1],
         SendsSpans(q, c)
  PROVE  SendsSpans(Append(q, a), c + n) /\ SendsFirst(Append(q, a), c + n) = SendsFirst(q, c)
<1> DEFINE p == Append(q, a)
           l == Len(q) + 1
           d == [i \in 1..n |-> c + i - 1]
<1>1. /\ p \in Seq(RequestSet) /\ l \in Nat /\ Len(p) = l
      /\ \A i \in 1 .. l - 1 : p[i] = q[i]
      /\ p[l] = a
      /\ SendsAt(q) = {i \in 1 .. l - 1 : q[i].method = "typed"} /\ l > 0
  BY AppendProperties DEF SendsAt
<1>2. /\ d \in Seq(Nat) /\ Len(d) = n /\ d[1] = c /\ d # <<>>
      /\ \A k \in 1..n : d[k] = c + k - 1
  OBVIOUS
<1> HIDE DEF p, l, d
<1>3. Run(d) /\ a.data = d
  BY <1>2 DEF Run, d
<1>4. SendsAt(p) = SendsAt(q) \cup {l} /\ \A i \in SendsAt(q) : i < l /\ p[i] = q[i]
  BY <1>1 DEF SendsAt
<1>5. \A i \in SendsAt(q) : Run(q[i].data)
  BY DEF SendsSpans
<1>6. \A i \in SendsAt(p) : Run(p[i].data)
  BY <1>1, <1>3, <1>4, <1>5
<1>7. \A i \in SendsAt(q) : /\ SendsLo(q)[i] = q[i].data[1]
                            /\ SendsHi(q)[i] = q[i].data[1] + Len(q[i].data)
  BY DEF SendsLo, SendsHi
<1>8. /\ SendsLo(p) \in [SendsAt(p) -> Nat] /\ SendsHi(p) \in [SendsAt(p) -> Nat]
      /\ \A i \in SendsAt(p) : /\ SendsLo(p)[i] = p[i].data[1]
                               /\ SendsHi(p)[i] = p[i].data[1] + Len(p[i].data)
  BY <1>1, <1>6, SendsTyped
<1>9. SendsLo(p)[l] = c /\ SendsHi(p)[l] = c + n
  BY <1>1, <1>2, <1>3, <1>4, <1>8
<1>10. \A i \in SendsAt(q) : SendsLo(p)[i] = SendsLo(q)[i] /\ SendsHi(p)[i] = SendsHi(q)[i]
  BY <1>4, <1>7, <1>8
<1>11. Extended(SendsAt(q), SendsLo(q), SendsHi(q), c, SendsAt(p), SendsLo(p), SendsHi(p), l, c + n)
  BY <1>1, <1>4, <1>8, <1>9, <1>10 DEF Extended
<1>12. Spans(SendsAt(q), SendsLo(q), SendsHi(q), c) /\ c < c + n /\ c + n \in Nat
  BY DEF SendsSpans
<1>13. /\ Spans(SendsAt(p), SendsLo(p), SendsHi(p), c + n)
       /\ Earliest(SendsAt(p), SendsLo(p), c + n) = Earliest(SendsAt(q), SendsLo(q), c)
  BY ONLY <1>11, <1>12, SpansMore
<1>14. QED
  BY <1>6, <1>13 DEF SendsSpans, SendsFirst, p

-----------------------------------------------------------------------------
(* The bytes on their way to the terminal or the tool.                     *)

\* Notifications come in the order of the stream, and are behind the cursor.
NewsInv == cursor <= produced /\ NewsSpans(inbox, cursor)

\* What the bridge has in hand comes before all that is on its way.
HandInv ==
  /\ hand \in Seq(Nat) /\ shown \in Seq(Nat)
  /\ pc \notin {"bridge", "over"} => hand = <<>>
  /\ hand # <<>> => /\ Run(hand) /\ hand[1] + Len(hand) <= cursor
                    /\ \A i \in NewsAt(inbox) : hand[1] + Len(hand) <= inbox[i].lo

\* Before the attach there is nothing.
FreshInv == ~attached => cursor = 0 /\ hand = <<>> /\ NewsAt(inbox) = {}

DownInv == ClientTyped /\ NewsInv /\ HandInv /\ FreshInv

ShownFrom(h, q, c) ==
  LET news == {i \in DOMAIN q : q[i].kind = "data"} IN
  IF h # <<>> THEN Head(h)
  ELSE IF news # {} THEN q[CHOOSE i \in news : \A j \in news : i <= j].lo
  ELSE c

\* The first byte that is neither shown nor lost, by what is on its way.
LEMMA ShownFromIs ==
  ASSUME NEW h \in Seq(Nat), NEW q \in Seq(AnswerSet \cup NewsSet), NEW c
  PROVE  ShownFrom(h, q, c) = IF h # <<>> THEN h[1] ELSE NewsFirst(q, c)
<1>1. DOMAIN q = 1..Len(q) /\ NewsAt(q) \in SUBSET Nat
  BY NewsTyped
<1>2. {i \in DOMAIN q : q[i].kind = "data"} = NewsAt(q)
  BY <1>1 DEF NewsAt
<1> DEFINE k == CHOOSE i \in NewsAt(q) : \A j \in NewsAt(q) : i <= j
<1>3. ShownFrom(h, q, c) = IF h # <<>> THEN Head(h) ELSE IF NewsAt(q) # {} THEN q[k].lo ELSE c
  <2> DEFINE F(N) == IF h # <<>> THEN Head(h)
                     ELSE IF N # {} THEN q[CHOOSE i \in N : \A j \in N : i <= j].lo
                     ELSE c
  <2>1. ShownFrom(h, q, c) = F({i \in DOMAIN q : q[i].kind = "data"})
    BY DEF ShownFrom
  <2>2. F(NewsAt(q)) = IF h # <<>> THEN Head(h) ELSE IF NewsAt(q) # {} THEN q[k].lo ELSE c
    OBVIOUS
  <2> HIDE DEF F
  <2>3. F({i \in DOMAIN q : q[i].kind = "data"}) = F(NewsAt(q))
    BY <1>2
  <2>4. QED
    BY <2>1, <2>2, <2>3
<1>4. h # <<>> => Head(h) = h[1]
  OBVIOUS
<1>5. NewsAt(q) # {} => k \in NewsAt(q)
  BY <1>1, FirstPlace
<1>6. NewsFirst(q, c) = IF NewsAt(q) # {} THEN NewsLo(q)[k] ELSE c
  BY DEF NewsFirst, Earliest
<1> HIDE DEF k
<1>7. NewsAt(q) # {} => NewsLo(q)[k] = q[k].lo
  BY <1>5 DEF NewsLo
<1>8. QED
  BY <1>3, <1>4, <1>6, <1>7

\* It is not past the cursor.
LEMMA ShownBounds ==
  ASSUME NEW h \in Seq(Nat), NEW q \in Seq(AnswerSet \cup NewsSet), NEW c \in Nat, NewsSpans(q, c),
         h # <<>> => Run(h) /\ h[1] + Len(h) <= c
  PROVE  /\ ShownFrom(h, q, c) \in Nat /\ ShownFrom(h, q, c) <= c
         /\ NewsFirst(q, c) \in Nat /\ NewsFirst(q, c) <= c
         /\ \A i \in NewsAt(q) : NewsFirst(q, c) <= q[i].lo /\ q[i].lo \in Nat
         /\ h # <<>> => ShownFrom(h, q, c) = h[1] /\ h[1] \in Nat /\ Len(h) \in Nat \ {0}
         /\ h = <<>> => ShownFrom(h, q, c) = NewsFirst(q, c)
         /\ NewsAt(q) = {} => NewsFirst(q, c) = c
         /\ NewsAt(q) # {} => \E i \in NewsAt(q) : NewsFirst(q, c) = q[i].lo
<1>1. ShownFrom(h, q, c) = IF h # <<>> THEN h[1] ELSE NewsFirst(q, c)
  BY ShownFromIs
<1>2. Spans(NewsAt(q), NewsLo(q), NewsHi(q), c)
  BY DEF NewsSpans
<1>3. /\ NewsFirst(q, c) \in Nat /\ NewsFirst(q, c) <= c
      /\ \A i \in NewsAt(q) : NewsFirst(q, c) <= NewsLo(q)[i]
      /\ NewsAt(q) = {} => NewsFirst(q, c) = c
      /\ NewsAt(q) # {} => \E i \in NewsAt(q) : NewsFirst(q, c) = NewsLo(q)[i]
  BY <1>2, EarliestFirst DEF NewsFirst
<1>4. \A i \in NewsAt(q) : NewsLo(q)[i] = q[i].lo /\ q[i].lo \in Nat
  BY NewsTyped
<1>5. ASSUME h # <<>> PROVE h[1] \in Nat /\ Len(h) \in Nat \ {0} /\ h[1] <= c
  <2>1. h[1] \in Nat /\ Len(h) \in Nat \ {0}
    BY <1>5
  <2>2. PICK f \in Nat : h[1] = f
    BY <2>1
  <2>3. PICK n \in Nat : Len(h) = n
    BY <2>1
  <2>4. f + n <= c
    BY <1>5, <2>2, <2>3
  <2>5. QED
    BY <2>1, <2>2, <2>4
<1>6. QED
  BY <1>1, <1>3, <1>4, <1>5

\* What the state says of it.
LEMMA ShownNow ==
  ASSUME DownInv
  PROVE  /\ ShownNext = ShownFrom(hand, inbox, cursor)
         /\ ShownNext \in Nat /\ ShownNext <= cursor /\ cursor \in Nat
         /\ cursor <= produced /\ produced \in Nat
         /\ NewsFirst(inbox, cursor) \in Nat /\ NewsFirst(inbox, cursor) <= cursor
         /\ \A i \in NewsAt(inbox) : NewsFirst(inbox, cursor) <= inbox[i].lo /\ inbox[i].lo \in Nat
         /\ hand # <<>> => ShownNext = hand[1] /\ hand[1] \in Nat /\ Len(hand) \in Nat \ {0}
         /\ hand = <<>> => ShownNext = NewsFirst(inbox, cursor)
         /\ NewsAt(inbox) = {} => NewsFirst(inbox, cursor) = cursor
         /\ NewsAt(inbox) # {} => \E i \in NewsAt(inbox) : NewsFirst(inbox, cursor) = inbox[i].lo
<1>1. /\ hand \in Seq(Nat) /\ inbox \in Seq(AnswerSet \cup NewsSet) /\ cursor \in Nat
      /\ NewsSpans(inbox, cursor) /\ cursor <= produced /\ produced \in Nat
      /\ hand # <<>> => Run(hand) /\ hand[1] + Len(hand) <= cursor
  BY DEF DownInv, ClientTyped, NewsInv, HandInv
<1>2. ShownNext = ShownFrom(hand, inbox, cursor)
  BY DEF ShownNext, ShownFrom
<1>3. QED
  BY <1>1, <1>2, ShownBounds

\* Nothing is shown; something may be lost.
LEMMA ShownRests ==
  ASSUME DownInv, produced' \in Nat, produced' >= produced, shown' = shown,
         ShownNext' \in Nat, ShownNext <= ShownNext', ShownNext' <= produced'
  PROVE  Shown!Next
<1>1. shown \in Seq(Nat) /\ ShownNext \in Nat
  BY ShownNow DEF DownInv, HandInv
<1>2. Shown!Comes
  BY <1>1 DEF Shown!Comes
<1>3. ShownNext' \in ShownNext .. produced'
  BY <1>1
<1>4. QED
  BY <1>1, <1>2, <1>3 DEF Shown!Next

\* A part of a run is shown.
LEMMA ShownComes ==
  ASSUME DownInv, produced' = produced, NEW d \in Seq(Nat), Run(d), NEW k \in 0..Len(d),
         shown' = shown \o SubSeq(d, 1, k), d[1] = ShownNext,
         ShownNext' \in Nat, d[1] + k <= ShownNext', ShownNext' <= produced
  PROVE  Shown!Next /\ shown' \in Seq(Nat)
<1>1. shown \in Seq(Nat) /\ ShownNext \in Nat /\ produced \in Nat
  BY ShownNow DEF DownInv, HandInv
<1>2. Longer(shown, shown', d[1], k) /\ Len(d) \in Nat
  BY <1>1, RunComesOut
<1> DEFINE t == shown'
<1> HIDE DEF t
<1>3. /\ t \in Seq(Nat) /\ Len(t) >= Len(shown)
      /\ \A i \in 1..Len(shown) : t[i] = shown[i]
      /\ \A i \in Len(shown) + 1 .. Len(t) : t[i] \in d[1] .. d[1] + k - 1
      /\ \A i, j \in Len(shown) + 1 .. Len(t) : i < j => t[i] < t[j]
      /\ Len(d) \in Nat
  BY <1>2 DEF t, Longer
<1>4. PICK f \in Nat : d[1] = f /\ ShownNext = f
  BY <1>1
<1>5. PICK g \in Nat : ShownNext' = g
  OBVIOUS
<1>6. f + k <= g /\ k \in Nat /\ g <= produced
  BY <1>3, <1>4, <1>5
<1>7. \A x \in f .. f + k - 1 : x \in f .. g - 1
  BY <1>6
<1>8. \A i \in Len(shown) + 1 .. Len(t) : t[i] \in f .. g - 1
  BY <1>3, <1>4, <1>7
<1>9. Shown!Comes
  BY <1>3, <1>4, <1>5, <1>8 DEF Shown!Comes, t
<1>10. g \in f .. produced
  BY <1>1, <1>6
<1>11. ShownNext' \in ShownNext .. produced'
  BY <1>4, <1>5, <1>10
<1>12. QED
  BY <1>1, <1>3, <1>9, <1>11 DEF Shown!Next, t

\* A step that is none of the stream's.
LEMMA DownSame ==
  ASSUME DownInv, ClientTyped', UNCHANGED <<inbox, hand, cursor, attached, shown>>,
         produced' \in {produced, produced + 1},
         pc' \notin {"bridge", "over"} => pc \notin {"bridge", "over"}
  PROVE  DownInv' /\ [Shown!Next]_<<produced, ShownNext, shown>>
<1>1. /\ ShownNext \in Nat /\ ShownNext <= cursor /\ cursor \in Nat
      /\ cursor <= produced /\ produced \in Nat
  BY ShownNow
<1>2. ShownNext' = ShownNext
  BY DEF ShownNext
<1>3. produced' \in Nat /\ produced' >= produced /\ cursor <= produced'
  BY <1>1
<1>4. NewsInv' /\ HandInv' /\ FreshInv'
  BY <1>3 DEF DownInv, NewsInv, HandInv, FreshInv
<1>5. ShownNext <= ShownNext' /\ ShownNext' <= produced' /\ ShownNext' \in Nat
  BY <1>1, <1>2, <1>3
<1>6. Shown!Next
  BY <1>3, <1>5, ShownRests
<1>7. QED
  BY <1>4, <1>6 DEF DownInv

\* A message is read and passed by.
LEMMA DownPasses ==
  ASSUME DownInv, ClientTyped', inbox # <<>>, inbox' = Tail(inbox), hand = <<>>,
         UNCHANGED <<hand, cursor, attached, produced, shown>>
  PROVE  DownInv' /\ [Shown!Next]_<<produced, ShownNext, shown>>
<1>1. /\ ShownNext = NewsFirst(inbox, cursor) /\ ShownNext \in Nat /\ ShownNext <= cursor
      /\ cursor \in Nat /\ cursor <= produced /\ produced \in Nat
  BY ShownNow
<1>2. inbox \in Seq(AnswerSet \cup NewsSet) /\ NewsSpans(inbox, cursor)
  BY DEF DownInv, ClientTyped, NewsInv
<1>3. /\ inbox' \in Seq(AnswerSet \cup NewsSet)
      /\ NewsSpans(inbox', cursor)
      /\ First.kind # "data" => NewsFirst(inbox', cursor) = NewsFirst(inbox, cursor)
      /\ First.kind = "data" =>
           /\ NewsFirst(inbox, cursor) = First.lo
           /\ First.lo \in Nat /\ First.hi \in Nat /\ First.lo < First.hi
           /\ First.hi <= NewsFirst(inbox', cursor)
      /\ \A i \in NewsAt(inbox') : i + 1 \in NewsAt(inbox)
  BY <1>2, NewsRead DEF First
<1>4. hand' = <<>> /\ hand' \in Seq(Nat)
  OBVIOUS
<1>5. ShownNext' = ShownFrom(hand', inbox', cursor')
  BY DEF ShownNext, ShownFrom
<1>6. /\ ShownNext' = NewsFirst(inbox', cursor) /\ NewsFirst(inbox', cursor) \in Nat
      /\ NewsFirst(inbox', cursor) <= cursor
  BY <1>1, <1>3, <1>4, <1>5, ShownBounds
<1>7. NewsInv'
  BY <1>3 DEF DownInv, NewsInv
<1>8. HandInv'
  BY <1>4 DEF DownInv, HandInv
<1>9. FreshInv'
  BY <1>3, <1>4 DEF DownInv, FreshInv
<1>10. ShownNext <= ShownNext'
  BY <1>1, <1>3, <1>6
<1>11. Shown!Next
  BY <1>1, <1>6, <1>10, ShownRests
<1>12. QED
  BY <1>7, <1>8, <1>9, <1>11 DEF DownInv

\* tail_loop shows what it has read, or passes it by.
LEMMA DownTail ==
  ASSUME DownInv, ClientTyped', TailReads
  PROVE  DownInv' /\ [Shown!Next]_<<produced, ShownNext, shown>>
<1>1. /\ pc = "tail" /\ pc' = pc /\ inbox # <<>> /\ inbox' = Tail(inbox)
      /\ UNCHANGED <<hand, cursor, attached, produced>>
      /\ shown' = IF First.kind = "data" THEN shown \o Numbers(First) ELSE shown
  BY DEF TailReads, theirs
<1>2. hand = <<>>
  BY <1>1 DEF DownInv, HandInv
<1>3. CASE First.kind # "data"
  BY <1>1, <1>2, <1>3, DownPasses
<1>4. CASE First.kind = "data"
  <2>1. /\ ShownNext = NewsFirst(inbox, cursor) /\ ShownNext \in Nat /\ ShownNext <= cursor
        /\ cursor \in Nat /\ cursor <= produced /\ produced \in Nat
    BY <1>2, ShownNow
  <2>2. inbox \in Seq(AnswerSet \cup NewsSet) /\ NewsSpans(inbox, cursor) /\ shown \in Seq(Nat)
    BY DEF DownInv, ClientTyped, NewsInv, HandInv
  <2>3. /\ inbox' \in Seq(AnswerSet \cup NewsSet)
        /\ NewsSpans(inbox', cursor)
        /\ NewsFirst(inbox, cursor) = First.lo
        /\ First.lo \in Nat /\ First.hi \in Nat /\ First.lo < First.hi
        /\ First.hi <= NewsFirst(inbox', cursor)
        /\ \A i \in NewsAt(inbox') : i + 1 \in NewsAt(inbox)
    BY <1>1, <1>4, <2>2, NewsRead DEF First
  <2>4. hand' = <<>> /\ hand' \in Seq(Nat)
    BY <1>1, <1>2
  <2>5. ShownNext' = ShownFrom(hand', inbox', cursor')
    BY DEF ShownNext, ShownFrom
  <2>6. /\ ShownNext' = NewsFirst(inbox', cursor) /\ NewsFirst(inbox', cursor) \in Nat
        /\ NewsFirst(inbox', cursor) <= cursor
    BY <1>1, <2>1, <2>3, <2>4, <2>5, ShownBounds
  <2> DEFINE d == Numbers(First)
  <2>7. d \in Seq(Nat) /\ Run(d) /\ d[1] = First.lo /\ Len(d) = First.hi - First.lo
    BY <2>3, NumbersRun
  <2>8. shown' = shown \o d
    BY <1>1, <1>4
  <2> HIDE DEF d
  <2>9. Len(d) \in 0..Len(d) /\ SubSeq(d, 1, Len(d)) = d
    BY <2>7
  <2>10. PICK k \in 0..Len(d) : k = Len(d)
    BY <2>9
  <2>11. shown' = shown \o SubSeq(d, 1, k)
    BY <2>8, <2>9, <2>10
  <2>12. d[1] + k <= ShownNext' /\ d[1] = ShownNext
    <3>1. PICK lo \in Nat : First.lo = lo
      BY <2>3
    <3>2. PICK hi \in Nat : First.hi = hi
      BY <2>3
    <3>3. k = hi - lo /\ lo + (hi - lo) = hi
      BY <2>7, <2>10, <3>1, <3>2
    <3>4. QED
      BY <2>1, <2>3, <2>6, <2>7, <3>1, <3>2, <3>3
  <2>13. ShownNext' \in Nat /\ ShownNext' <= produced
    BY <2>1, <2>6
  <2>14. Shown!Next /\ shown' \in Seq(Nat)
    BY <1>1, <2>7, <2>11, <2>12, <2>13, ShownComes
  <2>15. NewsInv'
    BY <1>1, <2>3 DEF DownInv, NewsInv
  <2>16. HandInv'
    BY <2>4, <2>14 DEF HandInv
  <2>17. FreshInv'
    BY <1>1, <2>3, <2>4 DEF DownInv, FreshInv
  <2>18. QED
    BY <2>14, <2>15, <2>16, <2>17 DEF DownInv
<1>5. QED
  BY <1>3, <1>4

\* The bridge takes what it reads in hand, or passes it by.
LEMMA DownTakes ==
  ASSUME DownInv, ClientTyped', BridgeReads
  PROVE  DownInv' /\ [Shown!Next]_<<produced, ShownNext, shown>>
<1>1. /\ pc = "bridge" /\ pc' = pc /\ inbox # <<>> /\ inbox' = Tail(inbox) /\ hand = <<>>
      /\ UNCHANGED <<cursor, attached, produced, shown>>
      /\ hand' = IF First.kind = "data" THEN Numbers(First) ELSE <<>>
  BY DEF BridgeReads, theirs
<1>2. CASE First.kind # "data"
  BY <1>1, <1>2, DownPasses
<1>3. CASE First.kind = "data"
  <2>1. /\ ShownNext = NewsFirst(inbox, cursor) /\ ShownNext \in Nat /\ ShownNext <= cursor
        /\ cursor \in Nat /\ cursor <= produced /\ produced \in Nat
    BY <1>1, ShownNow
  <2>2. inbox \in Seq(AnswerSet \cup NewsSet) /\ NewsSpans(inbox, cursor) /\ shown \in Seq(Nat)
    BY DEF DownInv, ClientTyped, NewsInv, HandInv
  <2>3. /\ inbox' \in Seq(AnswerSet \cup NewsSet)
        /\ NewsSpans(inbox', cursor)
        /\ NewsFirst(inbox, cursor) = First.lo
        /\ First.lo \in Nat /\ First.hi \in Nat /\ First.lo < First.hi
        /\ First.hi <= NewsFirst(inbox', cursor)
        /\ \A i \in NewsAt(inbox') : First.hi <= inbox'[i].lo
        /\ \A i \in NewsAt(inbox') : i + 1 \in NewsAt(inbox)
    BY <1>1, <1>3, <2>2, NewsRead DEF First
  <2> DEFINE d == Numbers(First)
  <2>4. d \in Seq(Nat) /\ Run(d) /\ d[1] = First.lo /\ Len(d) = First.hi - First.lo
    BY <2>3, NumbersRun
  <2>5. hand' = d
    BY <1>1, <1>3
  <2> HIDE DEF d
  <2>6. NewsFirst(inbox', cursor) <= cursor /\ NewsFirst(inbox', cursor) \in Nat
    <3>1. <<>> \in Seq(Nat)
      OBVIOUS
    <3>2. QED
      BY <2>1, <2>3, <3>1, ShownBounds
  <2>7. d[1] + Len(d) = First.hi
    BY <2>3, <2>4
  <2>8. First.hi <= cursor
    BY <2>1, <2>3, <2>6
  <2>9. d # <<>>
    BY <2>4 DEF Run
  <2>10. ShownNext' = ShownFrom(hand', inbox', cursor')
    BY DEF ShownNext, ShownFrom
  <2>11. ShownNext' = d[1]
    BY <1>1, <2>3, <2>4, <2>5, <2>9, <2>10, ShownFromIs
  <2>12. Shown!Next
    BY <1>1, <2>1, <2>3, <2>4, <2>11, ShownRests
  <2>13. NewsInv'
    BY <1>1, <2>3 DEF DownInv, NewsInv
  <2>14. HandInv'
    BY <1>1, <2>2, <2>3, <2>4, <2>5, <2>7, <2>8 DEF HandInv
  <2>15. attached
    <3>1. First = inbox[1] /\ 1 \in 1..Len(inbox)
      BY <1>1, <2>2 DEF First
    <3>2. 1 \in NewsAt(inbox)
      BY <1>3, <3>1 DEF NewsAt
    <3>3. QED
      BY <3>2 DEF DownInv, FreshInv
  <2>16. FreshInv'
    BY <1>1, <2>15 DEF FreshInv
  <2>17. QED
    BY <2>12, <2>13, <2>14, <2>16 DEF DownInv
<1>4. QED
  BY <1>2, <1>3

\* The bridge writes some of what it has in hand.
LEMMA DownWrites ==
  ASSUME DownInv, ClientTyped', BridgeWrites
  PROVE  DownInv' /\ [Shown!Next]_<<produced, ShownNext, shown>>
<1>1. PICK n \in 1..Len(hand) :
        shown' = shown \o SubSeq(hand, 1, n) /\ hand' = SubSeq(hand, n + 1, Len(hand))
  BY DEF BridgeWrites
<1>2. pc = "bridge" /\ pc' = pc /\ UNCHANGED <<inbox, cursor, attached, produced>>
  BY DEF BridgeWrites, theirs
<1>3. hand # <<>>
  BY <1>1 DEF DownInv, HandInv
<1>4. /\ ShownNext = hand[1] /\ hand[1] \in Nat /\ Len(hand) \in Nat \ {0} /\ hand \in Seq(Nat)
      /\ cursor \in Nat /\ cursor <= produced /\ produced \in Nat
      /\ Run(hand) /\ hand[1] + Len(hand) <= cursor
      /\ \A i \in NewsAt(inbox) : hand[1] + Len(hand) <= inbox[i].lo /\ inbox[i].lo \in Nat
      /\ NewsFirst(inbox, cursor) \in Nat /\ NewsFirst(inbox, cursor) <= cursor
      /\ NewsAt(inbox) = {} => NewsFirst(inbox, cursor) = cursor
      /\ NewsAt(inbox) # {} => \E i \in NewsAt(inbox) : NewsFirst(inbox, cursor) = inbox[i].lo
  BY <1>3, ShownNow DEF DownInv, HandInv
<1>5. PICK f \in Nat : hand[1] = f
  BY <1>4
<1>6. PICK m \in Nat : Len(hand) = m
  BY <1>4
<1>7. /\ hand' \in Seq(Nat) /\ Len(hand') = m - n
      /\ n < m => Run(hand') /\ hand'[1] = f + n
      /\ n = m => hand' = <<>>
  <2>1. hand' = Left(hand, n)
    BY <1>1 DEF Left
  <2>2. /\ Left(hand, n) \in Seq(Nat) /\ Len(Left(hand, n)) = Len(hand) - n
        /\ n < Len(hand) => Run(Left(hand, n)) /\ Left(hand, n)[1] = hand[1] + n
        /\ n = Len(hand) => Left(hand, n) = <<>>
    BY <1>4, RunLeft
  <2>3. QED
    BY <1>5, <1>6, <2>1, <2>2
<1>8. n \in 1..m /\ n \in 0..Len(hand) /\ f + m <= cursor
  BY <1>1, <1>4, <1>5, <1>6
<1>9. inbox' \in Seq(AnswerSet \cup NewsSet) /\ ShownNext' = ShownFrom(hand', inbox', cursor')
  BY DEF ClientTyped, ShownNext, ShownFrom
<1>10. ShownNext' = IF hand' # <<>> THEN hand'[1] ELSE NewsFirst(inbox', cursor')
  BY <1>7, <1>9, ShownFromIs
<1>11. \A i \in NewsAt(inbox) : f + m <= inbox[i].lo
  BY <1>4, <1>5, <1>6
<1>12. f + m <= NewsFirst(inbox, cursor)
  BY <1>4, <1>8, <1>11
<1>13. ShownNext' \in Nat /\ f + n <= ShownNext' /\ ShownNext' <= produced
  <2>1. CASE n < m
    <3>1. Len(hand') # 0
      BY <1>7, <1>8, <2>1
    <3>2. hand' # <<>>
      BY <3>1
    <3>3. ShownNext' = f + n
      BY <1>7, <1>10, <2>1, <3>2
    <3>4. QED
      BY <1>4, <1>8, <2>1, <3>3
  <2>2. CASE n = m
    <3>1. ShownNext' = NewsFirst(inbox, cursor)
      BY <1>2, <1>7, <1>10, <2>2
    <3>2. QED
      BY <1>4, <1>8, <1>12, <2>2, <3>1
  <2>3. QED
    BY <1>8, <2>1, <2>2
<1>14. Shown!Next /\ shown' \in Seq(Nat)
  BY <1>1, <1>2, <1>4, <1>5, <1>8, <1>13, ShownComes
<1>15. NewsInv'
  BY <1>2 DEF DownInv, NewsInv
<1>16. HandInv'
  <2>1. ASSUME hand' # <<>>
        PROVE  /\ Run(hand') /\ hand'[1] + Len(hand') <= cursor
               /\ \A i \in NewsAt(inbox) : hand'[1] + Len(hand') <= inbox[i].lo
    <3>1. n < m
      BY <1>7, <1>8, <2>1
    <3>2. hand'[1] + Len(hand') = f + m
      BY <1>7, <1>8, <3>1
    <3>3. QED
      BY <1>7, <1>8, <1>11, <3>1, <3>2
  <2>2. QED
    BY <1>2, <1>7, <1>14, <2>1 DEF HandInv
<1>17. FreshInv'
  BY <1>2, <1>3 DEF DownInv, FreshInv
<1>18. QED
  BY <1>14, <1>15, <1>16, <1>17 DEF DownInv

\* The bridge drops what it has in hand.
LEMMA DownDrops ==
  ASSUME DownInv, ClientTyped', BridgeDrops
  PROVE  DownInv' /\ [Shown!Next]_<<produced, ShownNext, shown>>
<1>1. /\ pc = "bridge" /\ pc' = pc /\ hand # <<>> /\ hand' = <<>>
      /\ UNCHANGED <<inbox, cursor, attached, produced, shown>>
  BY DEF BridgeDrops, theirs
<1>2. /\ ShownNext = hand[1] /\ hand[1] \in Nat /\ Len(hand) \in Nat \ {0}
      /\ cursor \in Nat /\ cursor <= produced /\ produced \in Nat
      /\ hand[1] + Len(hand) <= cursor
      /\ \A i \in NewsAt(inbox) : hand[1] + Len(hand) <= inbox[i].lo /\ inbox[i].lo \in Nat
      /\ NewsFirst(inbox, cursor) \in Nat /\ NewsFirst(inbox, cursor) <= cursor
      /\ NewsAt(inbox) = {} => NewsFirst(inbox, cursor) = cursor
      /\ NewsAt(inbox) # {} => \E i \in NewsAt(inbox) : NewsFirst(inbox, cursor) = inbox[i].lo
      /\ shown \in Seq(Nat) /\ inbox \in Seq(AnswerSet \cup NewsSet)
  BY <1>1, ShownNow DEF DownInv, HandInv, ClientTyped
<1>3. PICK f \in Nat : hand[1] = f
  BY <1>2
<1>4. PICK m \in Nat : Len(hand) = m
  BY <1>2
<1>5. \A i \in NewsAt(inbox) : f <= inbox[i].lo
  <2>1. \A i \in NewsAt(inbox) : f + m <= inbox[i].lo /\ inbox[i].lo \in Nat
    BY <1>2, <1>3, <1>4
  <2>2. QED
    BY <2>1
<1>6. f + m <= cursor
  BY <1>2, <1>3, <1>4
<1>7. f <= NewsFirst(inbox, cursor)
  BY <1>2, <1>5, <1>6
<1>8. hand' \in Seq(Nat) /\ ShownNext' = ShownFrom(hand', inbox', cursor')
  BY <1>1 DEF ShownNext, ShownFrom
<1>9. ShownNext' = NewsFirst(inbox, cursor)
  BY <1>1, <1>2, <1>8, ShownFromIs
<1>10. ShownNext' \in Nat /\ ShownNext <= ShownNext' /\ ShownNext' <= produced
  BY <1>2, <1>3, <1>7, <1>9
<1>11. Shown!Next
  BY <1>1, <1>2, <1>10, ShownRests
<1>12. NewsInv' /\ HandInv' /\ FreshInv'
  BY <1>1, <1>2 DEF DownInv, NewsInv, HandInv, FreshInv
<1>13. QED
  BY <1>11, <1>12 DEF DownInv

\* The daemon answers.
LEMMA DownReply ==
  ASSUME DownInv, ClientTyped', NEW a \in AnswerSet, inbox' = Append(inbox, a),
         UNCHANGED <<pc, hand, cursor, attached, produced, shown>>
  PROVE  DownInv' /\ [Shown!Next]_<<produced, ShownNext, shown>>
<1>1. inbox \in Seq(AnswerSet \cup NewsSet) /\ inbox' \in Seq(AnswerSet \cup NewsSet) /\ hand \in Seq(Nat)
  BY DEF DownInv, ClientTyped, HandInv
<1>2. a.kind # "data"
  BY DEF AnswerSet
<1>3. /\ NewsAt(inbox') = NewsAt(inbox)
      /\ NewsLo(inbox') = NewsLo(inbox) /\ NewsHi(inbox') = NewsHi(inbox)
      /\ \A i \in NewsAt(inbox) : inbox'[i] = inbox[i]
  BY <1>1, <1>2, NewsOther
<1>4. NewsInv'
  BY <1>3 DEF DownInv, NewsInv, NewsSpans
<1>5. HandInv' /\ FreshInv'
  BY <1>3 DEF DownInv, HandInv, FreshInv
<1>6. NewsFirst(inbox', cursor) = NewsFirst(inbox, cursor)
  BY <1>3 DEF NewsFirst
<1>7. ShownNext = ShownFrom(hand, inbox, cursor) /\ ShownNext' = ShownFrom(hand', inbox', cursor')
  BY DEF ShownNext, ShownFrom
<1>8. ShownNext' = ShownNext
  BY <1>1, <1>6, <1>7, ShownFromIs
<1>9. QED
  BY <1>4, <1>5, <1>8 DEF DownInv

\* The fan-out sends what follows the cursor, or passes over it.
LEMMA DownNotify ==
  ASSUME DownInv, ClientTyped', Notify
  PROVE  DownInv' /\ [Shown!Next]_<<produced, ShownNext, shown>>
<1>1. PICK hi \in cursor + 1 .. produced : \E kind \in {"data", "lag"} :
        inbox' = Append(inbox, Message(kind, cursor, hi)) /\ cursor' = hi
  BY DEF Notify
<1>2. PICK kind \in {"data", "lag"} :
        inbox' = Append(inbox, Message(kind, cursor, hi)) /\ cursor' = hi
  BY <1>1
<1>3. attached /\ UNCHANGED <<pc, hand, attached, produced, shown>>
  BY DEF Notify
<1>4. /\ ShownNext \in Nat /\ ShownNext <= cursor /\ cursor \in Nat /\ cursor <= produced
      /\ produced \in Nat
      /\ NewsFirst(inbox, cursor) \in Nat /\ NewsFirst(inbox, cursor) <= cursor
  BY ShownNow
<1>5. hi \in Nat /\ cursor < hi /\ hi <= produced
  BY <1>4
<1>6. /\ inbox \in Seq(AnswerSet \cup NewsSet) /\ inbox' \in Seq(AnswerSet \cup NewsSet)
      /\ hand \in Seq(Nat) /\ NewsSpans(inbox, cursor)
      /\ hand # <<>> => /\ Run(hand) /\ hand[1] + Len(hand) <= cursor
                        /\ \A i \in NewsAt(inbox) : hand[1] + Len(hand) <= inbox[i].lo
      /\ hand # <<>> => hand[1] \in Nat /\ Len(hand) \in Nat
  BY ShownNow DEF DownInv, ClientTyped, HandInv, NewsInv
<1>7. /\ NewsSpans(inbox', hi)
      /\ NewsFirst(inbox, cursor) <= NewsFirst(inbox', hi)
      /\ \A i \in NewsAt(inbox') : (i \in NewsAt(inbox) /\ inbox'[i] = inbox[i]) \/ inbox'[i].lo = cursor
  <2>1. CASE kind = "data"
    <3> DEFINE p == Append(inbox, Message("data", cursor, hi))
    <3>1. inbox' = p
      BY <1>2, <2>1
    <3>2. /\ NewsSpans(p, hi) /\ NewsFirst(p, hi) = NewsFirst(inbox, cursor)
          /\ \A i \in NewsAt(p) : (i \in NewsAt(inbox) /\ p[i] = inbox[i]) \/ p[i].lo = cursor
      BY <1>4, <1>5, <1>6, NewsSent
    <3> HIDE DEF p
    <3>3. QED
      BY <1>4, <3>1, <3>2
  <2>2. CASE kind = "lag"
    <3> DEFINE a == Message("lag", cursor, hi)
    <3>1. a \in AnswerSet \cup NewsSet /\ a.kind # "data"
      BY <1>4, <1>5 DEF Message, NewsSet
    <3>2. inbox' = Append(inbox, a)
      BY <1>2, <2>2
    <3> HIDE DEF a
    <3>3. /\ NewsAt(inbox') = NewsAt(inbox)
          /\ NewsLo(inbox') = NewsLo(inbox) /\ NewsHi(inbox') = NewsHi(inbox)
          /\ \A i \in NewsAt(inbox) : inbox'[i] = inbox[i]
      BY <1>6, <3>1, <3>2, NewsOther
    <3>4. cursor <= hi /\ Spans(NewsAt(inbox), NewsLo(inbox), NewsHi(inbox), cursor)
      BY <1>4, <1>5, <1>6 DEF NewsSpans
    <3>5. /\ Spans(NewsAt(inbox), NewsLo(inbox), NewsHi(inbox), hi)
          /\ Earliest(NewsAt(inbox), NewsLo(inbox), cursor) <= Earliest(NewsAt(inbox), NewsLo(inbox), hi)
      BY <1>5, <3>4, SpansLater
    <3>6. QED
      BY <3>3, <3>5 DEF NewsSpans, NewsFirst
  <2>3. QED
    BY <2>1, <2>2
<1>8. NewsInv'
  BY <1>2, <1>3, <1>5, <1>7 DEF NewsInv
<1>9. HandInv'
  <2>1. ASSUME hand # <<>>
        PROVE  /\ hand[1] + Len(hand) <= hi
               /\ \A i \in NewsAt(inbox') : hand[1] + Len(hand) <= inbox'[i].lo
    <3>1. PICK g \in Nat : hand[1] + Len(hand) = g
      BY <1>6, <2>1
    <3>2. g <= cursor /\ \A i \in NewsAt(inbox) : g <= inbox[i].lo
      BY <1>6, <2>1, <3>1
    <3>3. g <= hi
      BY <1>4, <1>5, <3>2
    <3>4. \A i \in NewsAt(inbox') : g <= inbox'[i].lo
      BY <1>7, <3>2
    <3>5. QED
      BY <3>1, <3>3, <3>4
  <2>2. QED
    BY <1>2, <1>3, <1>6, <2>1 DEF DownInv, HandInv
<1>10. FreshInv'
  BY <1>3 DEF FreshInv
<1>11. NewsFirst(inbox', hi) \in Nat /\ NewsFirst(inbox', hi) <= hi
  <2>1. <<>> \in Seq(Nat)
    OBVIOUS
  <2>2. QED
    BY <1>5, <1>6, <1>7, <2>1, ShownBounds
<1>12. ShownNext' = ShownFrom(hand', inbox', cursor') /\ ShownNext = ShownFrom(hand, inbox, cursor)
  BY DEF ShownNext, ShownFrom
<1>13. /\ ShownNext' = IF hand # <<>> THEN hand[1] ELSE NewsFirst(inbox', hi)
       /\ ShownNext = IF hand # <<>> THEN hand[1] ELSE NewsFirst(inbox, cursor)
  BY <1>2, <1>3, <1>6, <1>12, ShownFromIs
<1>14. ShownNext' \in Nat /\ ShownNext <= ShownNext' /\ ShownNext' <= produced'
  <2>1. CASE hand # <<>>
    BY <1>3, <1>4, <1>13, <2>1
  <2>2. CASE hand = <<>>
    BY <1>3, <1>4, <1>5, <1>7, <1>11, <1>13, <2>2
  <2>3. QED
    BY <2>1, <2>2
<1>15. Shown!Next
  BY <1>3, <1>4, <1>14, ShownRests
<1>16. QED
  BY <1>8, <1>9, <1>10, <1>15 DEF DownInv

\* The session is attached, for the first time.
LEMMA DownAttach ==
  ASSUME DownInv, ClientTyped', ~attached, cursor' \in {0, produced},
         UNCHANGED <<pc, inbox, hand, produced, shown>>, attached'
  PROVE  DownInv' /\ [Shown!Next]_<<produced, ShownNext, shown>>
<1>1. cursor = 0 /\ hand = <<>> /\ NewsAt(inbox) = {}
  BY DEF DownInv, FreshInv
<1>2. produced \in Nat /\ NewsSpans(inbox, 0) /\ inbox \in Seq(AnswerSet \cup NewsSet)
  BY <1>1 DEF DownInv, ClientTyped, NewsInv
<1>3. cursor' \in Nat /\ 0 <= cursor' /\ cursor' <= produced
  BY <1>2
<1>4. NewsSpans(inbox, cursor')
  <2>1. Spans(NewsAt(inbox), NewsLo(inbox), NewsHi(inbox), 0)
    BY <1>2 DEF NewsSpans
  <2>2. QED
    BY <1>3, <2>1, SpansLater DEF NewsSpans
<1>5. NewsInv'
  BY <1>3, <1>4 DEF NewsInv
<1>6. HandInv' /\ FreshInv'
  BY <1>1 DEF DownInv, HandInv, FreshInv
<1>7. ShownNext = ShownFrom(hand, inbox, cursor) /\ ShownNext' = ShownFrom(hand', inbox', cursor')
  BY DEF ShownNext, ShownFrom
<1>8. NewsFirst(inbox, cursor) = cursor /\ NewsFirst(inbox, cursor') = cursor'
  BY <1>1 DEF NewsFirst, Earliest
<1>9. ShownNext = 0 /\ ShownNext' = cursor'
  <2>1. <<>> \in Seq(Nat)
    OBVIOUS
  <2>2. ShownFrom(<<>>, inbox, cursor) = cursor /\ ShownFrom(<<>>, inbox, cursor') = cursor'
    BY <1>2, <1>8, <2>1, ShownFromIs
  <2>3. QED
    BY <1>1, <1>7, <2>2
<1>10. Shown!Next
  BY <1>2, <1>3, <1>9, ShownRests
<1>11. QED
  BY <1>5, <1>6, <1>10 DEF DownInv

-----------------------------------------------------------------------------
(* The bytes on their way to the device.                                   *)

\* The bridge's sends are in the order of what the tool has typed.
SendsInv ==
  /\ typed \in Nat /\ taken <= typed /\ written \in Seq(Nat)
  /\ SendsSpans(requests, taken)

UpInv == ClientTyped /\ SendsInv

TypedFrom(q, c) ==
  LET sends == {i \in DOMAIN q : q[i].method = "typed"} IN
  IF sends = {} THEN c
  ELSE Head(q[CHOOSE i \in sends : \A j \in sends : i <= j].data)

\* The first byte that is neither written nor lost, by what is on its way.
LEMMA TypedFromIs ==
  ASSUME NEW q \in Seq(RequestSet), NEW c, SendsSpans(q, c)
  PROVE  /\ TypedFrom(q, c) = SendsFirst(q, c)
         /\ TypedFrom(q, c) \in Nat /\ TypedFrom(q, c) <= c
<1>1. /\ DOMAIN q = 1..Len(q) /\ SendsAt(q) \in SUBSET Nat
      /\ \A i \in SendsAt(q) : q[i].data \in Seq(Nat) /\ SendsLo(q)[i] = q[i].data[1] /\ q[i].data # <<>>
  BY SendsTyped DEF SendsSpans, Run
<1>2. {i \in DOMAIN q : q[i].method = "typed"} = SendsAt(q)
  BY <1>1 DEF SendsAt
<1> DEFINE k == CHOOSE i \in SendsAt(q) : \A j \in SendsAt(q) : i <= j
<1>3. TypedFrom(q, c) = IF SendsAt(q) = {} THEN c ELSE Head(q[k].data)
  <2> DEFINE F(N) == IF N = {} THEN c ELSE Head(q[CHOOSE i \in N : \A j \in N : i <= j].data)
  <2>1. TypedFrom(q, c) = F({i \in DOMAIN q : q[i].method = "typed"})
    BY DEF TypedFrom
  <2>2. F(SendsAt(q)) = IF SendsAt(q) = {} THEN c ELSE Head(q[k].data)
    OBVIOUS
  <2> HIDE DEF F
  <2>3. F({i \in DOMAIN q : q[i].method = "typed"}) = F(SendsAt(q))
    BY <1>2
  <2>4. QED
    BY <2>1, <2>2, <2>3
<1>4. SendsAt(q) # {} => k \in SendsAt(q)
  BY <1>1, FirstPlace
<1>5. SendsFirst(q, c) = IF SendsAt(q) # {} THEN SendsLo(q)[k] ELSE c
  BY DEF SendsFirst, Earliest
<1> HIDE DEF k
<1>6. SendsAt(q) # {} => Head(q[k].data) = SendsLo(q)[k]
  <2> SUFFICES ASSUME SendsAt(q) # {} PROVE Head(q[k].data) = SendsLo(q)[k]
    OBVIOUS
  <2>1. PICK d \in Seq(Nat) : q[k].data = d /\ d # <<>> /\ SendsLo(q)[k] = d[1]
    BY <1>1, <1>4
  <2>2. Head(d) = d[1]
    BY <2>1
  <2>3. QED
    BY <2>1, <2>2
<1>7. TypedFrom(q, c) = SendsFirst(q, c)
  BY <1>3, <1>5, <1>6
<1>8. SendsFirst(q, c) \in Nat /\ SendsFirst(q, c) <= c
  BY EarliestFirst DEF SendsSpans, SendsFirst
<1>9. QED
  BY <1>7, <1>8

\* What the state says of it.
LEMMA TypedNow ==
  ASSUME UpInv
  PROVE  /\ TypedNext = SendsFirst(requests, taken)
         /\ TypedNext \in Nat /\ TypedNext <= taken /\ taken \in Nat /\ taken <= typed /\ typed \in Nat
         /\ requests \in Seq(RequestSet) /\ SendsSpans(requests, taken) /\ written \in Seq(Nat)
<1>1. TypedNext = TypedFrom(requests, taken)
  BY DEF TypedNext, TypedFrom
<1>2. /\ requests \in Seq(RequestSet) /\ SendsSpans(requests, taken) /\ taken \in Nat
      /\ taken <= typed /\ typed \in Nat /\ written \in Seq(Nat)
  BY DEF UpInv, ClientTyped, SendsInv
<1>3. QED
  BY <1>1, <1>2, TypedFromIs

\* Likewise after the step.
LEMMA TypedThen ==
  ASSUME ClientTyped', SendsSpans(requests', taken')
  PROVE  /\ TypedNext' = SendsFirst(requests', taken')
         /\ TypedNext' \in Nat /\ TypedNext' <= taken' /\ taken' \in Nat
<1>1. TypedNext' = TypedFrom(requests', taken')
  BY DEF TypedNext, TypedFrom
<1>2. requests' \in Seq(RequestSet) /\ taken' \in Nat
  BY DEF ClientTyped
<1>3. QED
  BY <1>1, <1>2, TypedFromIs

\* Nothing is written; something may be lost.
LEMMA TypedRests ==
  ASSUME UpInv, ClientTyped', typed' \in Nat, typed' >= typed, written' = written,
         SendsSpans(requests', taken'), taken' <= typed', TypedNext <= TypedNext'
  PROVE  UpInv' /\ [Typed!Next]_<<typed, TypedNext, written>>
<1>1. written \in Seq(Nat) /\ TypedNext \in Nat
  BY TypedNow
<1>2. TypedNext' \in Nat /\ TypedNext' <= taken' /\ taken' \in Nat
  BY TypedThen
<1>3. Typed!Comes
  BY <1>1 DEF Typed!Comes
<1>4. TypedNext' \in TypedNext .. typed'
  BY <1>1, <1>2
<1>5. Typed!Next
  BY <1>1, <1>3, <1>4 DEF Typed!Next
<1>6. UpInv'
  BY <1>1 DEF UpInv, SendsInv
<1>7. QED
  BY <1>5, <1>6

\* A step that is none of the bridge's sends.
LEMMA UpSame ==
  ASSUME UpInv, ClientTyped', UNCHANGED <<requests, taken, written>>, typed' \in {typed, typed + 1}
  PROVE  UpInv' /\ [Typed!Next]_<<typed, TypedNext, written>>
<1>1. /\ taken \in Nat /\ taken <= typed /\ typed \in Nat /\ SendsSpans(requests, taken)
      /\ TypedNext = SendsFirst(requests, taken) /\ TypedNext \in Nat
  BY TypedNow
<1>2. SendsSpans(requests', taken') /\ TypedNext' = SendsFirst(requests', taken')
  BY <1>1, TypedThen
<1>3. TypedNext' = TypedNext
  BY <1>1, <1>2
<1>4. typed' \in Nat /\ typed' >= typed /\ taken' <= typed'
  BY <1>1
<1>5. QED
  BY <1>1, <1>2, <1>3, <1>4, TypedRests

\* A call is made.
LEMMA UpCalls ==
  ASSUME UpInv, ClientTyped', NEW m \in Methods, requests' = Append(requests, Request(m, <<>>)),
         UNCHANGED <<taken, typed, written>>
  PROVE  UpInv' /\ [Typed!Next]_<<typed, TypedNext, written>>
<1>1. /\ taken \in Nat /\ taken <= typed /\ typed \in Nat /\ SendsSpans(requests, taken)
      /\ TypedNext = SendsFirst(requests, taken) /\ TypedNext \in Nat
      /\ requests \in Seq(RequestSet) /\ id \in Nat
  BY TypedNow DEF UpInv, ClientTyped
<1> DEFINE r == Request(m, <<>>)
<1>2. r \in RequestSet /\ r.method = m
  BY <1>1 DEF Request, RequestSet
<1>3. m # "typed"
  BY DEF Methods, Effects, Lines
<1>4. requests' = Append(requests, r)
  OBVIOUS
<1> HIDE DEF r
<1>5. SendsSpans(requests', taken') /\ SendsFirst(requests', taken') = SendsFirst(requests, taken)
  BY <1>1, <1>2, <1>3, <1>4, SendsOther
<1>6. TypedNext' = TypedNext
  BY <1>1, <1>5, TypedThen
<1>7. QED
  BY <1>1, <1>5, <1>6, TypedRests

\* A call is taken up.
LEMMA UpHandles ==
  ASSUME UpInv, ClientTyped', requests # <<>>, requests' = Tail(requests),
         Head(requests).method # "typed", UNCHANGED <<taken, typed, written>>
  PROVE  UpInv' /\ [Typed!Next]_<<typed, TypedNext, written>>
<1>1. /\ taken \in Nat /\ taken <= typed /\ typed \in Nat /\ SendsSpans(requests, taken)
      /\ TypedNext = SendsFirst(requests, taken) /\ TypedNext \in Nat
      /\ requests \in Seq(RequestSet)
  BY TypedNow
<1>2. SendsSpans(requests', taken') /\ SendsFirst(requests', taken') = SendsFirst(requests, taken)
  BY <1>1, SendsRead
<1>3. TypedNext' = TypedNext
  BY <1>1, <1>2, TypedThen
<1>4. QED
  BY <1>1, <1>2, <1>3, TypedRests

\* A send of the bridge is written, or some of it.
LEMMA UpWrites ==
  ASSUME UpInv, ClientTyped', HandleTyped
  PROVE  UpInv' /\ [Typed!Next]_<<typed, TypedNext, written>>
<1>1. /\ requests # <<>> /\ requests' = Tail(requests) /\ Head(requests).method = "typed"
      /\ UNCHANGED <<taken, typed>>
  BY DEF HandleTyped, ours
<1>2. PICK k \in 0..Len(Head(requests).data) :
        written' = written \o SubSeq(Head(requests).data, 1, k)
  BY DEF HandleTyped
<1>3. /\ taken \in Nat /\ taken <= typed /\ typed \in Nat /\ SendsSpans(requests, taken)
      /\ TypedNext = SendsFirst(requests, taken) /\ TypedNext \in Nat
      /\ requests \in Seq(RequestSet) /\ written \in Seq(Nat)
  BY TypedNow
<1>4. /\ SendsSpans(requests', taken)
      /\ Head(requests).data \in Seq(Nat) /\ Run(Head(requests).data)
      /\ SendsFirst(requests, taken) = Head(requests).data[1]
      /\ Head(requests).data[1] + Len(Head(requests).data) <= SendsFirst(requests', taken)
  BY <1>1, <1>3, SendsRead
<1>5. PICK d \in Seq(Nat) : Head(requests).data = d
  BY <1>4
<1>6. /\ Run(d) /\ k \in 0..Len(d) /\ TypedNext = d[1]
      /\ d[1] + Len(d) <= SendsFirst(requests', taken)
  BY <1>2, <1>3, <1>4, <1>5
<1>7. Longer(written, written \o SubSeq(d, 1, k), d[1], k) /\ d[1] \in Nat /\ Len(d) \in Nat
  BY <1>3, <1>6, RunComesOut
<1>8. TypedNext' = SendsFirst(requests', taken) /\ TypedNext' \in Nat /\ TypedNext' <= taken
  BY <1>1, <1>4, TypedThen
<1> DEFINE t == written'
<1>9. Longer(written, t, d[1], k)
  BY <1>2, <1>5, <1>7
<1> HIDE DEF t
<1>10. /\ t \in Seq(Nat) /\ Len(t) >= Len(written)
       /\ \A i \in 1..Len(written) : t[i] = written[i]
       /\ \A i \in Len(written) + 1 .. Len(t) : t[i] \in d[1] .. d[1] + k - 1
       /\ \A i, j \in Len(written) + 1 .. Len(t) : i < j => t[i] < t[j]
  BY <1>9 DEF Longer
<1>11. PICK f \in Nat : d[1] = f
  BY <1>7
<1>12. PICK l \in Nat : Len(d) = l
  BY <1>7
<1>13. PICK g \in Nat : TypedNext' = g
  BY <1>8
<1>14. k \in 0..l /\ f + l <= g /\ g <= typed
  BY <1>3, <1>6, <1>8, <1>11, <1>12, <1>13
<1>15. \A x \in f .. f + k - 1 : x \in f .. g - 1
  BY <1>14
<1>16. \A i \in Len(written) + 1 .. Len(t) : t[i] \in f .. g - 1
  BY <1>10, <1>11, <1>15
<1>17. TypedNext = f
  BY <1>6, <1>11
<1>18. Typed!Comes
  BY <1>10, <1>13, <1>16, <1>17 DEF Typed!Comes, t
<1>19. g \in f .. typed
  BY <1>3, <1>14
<1>20. TypedNext' \in TypedNext .. typed'
  BY <1>1, <1>13, <1>17, <1>19
<1>21. Typed!Next
  BY <1>1, <1>3, <1>10, <1>18, <1>20 DEF Typed!Next, t
<1>22. UpInv'
  BY <1>1, <1>3, <1>4, <1>10 DEF UpInv, SendsInv, t
<1>23. QED
  BY <1>21, <1>22

\* The tool's bytes go out, or nowhere.
LEMMA UpTakes ==
  ASSUME UpInv, ClientTyped', BridgeTakes
  PROVE  UpInv' /\ [Typed!Next]_<<typed, TypedNext, written>>
<1>1. PICK n \in 1..MaxChunk :
        /\ taken + n <= typed /\ taken' = taken + n
        /\ \/ UNCHANGED requests
           \/ requests' = Append(requests, Request("typed", [i \in 1..n |-> taken + i - 1]))
  BY DEF BridgeTakes
<1>2. UNCHANGED <<typed, written>>
  BY DEF BridgeTakes, theirs
<1>3. /\ taken \in Nat /\ taken <= typed /\ typed \in Nat /\ SendsSpans(requests, taken)
      /\ TypedNext = SendsFirst(requests, taken) /\ TypedNext \in Nat
      /\ requests \in Seq(RequestSet) /\ id \in Nat
  BY TypedNow DEF UpInv, ClientTyped
<1>4. n \in Nat \ {0} /\ taken + n \in Nat /\ taken <= taken + n
  BY <1>3
<1>5. SendsSpans(requests', taken') /\ SendsFirst(requests, taken) <= SendsFirst(requests', taken')
  <2>1. CASE UNCHANGED requests
    <3>1. Spans(SendsAt(requests), SendsLo(requests), SendsHi(requests), taken)
      BY <1>3 DEF SendsSpans
    <3>2. /\ Spans(SendsAt(requests), SendsLo(requests), SendsHi(requests), taken + n)
          /\ Earliest(SendsAt(requests), SendsLo(requests), taken)
               <= Earliest(SendsAt(requests), SendsLo(requests), taken + n)
      BY <1>4, <3>1, SpansLater
    <3>3. SendsSpans(requests, taken + n) /\ SendsFirst(requests, taken) <= SendsFirst(requests, taken + n)
      BY <1>3, <3>2 DEF SendsSpans, SendsFirst
    <3>4. QED
      BY <1>1, <2>1, <3>3
  <2>2. CASE requests' = Append(requests, Request("typed", [i \in 1..n |-> taken + i - 1]))
    <3> DEFINE r == Request("typed", [i \in 1..n |-> taken + i - 1])
    <3>1. [i \in 1..n |-> taken + i - 1] \in Seq(Nat)
      BY <1>3, <1>4
    <3>2. r \in RequestSet /\ r.method = "typed" /\ r.data = [i \in 1..n |-> taken + i - 1]
      BY <1>3, <3>1 DEF Request, RequestSet
    <3>3. requests' = Append(requests, r)
      BY <2>2
    <3> HIDE DEF r
    <3>4. /\ SendsSpans(Append(requests, r), taken + n)
          /\ SendsFirst(Append(requests, r), taken + n) = SendsFirst(requests, taken)
      BY <1>3, <1>4, <3>2, SendsMore
    <3>5. QED
      BY <1>1, <1>3, <3>3, <3>4
  <2>3. QED
    BY <1>1, <2>1, <2>2
<1>6. TypedNext <= TypedNext'
  BY <1>3, <1>5, TypedThen
<1>7. taken' <= typed' /\ typed' \in Nat /\ typed' >= typed
  BY <1>1, <1>2, <1>3
<1>8. QED
  BY <1>2, <1>5, <1>6, <1>7, TypedRests

-----------------------------------------------------------------------------
(* The session is attached once.                                           *)

\* At most one of the steps is an attach, and it is not tried again.
AttachOnly(t) ==
  \E b \in Nat : \A i \in 1..Len(t) : t[i].method = "attach" => i = b /\ t[i].how = "must"

\* An attach is on its way.
Attaching(q) == \E i \in 1..Len(q) : q[i].method = "attach"

\* The attach is still to come, in steps whose first has been done.
AttachAhead(t, first) == \E i \in 1..Len(t) : t[i].method = "attach" /\ (first \/ i > 1)

\* There is one attach at most, as a step to come, as a request, or done.
Early == {"next", "send"}
AttachInv ==
  /\ AttachOnly(todo)
  /\ \A i, j \in 1..Len(requests) : requests[i].method = "attach" /\ requests[j].method = "attach" => i = j
  /\ Attaching(requests) => ~attached
  /\ AttachAhead(todo, pc \in Early) => ~attached /\ ~Attaching(requests)

\* The steps of every command have one attach at most.
LEMMA PlannedOnce ==
  ASSUME cmd.name \in Commands
  PROVE  AttachOnly(Steps(cmd.name))
<1> DEFINE G == Greeting
<1>1. /\ \A e \in Methods \ Effects : /\ Must(e) \in StepSet /\ Must(e).method = e /\ Must(e).how = "must"
                                      /\ May(e) \in StepSet /\ May(e).method = e
      /\ \A e \in Methods : /\ Must(e) \in StepSet /\ Must(e).method = e
                            /\ Retry(e) \in StepSet /\ Retry(e).method = e
      /\ [method |-> "expect", how |-> "probe"] \in StepSet
  BY DEF Must, May, Retry, StepSet, Methods, Effects, Lines
<1>2. /\ {"hello", "list_devices", "personality", "status", "attach", "expect", "reconnect"}
           \subseteq Methods \ Effects
      /\ {"send", "run", "set", "lock", "dtr=0", "dtr=1", "rts=0", "rts=1"} \subseteq Methods
  BY DEF Methods, Effects, Lines
<1>3. G \in Seq(StepSet) /\ \A i \in 1..Len(G) : G[i].method # "attach"
  BY <1>1, <1>2 DEF Greeting
<1> HIDE DEF G
<1>4. ASSUME NEW s \in Seq(StepSet), NEW b \in Nat,
             \A i \in 1..Len(s) : s[i].method = "attach" => i = b /\ s[i].how = "must"
      PROVE  AttachOnly(G \o s)
  <2> DEFINE t == G \o s
             n == Len(G)
  <2>1. /\ n \in Nat /\ Len(s) \in Nat /\ Len(t) = n + Len(s)
        /\ \A i \in 1 .. n + Len(s) : t[i] = IF i <= n THEN G[i] ELSE s[i - n]
    BY <1>3, <1>4, ConcatProperties
  <2> HIDE DEF t, n
  <2>2. ASSUME NEW i \in 1..Len(t), t[i].method = "attach"
        PROVE  i = n + b /\ t[i].how = "must"
    <3>1. i \in 1 .. n + Len(s)
      BY <2>1
    <3>2. ~ (i <= n)
      <4>1. SUFFICES ASSUME i <= n PROVE FALSE
        OBVIOUS
      <4>2. i \in 1..n /\ t[i] = G[i]
        BY <2>1, <3>1, <4>1
      <4>3. QED
        BY <1>3, <2>2, <4>2 DEF n
    <3>3. i - n \in 1..Len(s) /\ t[i] = s[i - n]
      BY <2>1, <3>1, <3>2
    <3>4. i - n = b /\ s[i - n].how = "must"
      BY <1>4, <2>2, <3>3
    <3>5. QED
      BY <2>1, <3>1, <3>3, <3>4
  <2>3. n + b \in Nat
    BY <2>1, <1>4
  <2>4. QED
    BY <2>2, <2>3 DEF AttachOnly, t
<1>5. cmd.name \in {"status", "set", "send", "expect", "run", "exec", "tail", "sync", "reset",
                    "pty", "reconnect"}
  BY ClientConstants
<1>6. CASE cmd.name \in {"status", "set", "reconnect", "reset"}
  <2>1. /\ StatusSteps \in Seq(StepSet) /\ \A i \in 1..Len(StatusSteps) : StatusSteps[i].method # "attach"
        /\ SetSteps \in Seq(StepSet) /\ \A i \in 1..Len(SetSteps) : SetSteps[i].method # "attach"
        /\ ReconnectSteps \in Seq(StepSet)
        /\ \A i \in 1..Len(ReconnectSteps) : ReconnectSteps[i].method # "attach"
    BY <1>1, <1>2 DEF StatusSteps, SetSteps, ReconnectSteps
  <2>2. ResetSteps \in Seq(StepSet) /\ \A i \in 1..Len(ResetSteps) : ResetSteps[i].method # "attach"
    BY <1>1, <1>2 DEF ResetSteps
  <2>3. Steps(cmd.name) \in {G \o StatusSteps, G \o SetSteps, G \o ReconnectSteps, G \o ResetSteps}
    BY <1>6 DEF Steps, G
  <2>4. 0 \in Nat
    OBVIOUS
  <2>5. QED
    BY <1>4, <2>1, <2>2, <2>3, <2>4
<1>7. CASE cmd.name \in {"send", "expect", "tail"}
  <2>1. /\ SendSteps \in Seq(StepSet)
        /\ \A i \in 1..Len(SendSteps) : SendSteps[i].method = "attach" => i = 1 /\ SendSteps[i].how = "must"
    BY <1>1, <1>2 DEF SendSteps
  <2>2. /\ ExpectSteps \in Seq(StepSet)
        /\ \A i \in 1..Len(ExpectSteps) :
             ExpectSteps[i].method = "attach" => i = 1 /\ ExpectSteps[i].how = "must"
    BY <1>1, <1>2 DEF ExpectSteps
  <2>3. /\ TailSteps \in Seq(StepSet)
        /\ \A i \in 1..Len(TailSteps) : TailSteps[i].method = "attach" => i = 1 /\ TailSteps[i].how = "must"
    BY <1>1, <1>2 DEF TailSteps
  <2>4. Steps(cmd.name) \in {G \o SendSteps, G \o ExpectSteps, G \o TailSteps}
    BY <1>7 DEF Steps, G
  <2>5. 1 \in Nat
    OBVIOUS
  <2>6. QED
    BY <1>4, <2>1, <2>2, <2>3, <2>4, <2>5
<1>8. CASE cmd.name = "pty"
  <2>1. /\ PtySteps \in Seq(StepSet)
        /\ \A i \in 1..Len(PtySteps) : PtySteps[i].method = "attach" => i = 1 /\ PtySteps[i].how = "must"
    BY <1>1, <1>2 DEF PtySteps
  <2>2. Steps(cmd.name) = G \o PtySteps /\ 1 \in Nat
    BY <1>8 DEF Steps, G
  <2>3. QED
    BY <1>4, <2>1, <2>2
<1>9. CASE cmd.name \in {"run", "exec", "sync"}
  <2>1. /\ RunSteps \in Seq(StepSet)
        /\ \A i \in 1..Len(RunSteps) : RunSteps[i].method = "attach" => i = 2 /\ RunSteps[i].how = "must"
    BY <1>1, <1>2 DEF RunSteps
  <2>2. /\ ExecSteps \in Seq(StepSet)
        /\ \A i \in 1..Len(ExecSteps) : ExecSteps[i].method = "attach" => i = 2 /\ ExecSteps[i].how = "must"
    BY <1>1, <1>2 DEF ExecSteps
  <2>3. /\ SyncSteps \in Seq(StepSet)
        /\ \A i \in 1..Len(SyncSteps) : SyncSteps[i].method = "attach" => i = 2 /\ SyncSteps[i].how = "must"
    BY <1>1, <1>2 DEF SyncSteps
  <2>4. Steps(cmd.name) \in {G \o RunSteps, G \o ExecSteps, G \o SyncSteps}
    BY <1>9 DEF Steps, G
  <2>5. 2 \in Nat
    OBVIOUS
  <2>6. QED
    BY <1>4, <2>1, <2>2, <2>3, <2>4, <2>5
<1>10. QED
  BY <1>5, <1>6, <1>7, <1>8, <1>9

\* A step is gone past.
LEMMA AttachTail ==
  ASSUME ClientTyped, AttachInv, todo # <<>>, todo' = Tail(todo), UNCHANGED <<requests, attached>>
  PROVE  AttachInv'
<1> DEFINE u == Tail(todo)
<1>1. /\ Len(todo) \in Nat \ {0} /\ Len(u) = Len(todo) - 1
      /\ \A i \in 1 .. Len(u) : u[i] = todo[i + 1] /\ i + 1 \in 1..Len(todo) /\ i + 1 > 1 /\ i \in Nat
  BY DEF ClientTyped
<1>2. PICK b \in Nat : \A i \in 1..Len(todo) : todo[i].method = "attach" => i = b /\ todo[i].how = "must"
  BY DEF AttachInv, AttachOnly
<1> HIDE DEF u
<1>3. AttachOnly(u)
  <2>1. CASE b = 0
    <3>1. \A i \in 1..Len(u) : u[i].method # "attach"
      BY <1>1, <1>2, <2>1
    <3>2. QED
      BY <2>1, <3>1 DEF AttachOnly
  <2>2. CASE b > 0
    <3>1. ASSUME NEW i \in 1..Len(u), u[i].method = "attach"
          PROVE  i = b - 1 /\ u[i].how = "must"
      <4>1. u[i] = todo[i + 1] /\ i + 1 \in 1..Len(todo) /\ i \in Nat
        BY <1>1
      <4>2. i + 1 = b /\ todo[i + 1].how = "must"
        BY <1>2, <3>1, <4>1
      <4>3. QED
        BY <4>1, <4>2
    <3>2. b - 1 \in Nat
      BY <2>2
    <3>3. QED
      BY <3>1, <3>2 DEF AttachOnly
  <2>3. QED
    BY <2>1, <2>2
<1>4. AttachAhead(u, TRUE) => AttachAhead(todo, pc \in Early)
  BY <1>1 DEF AttachAhead
<1>5. AttachAhead(u, pc' \in Early) => AttachAhead(u, TRUE)
  BY DEF AttachAhead
<1>6. todo' = u
  BY DEF u
<1>7. QED
  BY <1>3, <1>4, <1>5, <1>6 DEF AttachInv

\* The step under way stays.
LEMMA AttachStays ==
  ASSUME ClientTyped, AttachInv, UNCHANGED <<todo, requests, attached>>,
         \/ pc' \in Early => pc \in Early
         \/ todo # <<>> /\ Head(todo).how = "probe"
  PROVE  AttachInv'
<1>1. todo # <<>> => Len(todo) \in Nat \ {0} /\ Head(todo) = todo[1] /\ 1 \in 1..Len(todo)
  BY DEF ClientTyped
<1>2. AttachAhead(todo, pc' \in Early) => AttachAhead(todo, pc \in Early)
  <2>1. CASE pc' \in Early => pc \in Early
    BY <2>1 DEF AttachAhead
  <2>2. CASE todo # <<>> /\ Head(todo).how = "probe"
    <3>1. todo[1].method # "attach"
      BY <1>1, <2>2 DEF AttachInv, AttachOnly
    <3>2. \A i \in 1..Len(todo) : todo[i].method = "attach" => i > 1
      BY <1>1, <2>2, <3>1
    <3>3. QED
      BY <3>2 DEF AttachAhead
  <2>3. QED
    BY <2>1, <2>2
<1>3. QED
  BY <1>2 DEF AttachInv

\* A step is tried again, which is no attach.
LEMMA AttachAgain ==
  ASSUME ClientTyped, AttachInv, todo # <<>>, Head(todo).how = "retry", todo' = Again,
         UNCHANGED <<requests, attached>>
  PROVE  AttachInv'
<1> DEFINE u == Tail(todo)
           r == <<Must("reconnect"), Must(Head(todo).method)>>
           t == r \o u
<1>1. /\ Len(todo) \in Nat \ {0} /\ Len(u) = Len(todo) - 1 /\ u \in Seq(StepSet)
      /\ \A i \in 1 .. Len(u) : u[i] = todo[i + 1] /\ i + 1 \in 1..Len(todo) /\ i + 1 > 1 /\ i \in Nat
      /\ Head(todo) = todo[1] /\ Head(todo) \in StepSet /\ 1 \in 1..Len(todo)
  BY DEF ClientTyped
<1>2. PICK b \in Nat : \A i \in 1..Len(todo) : todo[i].method = "attach" => i = b /\ todo[i].how = "must"
  BY DEF AttachInv, AttachOnly
<1>3. todo[1].method # "attach"
  BY <1>1, <1>2
<1>4. /\ r \in Seq(StepSet) /\ Len(r) = 2
      /\ \A i \in 1..2 : r[i].method # "attach"
  <2>1. Must("reconnect") \in StepSet /\ Must("reconnect").method = "reconnect"
    BY DEF Must, StepSet, Methods
  <2>2. Must(Head(todo).method) \in StepSet /\ Must(Head(todo).method).method = todo[1].method
    BY <1>1 DEF Must, StepSet
  <2>3. QED
    BY <1>3, <2>1, <2>2
<1> HIDE DEF r, u
<1>5. /\ Len(t) = 2 + Len(u)
      /\ \A i \in 1 .. 2 + Len(u) : t[i] = IF i <= 2 THEN r[i] ELSE u[i - 2]
  <2>1. /\ Len(t) = Len(r) + Len(u)
        /\ \A i \in 1 .. Len(r) + Len(u) : t[i] = IF i <= Len(r) THEN r[i] ELSE u[i - Len(r)]
    BY <1>1, <1>4, ConcatProperties
  <2> HIDE DEF t
  <2>2. QED
    BY <1>4, <2>1
<1> HIDE DEF t
<1>6. ASSUME NEW i \in 1..Len(t), t[i].method = "attach"
      PROVE  /\ i - 1 \in 1..Len(todo) /\ i - 1 > 1 /\ t[i] = todo[i - 1]
  <2>1. i \in 1 .. 2 + Len(u) /\ i \in Nat
    BY <1>1, <1>5
  <2>2. i > 2
    <3>1. SUFFICES ASSUME i <= 2 PROVE FALSE
      BY <2>1
    <3>2. i \in 1..2 /\ t[i] = r[i]
      BY <1>5, <2>1, <3>1
    <3>3. QED
      BY <1>4, <1>6, <3>2
  <2>3. i - 2 \in 1..Len(u) /\ t[i] = u[i - 2]
    BY SMTT(20), <1>1, <1>5, <2>1, <2>2
  <2>4. u[i - 2] = todo[(i - 2) + 1] /\ (i - 2) + 1 = i - 1
    BY <1>1, <2>1, <2>3
  <2>5. QED
    BY <1>1, <2>1, <2>2, <2>3, <2>4
<1>7. AttachOnly(t)
  <2>1. \A i \in 1..Len(t) : t[i].method = "attach" => i = b + 1 /\ t[i].how = "must"
    <3>1. TAKE i \in 1..Len(t)
    <3>2. HAVE t[i].method = "attach"
    <3>3. i - 1 \in 1..Len(todo) /\ t[i] = todo[i - 1]
      BY <1>6, <3>2
    <3>4. i - 1 = b /\ t[i].how = "must"
      BY <1>2, <3>2, <3>3
    <3>5. QED
      BY <3>4
  <2>2. b + 1 \in Nat
    BY <1>2
  <2>3. QED
    BY <2>1, <2>2 DEF AttachOnly
<1>8. AttachAhead(t, pc' \in Early) => AttachAhead(todo, pc \in Early)
  BY <1>6 DEF AttachAhead
<1>9. todo' = t
  BY DEF Again, t, r, u
<1>10. QED
  BY <1>7, <1>8, <1>9 DEF AttachInv

\* A request is made that is no attach.
LEMMA AttachOther ==
  ASSUME ClientTyped, AttachInv, NEW a, a.method # "attach", requests' = Append(requests, a),
         UNCHANGED <<todo, attached>>, pc' \in Early => pc \in Early
  PROVE  AttachInv'
<1>1. /\ Len(requests) \in Nat /\ Len(requests') = Len(requests) + 1
      /\ \A i \in 1..Len(requests) : requests'[i] = requests[i]
      /\ requests'[Len(requests) + 1] = a
  BY DEF ClientTyped
<1>2. \A i \in 1..Len(requests') : requests'[i].method = "attach" =>
        i \in 1..Len(requests) /\ requests[i].method = "attach"
  BY <1>1
<1>3. Attaching(requests') => Attaching(requests)
  BY <1>2 DEF Attaching
<1>4. AttachAhead(todo, pc' \in Early) => AttachAhead(todo, pc \in Early)
  BY DEF AttachAhead
<1>5. QED
  BY <1>2, <1>3, <1>4 DEF AttachInv

\* A call is made, of the attach or another.
LEMMA AttachCalled ==
  ASSUME ClientTyped, AttachInv, todo # <<>>, pc \in Early, pc' \notin Early,
         requests' = Append(requests, Request(Head(todo).method, <<>>)),
         UNCHANGED <<todo, attached>>
  PROVE  AttachInv'
<1> DEFINE a == Request(Head(todo).method, <<>>)
<1>1. a.method = Head(todo).method /\ requests' = Append(requests, a)
  BY DEF Request
<1> HIDE DEF a
<1>2. CASE a.method # "attach"
  BY <1>1, <1>2, AttachOther
<1>3. CASE a.method = "attach"
  <2>1. /\ Len(requests) \in Nat /\ Len(requests') = Len(requests) + 1
        /\ \A i \in 1..Len(requests) : requests'[i] = requests[i]
    BY <1>1 DEF ClientTyped
  <2>2. Len(todo) \in Nat \ {0} /\ Head(todo) = todo[1] /\ 1 \in 1..Len(todo)
    BY DEF ClientTyped
  <2>3. AttachAhead(todo, pc \in Early)
    BY <1>1, <1>3, <2>2 DEF AttachAhead
  <2>4. ~attached /\ ~Attaching(requests)
    BY <2>3 DEF AttachInv
  <2>5. \A i \in 1..Len(requests') : requests'[i].method = "attach" => i = Len(requests) + 1
    BY <2>1, <2>4 DEF Attaching
  <2>6. PICK b \in Nat : \A i \in 1..Len(todo) : todo[i].method = "attach" => i = b
    BY DEF AttachInv, AttachOnly
  <2>7. b = 1
    BY <1>1, <1>3, <2>2, <2>6
  <2>8. ~AttachAhead(todo, FALSE)
    BY <2>6, <2>7 DEF AttachAhead
  <2>9. ~AttachAhead(todo, pc' \in Early)
    BY <2>8 DEF AttachAhead
  <2>10. QED
    BY <2>4, <2>5, <2>9 DEF AttachInv
<1>4. QED
  BY <1>2, <1>3

\* A request is taken up; the attach attaches, or does not.
LEMMA AttachTaken ==
  ASSUME ClientTyped, AttachInv, requests # <<>>, requests' = Tail(requests), UNCHANGED <<pc, todo>>,
         attached' => attached \/ Head(requests).method = "attach"
  PROVE  AttachInv'
<1> DEFINE p == Tail(requests)
<1>1. /\ Len(requests) \in Nat \ {0} /\ Len(p) = Len(requests) - 1 /\ Head(requests) = requests[1]
      /\ 1 \in 1..Len(requests)
      /\ \A i \in 1..Len(p) : p[i] = requests[i + 1] /\ i + 1 \in 1..Len(requests) /\ i + 1 # 1 /\ i \in Nat
  BY DEF ClientTyped
<1> HIDE DEF p
<1>2. \A i, j \in 1..Len(p) : p[i].method = "attach" /\ p[j].method = "attach" => i = j
  <2>1. TAKE i, j \in 1..Len(p)
  <2>2. HAVE p[i].method = "attach" /\ p[j].method = "attach"
  <2>3. i + 1 = j + 1
    BY <1>1, <2>2 DEF AttachInv
  <2>4. QED
    BY <1>1, <2>3
<1>3. Attaching(p) => Attaching(requests) /\ requests[1].method # "attach"
  BY <1>1 DEF AttachInv, Attaching
<1>4. AttachAhead(todo, pc' \in Early) <=> AttachAhead(todo, pc \in Early)
  OBVIOUS
<1>5. requests' = p
  BY DEF p
<1>6. CASE Head(requests).method = "attach"
  <2>1. Attaching(requests)
    BY <1>1, <1>6 DEF Attaching
  <2>2. ~AttachAhead(todo, pc \in Early) /\ ~Attaching(p)
    BY <1>1, <1>3, <1>6, <2>1 DEF AttachInv
  <2>3. QED
    BY <1>2, <1>4, <1>5, <2>2 DEF AttachInv
<1>7. CASE Head(requests).method # "attach"
  BY <1>2, <1>3, <1>4, <1>5, <1>7 DEF AttachInv
<1>8. QED
  BY <1>6, <1>7

-----------------------------------------------------------------------------
(* The streams, step by step.                                              *)

StreamInv == DownInv /\ SendsInv /\ AttachInv

\* What a step keeps, and what it is for the pipes.
StreamKeeps ==
  /\ StreamInv'
  /\ [Shown!Next]_<<produced, ShownNext, shown>>
  /\ [Typed!Next]_<<typed, TypedNext, written>>

\* What the command makes of its steps, short of asking.
Moves ==
  \/ todo' = todo /\ pc' = "over"
  \/ todo' = todo /\ pc' = pc
  \/ todo' = todo /\ pc = "next" /\ pc' \in Streaming \cup {"send"}
  \/ todo' = todo /\ todo # <<>> /\ Head(todo).how = "probe" /\ pc' = "next"
  \/ todo' = Tail(todo) /\ todo # <<>> /\ pc' = "next"
  \/ todo' = Again /\ todo # <<>> /\ Head(todo).how = "retry" /\ pc' = "next"

\* The attach stays what it was.
LEMMA AttachMoves ==
  ASSUME ClientTyped, AttachInv, Moves, UNCHANGED <<requests, attached>>
  PROVE  AttachInv'
<1>1. CASE /\ todo' = todo
           /\ (pc' \in Early => pc \in Early) \/ (todo # <<>> /\ Head(todo).how = "probe")
  BY <1>1, AttachStays
<1>2. CASE todo' = Tail(todo) /\ todo # <<>>
  BY <1>2, AttachTail
<1>3. CASE todo' = Again /\ todo # <<>> /\ Head(todo).how = "retry"
  BY <1>3, AttachAgain
<1>4. QED
  BY <1>1, <1>2, <1>3 DEF Moves, Streaming, Early

\* A failure is passed over, or ends the command.
LEMMA FailsMoves == ASSUME Fails, todo # <<>> PROVE Moves /\ pc' \in {"next", "over"}
BY DEF Fails, End, Moves

\* A step in which nothing is said or heard.
LEMMA StreamSilent ==
  ASSUME StreamInv, ClientTyped', Moves,
         UNCHANGED <<inbox, hand, cursor, attached, shown, requests, taken, written>>,
         produced' \in {produced, produced + 1}, typed' \in {typed, typed + 1},
         pc' \notin {"bridge", "over"} => pc \notin {"bridge", "over"}
  PROVE  StreamKeeps
<1>1. ClientTyped
  BY DEF StreamInv, DownInv
<1>2. DownInv' /\ [Shown!Next]_<<produced, ShownNext, shown>>
  BY DownSame DEF StreamInv
<1>3. UpInv' /\ [Typed!Next]_<<typed, TypedNext, written>>
  BY <1>1, UpSame DEF StreamInv, UpInv
<1>4. AttachInv'
  BY <1>1, AttachMoves DEF StreamInv
<1>5. QED
  BY <1>2, <1>3, <1>4 DEF StreamKeeps, StreamInv, UpInv

\* A message is read by a call.
LEMMA StreamHears ==
  ASSUME StreamInv, ClientTyped', pc = "await", inbox # <<>>, inbox' = Tail(inbox), Moves,
         UNCHANGED <<hand, cursor, attached, produced, shown, requests, taken, typed, written>>
  PROVE  StreamKeeps
<1>1. ClientTyped /\ hand = <<>>
  BY DEF StreamInv, DownInv, HandInv
<1>2. DownInv' /\ [Shown!Next]_<<produced, ShownNext, shown>>
  BY <1>1, DownPasses DEF StreamInv
<1>3. UpInv' /\ [Typed!Next]_<<typed, TypedNext, written>>
  BY <1>1, UpSame DEF StreamInv, UpInv
<1>4. AttachInv'
  BY <1>1, AttachMoves DEF StreamInv
<1>5. QED
  BY <1>2, <1>3, <1>4 DEF StreamKeeps, StreamInv, UpInv

\* A step of the daemon's or the bridge's that tells the client of the device.
LEMMA StreamTold ==
  ASSUME StreamInv, ClientTyped', DownInv' /\ [Shown!Next]_<<produced, ShownNext, shown>>,
         UNCHANGED <<pc, todo, attached, requests, taken, typed, written>>
  PROVE  StreamKeeps
<1>1. ClientTyped /\ Moves
  BY DEF StreamInv, DownInv, Moves
<1>2. UpInv' /\ [Typed!Next]_<<typed, TypedNext, written>>
  BY <1>1, UpSame DEF StreamInv, UpInv
<1>3. AttachInv'
  BY <1>1, AttachMoves DEF StreamInv
<1>4. QED
  BY <1>2, <1>3 DEF StreamKeeps, StreamInv, UpInv

\* A request goes out, or cannot.
LEMMA StreamCall ==
  ASSUME StreamInv, ClientInv, ClientTyped', SendOut \/ SendFails
  PROVE  StreamKeeps
<1>1. /\ pc = "send" /\ todo # <<>>
      /\ UNCHANGED <<inbox, hand, cursor, attached, produced, shown, taken, typed, written>>
  BY DEF SendOut, SendFails, theirs, ClientInv, Numbered
<1>2. ClientTyped /\ Head(todo) \in StepSet
  BY <1>1 DEF StreamInv, DownInv, ClientTyped
<1>3. CASE UNCHANGED requests /\ Fails
  <2>1. Moves
    BY <1>1, <1>3, FailsMoves
  <2>2. QED
    BY <1>1, <1>3, <2>1, StreamSilent
<1>4. CASE /\ requests' = Append(requests, Request(Head(todo).method, <<>>))
           /\ pc' = "await" /\ UNCHANGED todo
  <2>1. DownInv' /\ [Shown!Next]_<<produced, ShownNext, shown>>
    BY <1>1, <1>4, DownSame DEF StreamInv
  <2>2. Head(todo).method \in Methods
    BY <1>2 DEF StepSet
  <2>3. UpInv' /\ [Typed!Next]_<<typed, TypedNext, written>>
    BY <1>1, <1>2, <1>4, <2>2, UpCalls DEF StreamInv, UpInv
  <2>4. AttachInv'
    BY <1>1, <1>2, <1>4, AttachCalled DEF StreamInv, Early
  <2>5. QED
    BY <2>1, <2>3, <2>4 DEF StreamKeeps, StreamInv, UpInv
<1>5. QED
  BY <1>3, <1>4 DEF SendOut, SendFails

\* A step of the command in which no message is read.
LEMMA StreamDeaf ==
  ASSUME StreamInv, ClientInv, ClientTyped',
         Call \/ NoPattern \/ Finish \/ StopProbing \/ NoAnswer
  PROVE  StreamKeeps
<1>1. UNCHANGED <<inbox, hand, cursor, attached, produced, shown, requests, taken, typed, written>>
  BY DEF Call, NoPattern, Finish, StopProbing, NoAnswer, ours, theirs
<1>2. CASE Finish
  <2>1. pc = "next" /\ todo' = todo /\ pc' \in {"tail", "bridge", "over"}
    BY <1>2 DEF Finish, End
  <2>2. Moves
    BY <2>1 DEF Moves, Streaming
  <2>3. QED
    BY <1>1, <2>1, <2>2, StreamSilent
<1>3. CASE StopProbing
  <2>1. pc = "next" /\ pc' = "next" /\ todo # <<>> /\ todo' = Tail(todo)
    BY <1>3 DEF StopProbing
  <2>2. Moves
    BY <2>1 DEF Moves
  <2>3. QED
    BY <1>1, <2>1, <2>2, StreamSilent
<1>4. CASE NoAnswer
  <2>1. pc = "await" /\ Fails /\ todo # <<>>
    BY <1>4 DEF NoAnswer, ClientInv, Numbered
  <2>2. Moves /\ pc' \in {"next", "over"}
    BY <2>1, FailsMoves
  <2>3. QED
    BY <1>1, <2>1, <2>2, StreamSilent
<1>5. CASE Call \/ NoPattern
  <2>1. pc = "next" /\ todo' = todo /\ pc' \in {"send", "over"}
    BY <1>5 DEF Call, NoPattern, End, ours
  <2>2. Moves
    BY <2>1 DEF Moves
  <2>3. QED
    BY <1>1, <2>1, <2>2, StreamSilent
<1>6. QED
  BY <1>2, <1>3, <1>4, <1>5

\* A step of the command in which one is.
LEMMA StreamAnswered ==
  ASSUME StreamInv, ClientInv, ClientTyped',
         \/ Skip \/ ReturnOk \/ ReturnDisconnected
         \/ ReturnError \/ ReturnClosed \/ ReturnTimeout
  PROVE  StreamKeeps
<1>1. /\ pc = "await" /\ inbox # <<>> /\ inbox' = Tail(inbox)
      /\ UNCHANGED <<hand, cursor, attached, produced, shown, requests, taken, typed, written>>
  BY DEF Skip, ReturnOk, ReturnDisconnected, ReturnError, ReturnClosed, ReturnTimeout, Returns,
         ours, theirs
<1>2. todo # <<>>
  BY <1>1 DEF ClientInv, Numbered
<1>3. Moves
  <2>1. CASE Skip
    BY <2>1 DEF Skip, ours, Moves
  <2>2. CASE ReturnOk
    BY <1>2, <2>2 DEF ReturnOk, End, Moves
  <2>3. CASE ReturnDisconnected
    <3>1. CASE Head(todo).how = "retry" /\ cmd.auto
      BY <1>2, <2>3, <3>1 DEF ReturnDisconnected, Moves
    <3>2. CASE ~(Head(todo).how = "retry" /\ cmd.auto)
      BY <1>2, <2>3, <3>2, FailsMoves DEF ReturnDisconnected
    <3>3. QED
      BY <3>1, <3>2
  <2>4. CASE ReturnError
    BY <1>2, <2>4, FailsMoves DEF ReturnError
  <2>6. CASE ReturnClosed
    BY <1>2, <2>6, FailsMoves DEF ReturnClosed, Moves
  <2>5. CASE ReturnTimeout
    <3>1. CASE Head(todo).how = "probe"
      BY <1>2, <2>5, <3>1 DEF ReturnTimeout, Moves
    <3>2. CASE Head(todo).how # "probe"
      BY <1>2, <2>5, <3>2, FailsMoves DEF ReturnTimeout
    <3>3. QED
      BY <3>1, <3>2
  <2>7. QED
    BY <2>1, <2>2, <2>3, <2>4, <2>5, <2>6
<1>4. QED
  BY <1>1, <1>3, StreamHears

\* A step of the tool's, the device's or the network's, or the end of a stream.
LEMMA StreamAround ==
  ASSUME StreamInv, ClientTyped',
         StreamEof \/ BridgeEnds \/ ToolTypes \/ DeviceSends \/ LoseDaemon \/ UNCHANGED vars
  PROVE  StreamKeeps
<1>1. UNCHANGED <<inbox, hand, cursor, attached, shown, requests, taken, written>>
  BY DEF StreamEof, BridgeEnds, ToolTypes, DeviceSends, LoseDaemon, ours, theirs, vars
<1>2. produced' \in {produced, produced + 1} /\ typed' \in {typed, typed + 1}
  BY DEF StreamEof, BridgeEnds, ToolTypes, DeviceSends, LoseDaemon, theirs, vars
<1>3. todo' = todo /\ pc' \in {pc, "over"}
  BY DEF StreamEof, BridgeEnds, ToolTypes, DeviceSends, LoseDaemon, ours, vars, End
<1>4. Moves
  BY <1>3 DEF Moves
<1>5. QED
  BY <1>1, <1>2, <1>3, <1>4, StreamSilent

\* The tool's bytes go out.
LEMMA StreamTakes == ASSUME StreamInv, ClientTyped', BridgeTakes PROVE StreamKeeps
<1>1. /\ pc = "bridge" /\ pc' \in {"bridge", "over"} /\ todo' = todo
      /\ UNCHANGED <<inbox, hand, cursor, attached, produced, shown>>
  BY DEF BridgeTakes, theirs, End
<1>2. \/ UNCHANGED requests
      \/ \E d : requests' = Append(requests, Request("typed", d))
  BY DEF BridgeTakes
<1>3. ClientTyped
  BY DEF StreamInv, DownInv
<1>4. DownInv' /\ [Shown!Next]_<<produced, ShownNext, shown>>
  BY <1>1, DownSame DEF StreamInv
<1>5. UpInv' /\ [Typed!Next]_<<typed, TypedNext, written>>
  BY <1>3, UpTakes DEF StreamInv, UpInv
<1>6. AttachInv'
  <2>1. CASE UNCHANGED requests
    BY <1>1, <1>3, <2>1, AttachStays DEF StreamInv, Early
  <2>2. ASSUME NEW d, requests' = Append(requests, Request("typed", d)) PROVE AttachInv'
    <3>1. Request("typed", d).method # "attach"
      BY DEF Request
    <3>2. QED
      BY <1>1, <1>3, <2>2, <3>1, AttachOther DEF StreamInv, Early
  <2>3. QED
    BY <1>2, <2>1, <2>2
<1>7. QED
  BY <1>4, <1>5, <1>6 DEF StreamKeeps, StreamInv, UpInv

\* The daemon takes up a call.
LEMMA StreamHandle == ASSUME StreamInv, ClientTyped', Handle PROVE StreamKeeps
<1>1. /\ requests # <<>> /\ requests' = Tail(requests) /\ Head(requests).method # "typed"
      /\ UNCHANGED <<pc, todo, inbox, hand, produced, shown, taken, typed, written>>
  BY DEF Handle, ours
<1>2. \/ /\ Head(requests).method = "attach" /\ attached' = TRUE
         /\ cursor' = IF cmd.from = "now" THEN produced ELSE 0
      \/ UNCHANGED <<attached, cursor>>
  BY DEF Handle
<1>3. ClientTyped
  BY DEF StreamInv, DownInv
<1>4. DownInv' /\ [Shown!Next]_<<produced, ShownNext, shown>>
  <2>1. CASE UNCHANGED <<attached, cursor>>
    BY <1>1, <2>1, DownSame DEF StreamInv
  <2>2. CASE /\ Head(requests).method = "attach" /\ attached' = TRUE
             /\ cursor' = IF cmd.from = "now" THEN produced ELSE 0
    <3>1. Head(requests) = requests[1] /\ 1 \in 1..Len(requests)
      BY <1>1, <1>3 DEF ClientTyped
    <3>2. Attaching(requests)
      BY <2>2, <3>1 DEF Attaching
    <3>3. ~attached
      BY <3>2 DEF StreamInv, AttachInv
    <3>4. cursor' \in {0, produced} /\ attached'
      BY <2>2
    <3>5. QED
      BY <1>1, <3>3, <3>4, DownAttach DEF StreamInv
  <2>3. QED
    BY <1>2, <2>1, <2>2
<1>5. UpInv' /\ [Typed!Next]_<<typed, TypedNext, written>>
  BY <1>1, <1>3, UpHandles DEF StreamInv, UpInv
<1>6. attached' => attached \/ Head(requests).method = "attach"
  BY <1>2
<1>7. AttachInv'
  BY <1>1, <1>3, <1>6, AttachTaken DEF StreamInv
<1>8. QED
  BY <1>4, <1>5, <1>7 DEF StreamKeeps, StreamInv, UpInv

\* The daemon takes up a send of the bridge.
LEMMA StreamHandleTyped == ASSUME StreamInv, ClientTyped', HandleTyped PROVE StreamKeeps
<1>1. /\ requests # <<>> /\ requests' = Tail(requests)
      /\ UNCHANGED <<pc, todo, inbox, hand, cursor, attached, produced, shown>>
  BY DEF HandleTyped, ours
<1>2. ClientTyped
  BY DEF StreamInv, DownInv
<1>3. DownInv' /\ [Shown!Next]_<<produced, ShownNext, shown>>
  BY <1>1, DownSame DEF StreamInv
<1>4. UpInv' /\ [Typed!Next]_<<typed, TypedNext, written>>
  BY <1>2, UpWrites DEF StreamInv, UpInv
<1>5. AttachInv'
  BY <1>1, <1>2, AttachTaken DEF StreamInv
<1>6. QED
  BY <1>3, <1>4, <1>5 DEF StreamKeeps, StreamInv, UpInv

\* The daemon answers or notifies, and what is read of it is shown or dropped.
LEMMA StreamDown ==
  ASSUME StreamInv, ClientTyped',
         Reply \/ Notify \/ TailReads \/ BridgeReads \/ BridgeWrites \/ BridgeDrops
  PROVE  StreamKeeps
<1>1. UNCHANGED <<pc, todo, attached, requests, taken, typed, written>>
  BY DEF Reply, Notify, TailReads, BridgeReads, BridgeWrites, BridgeDrops, ours, theirs
<1>2. DownInv' /\ [Shown!Next]_<<produced, ShownNext, shown>>
  <2>1. CASE Reply
    <3>1. PICK a \in serving : inbox' = Append(inbox, a)
      BY <2>1 DEF Reply
    <3>2. a \in AnswerSet /\ UNCHANGED <<pc, hand, cursor, attached, produced, shown>>
      BY <2>1 DEF Reply, StreamInv, DownInv, ClientTyped
    <3>3. QED
      BY <3>1, <3>2, DownReply DEF StreamInv
  <2>2. CASE Notify
    BY <2>2, DownNotify DEF StreamInv
  <2>3. CASE TailReads
    BY <2>3, DownTail DEF StreamInv
  <2>4. CASE BridgeReads
    BY <2>4, DownTakes DEF StreamInv
  <2>5. CASE BridgeWrites
    BY <2>5, DownWrites DEF StreamInv
  <2>6. CASE BridgeDrops
    BY <2>6, DownDrops DEF StreamInv
  <2>7. QED
    BY <2>1, <2>2, <2>3, <2>4, <2>5, <2>6
<1>3. QED
  BY <1>1, <1>2, StreamTold

\* Every step.
LEMMA StreamStep == ASSUME StreamInv, ClientInv, ClientTyped', [Next]_vars PROVE StreamKeeps
BY StreamCall, StreamDeaf, StreamAnswered, StreamAround, StreamTakes, StreamHandle,
   StreamHandleTyped, StreamDown DEF Next, ClientStep

\* At the start nothing is on its way.
LEMMA StreamStarts ==
  ASSUME Init, ClientTyped
  PROVE  StreamInv /\ Shown!Init /\ Typed!Init
<1>1. /\ cmd.name \in Commands /\ todo = Steps(cmd.name) /\ pc = "next"
      /\ hand = <<>> /\ taken = 0 /\ requests = <<>> /\ inbox = <<>>
      /\ ~attached /\ cursor = 0 /\ produced = 0 /\ typed = 0 /\ written = <<>> /\ shown = <<>>
  BY DEF Init
<1>2. NewsAt(inbox) = {} /\ SendsAt(requests) = {}
  BY <1>1 DEF NewsAt, SendsAt
<1>3. /\ Spans(NewsAt(inbox), NewsLo(inbox), NewsHi(inbox), 0)
      /\ Spans(SendsAt(requests), SendsLo(requests), SendsHi(requests), 0)
  <2>1. /\ NewsLo(inbox) \in [NewsAt(inbox) -> Nat] /\ NewsHi(inbox) \in [NewsAt(inbox) -> Nat]
        /\ SendsLo(requests) \in [SendsAt(requests) -> Nat]
        /\ SendsHi(requests) \in [SendsAt(requests) -> Nat]
    BY <1>2 DEF NewsLo, NewsHi, SendsLo, SendsHi
  <2>2. ASSUME NEW N, N = {}, NEW lo \in [N -> Nat], NEW hi \in [N -> Nat] PROVE Spans(N, lo, hi, 0)
    BY <2>2 DEF Spans
  <2>3. QED
    BY <1>2, <2>1, <2>2
<1>4. NewsInv /\ FreshInv
  BY <1>1, <1>2, <1>3 DEF NewsInv, FreshInv, NewsSpans
<1>5. HandInv
  BY <1>1 DEF HandInv
<1>6. SendsInv
  BY <1>1, <1>2, <1>3 DEF SendsInv, SendsSpans
<1>7. AttachInv
  <2>1. AttachOnly(todo)
    BY <1>1, PlannedOnce
  <2>2. ~Attaching(requests) /\ 1..Len(requests) = {}
    BY <1>1 DEF Attaching
  <2>3. QED
    BY <1>1, <2>1, <2>2 DEF AttachInv
<1>8. StreamInv
  BY <1>4, <1>5, <1>6, <1>7 DEF StreamInv, DownInv
<1>9. Shown!Init
  <2>1. ShownNext = 0
    <3>1. ShownNext = NewsFirst(inbox, cursor) /\ NewsFirst(inbox, cursor) = cursor
      BY <1>1, <1>2, <1>8, ShownNow DEF StreamInv
    <3>2. QED
      BY <1>1, <3>1
  <2>2. QED
    BY <1>1, <2>1 DEF Shown!Init
<1>10. Typed!Init
  <2>1. TypedNext = SendsFirst(requests, taken) /\ SendsFirst(requests, taken) = taken
    BY <1>2, <1>8, TypedNow DEF StreamInv, DownInv, UpInv, SendsFirst, Earliest
  <2>2. QED
    BY <1>1, <2>1 DEF Typed!Init
<1>11. QED
  BY <1>8, <1>9, <1>10

-----------------------------------------------------------------------------
(* The theorems.                                                           *)

\* The invariant is one.
LEMMA ClientInvariant == Spec => []ClientInv
BY Starts, ClientKept, PTL DEF Spec

\* What a command does to the device it does once and in order, whatever is
\* tried again (call_or_retry) and whichever answers come late.
THEOREM EffectsOnce == Spec => []DoneOnce
<1>1. ClientInv => DoneOnce
  <2> SUFFICES ASSUME ClientInv PROVE DoneOnce
    OBVIOUS
  <2>1. /\ done \in Seq(Effects) /\ Wanted \in Seq(Effects)
        /\ Len(done) <= Len(Wanted) /\ \A i \in 1..Len(done) : done[i] = Wanted[i]
    BY WantedEffects DEF ClientInv, ClientTyped, Progress
  <2> DEFINE n == Len(done)
             s == SubSeq(Wanted, 1, n)
  <2>2. n \in Nat /\ n <= Len(Wanted)
    BY <2>1
  <2>3. s \in Seq(Effects) /\ Len(s) = n /\ \A i \in 1..n : s[i] = Wanted[i]
    BY <2>1, <2>2
  <2>4. SubSeq(done, 1, n) = done
    BY <2>1
  <2> HIDE DEF s
  <2>5. s = done
    BY <2>1, <2>3, SeqEqual
  <2>6. QED
    BY <2>1, <2>4, <2>5 DEF DoneOnce, IsPrefix, s
<1>2. QED
  BY ClientInvariant, <1>1, PTL

\* A command that says it went well, or begins to stream, did all of it.
THEOREM OkIsDone == Spec => []OkMeansDone
<1>1. ClientInv => OkMeansDone
  <2> SUFFICES ASSUME ClientInv, outcome = "ok" \/ pc \in Streaming PROVE done = Wanted
    BY DEF OkMeansDone
  <2>1. /\ done \in Seq(Effects) /\ Wanted \in Seq(Effects)
        /\ Len(done) \in 0..Len(Wanted) /\ \A i \in 1..Len(done) : done[i] = Wanted[i]
    BY WantedEffects DEF ClientInv, ClientTyped, Progress
  <2>2. Matches(Wanted, <<>>, Len(done))
    BY DEF ClientInv, Complete, NotYet
  <2>3. Len(done) = Len(Wanted)
    BY <2>1, <2>2, MatchesNothing
  <2>4. QED
    BY <2>1, <2>3, SeqEqual
<1>2. QED
  BY ClientInvariant, <1>1, PTL

\* The terminal, or the tool on the pty, is shown the device's bytes once and in
\* order, and the device gets the tool's bytes once and in order (tail_loop,
\* run_pty_bridge): both directions are the pipe of LossyPipe, which loses bytes
\* but neither repeats nor reorders one.
THEOREM StreamsKept == Spec => StreamsInOrder
<1>1. Init => ClientInv /\ StreamInv /\ Shown!Init /\ Typed!Init
  BY Starts, StreamStarts DEF ClientInv
<1>2. ClientInv /\ StreamInv /\ [Next]_vars => ClientInv' /\ StreamKeeps
  BY ClientKept, StreamStep DEF ClientInv
<1>3. ClientInv /\ StreamInv /\ [Next]_vars =>
        /\ ClientInv' /\ StreamInv'
        /\ [Shown!Next]_<<produced, ShownNext, shown>>
        /\ [Typed!Next]_<<typed, TypedNext, written>>
  BY <1>2 DEF StreamKeeps
<1>4. QED
  BY <1>1, <1>3, PTL DEF Spec, StreamsInOrder, Shown!Spec, Typed!Spec

=============================================================================
