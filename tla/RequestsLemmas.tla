---------------------------- MODULE RequestsLemmas ----------------------------
(***************************************************************************)
(* What the operators of Steps, Auth and Bodies compute, for all inputs:   *)
(* the streams of a step, the tokens of a list, the parts of a body.  The  *)
(* inductions over a list are by a least counterexample.                   *)
(***************************************************************************)
EXTENDS Requests, FiniteSetTheorems, SequenceTheorems, WellFoundedInduction, TLAPS

-----------------------------------------------------------------------------
(* Loops *)

\* A set of numbers that is not empty has a least element.
LEMMA LeastNumber ==
    ASSUME NEW T \in SUBSET Nat, T # {}
    PROVE  \E n \in T : \A m \in T : n <= m
<1> DEFINE R == OpToRel(<, Nat)
<1>1. IsWellFoundedOn(R, Nat)
  BY NatLessThanWellFounded
<1>2. \A x, y \in Nat : <<x, y>> \in R <=> x < y
  BY DEF OpToRel
<1> HIDE DEF R
<1>3. PICK n \in T : \A m \in T : ~(<<m, n>> \in R)
  BY <1>1, WFMin
<1>4. ASSUME NEW m \in T
      PROVE  n <= m
  <2>1. ~(m < n)
    BY <1>2, <1>3
  <2> QED BY <2>1
<1> QED BY <1>4

\* The results of a loop over 1..N that starts from `a`.
IsRound(round, N, S) == round \in [(1 .. N) \X S -> S]

IsLoop(f, N, S, a, round) ==
    /\ f \in [0 .. N -> S]
    /\ f[0] = a
    /\ \A n \in 1 .. N : f[n] = round[<<n, f[n - 1]>>]

\* A loop has a result after each round.
LEMMA LoopRuns ==
    ASSUME NEW N \in Nat, NEW S, NEW a \in S, NEW round, IsRound(round, N, S)
    PROVE  \E f : IsLoop(f, N, S, a, round)
<1> DEFINE Runs(n) == \E f : IsLoop(f, n, S, a, round)
           T == {n \in 0 .. N : ~Runs(n)}
<1>1. SUFFICES ASSUME T # {} PROVE FALSE
  <2>1. N \in 0 .. N
    OBVIOUS
  <2> QED BY <2>1
<1>2. T \in SUBSET Nat
  OBVIOUS
<1>3. PICK n \in T : \A m \in T : n <= m
  <2> HIDE DEF T
  <2> QED BY <1>1, <1>2, LeastNumber
<1>4. CASE n = 0
  <2> DEFINE g == [i \in 0 .. 0 |-> a]
  <2>1. g \in [0 .. 0 -> S] /\ g[0] = a /\ 1 .. 0 = {}
    OBVIOUS
  <2> HIDE DEF g
  <2>2. IsLoop(g, 0, S, a, round)
    BY <2>1 DEF IsLoop
  <2> QED BY <1>4, <2>2
<1>5. CASE n # 0
  <2>1. n \in 1 .. N /\ n - 1 \in 0 .. N /\ n - 1 < n
    BY <1>5
  <2>2. Runs(n - 1)
    BY <1>3, <2>1
  <2>3. PICK f : IsLoop(f, n - 1, S, a, round)
    BY <2>2
  <2>4. /\ f \in [0 .. (n - 1) -> S]
        /\ f[0] = a
        /\ \A m \in 1 .. (n - 1) : f[m] = round[<<m, f[m - 1]>>]
    BY <2>3 DEF IsLoop
  <2> DEFINE g == [m \in 0 .. n |-> IF m = n THEN round[<<n, f[n - 1]>>] ELSE f[m]]
  <2>5. round[<<n, f[n - 1]>>] \in S
    BY <2>1, <2>4 DEF IsRound
  <2>6. g \in [0 .. n -> S]
    BY <2>1, <2>4, <2>5
  <2>7. g[0] = a
    BY <2>1, <2>4
  <2>8. ASSUME NEW m \in 1 .. n
        PROVE  g[m] = round[<<m, g[m - 1]>>]
    <3>1. g[m - 1] = f[m - 1]
      BY <2>1
    <3>2. CASE m = n
      BY <3>1, <3>2
    <3>3. CASE m # n
      <4>1. m \in 1 .. (n - 1)
        BY <2>1, <3>3
      <4> QED BY <2>1, <2>4, <3>1, <3>3, <4>1
    <3> QED BY <3>2, <3>3
  <2> HIDE DEF g
  <2>9. IsLoop(g, n, S, a, round)
    BY <2>6, <2>7, <2>8 DEF IsLoop
  <2> QED BY <2>9
<1> QED BY <1>4, <1>5

\* It has only one.
LEMMA LoopIsUnique ==
    ASSUME NEW N \in Nat, NEW f, NEW g, f[0] = g[0],
           \A n \in 1 .. N : f[n - 1] = g[n - 1] => f[n] = g[n]
    PROVE  \A n \in 0 .. N : f[n] = g[n]
<1> DEFINE T == {n \in 0 .. N : f[n] # g[n]}
<1>1. SUFFICES ASSUME T # {} PROVE FALSE
  OBVIOUS
<1>2. T \in SUBSET Nat
  OBVIOUS
<1>3. PICK n \in T : \A m \in T : n <= m
  <2> HIDE DEF T
  <2> QED BY <1>1, <1>2, LeastNumber
<1>4. n # 0 /\ n \in 0 .. N
  OBVIOUS
<1>5. n \in 1 .. N /\ n - 1 \in 0 .. N /\ n - 1 \notin T
  BY <1>3, <1>4
<1> QED BY <1>5

-----------------------------------------------------------------------------
(* The streams of a step *)

Fragment == [stream: Stream, text: Nat]

\* join_streams goes from fragment to fragment.
LEMMA JoinedStepwise ==
    ASSUME fragments \in Seq(Fragment), NEW stream
    PROVE  \E f \in [0 .. Len(fragments) -> Seq(Nat)] :
              /\ f[0] = <<>>
              /\ \A n \in 1 .. Len(fragments) :
                    f[n] = IF fragments[n].stream = stream
                           THEN Append(f[n - 1], fragments[n].text) ELSE f[n - 1]
              /\ Joined(stream) = f[Len(fragments)]
<1> DEFINE N == Len(fragments)
           push == [p \in (1 .. N) \X Seq(Nat) |->
                      IF fragments[p[1]].stream = stream
                      THEN Append(p[2], fragments[p[1]].text) ELSE p[2]]
           Following(f, n) == IF fragments[n].stream = stream
                         THEN Append(f[n - 1], fragments[n].text) ELSE f[n - 1]
           Pushed(f) == [n \in 0 .. N |-> IF n = 0 THEN <<>> ELSE Following(f, n)]
           joined == CHOOSE f : f = Pushed(f)
<1>1. N \in Nat /\ \A n \in 1 .. N : fragments[n] \in Fragment
  BY LenProperties, ElementOfSeq
<1>2. \A n \in 1 .. N : fragments[n].text \in Nat
  BY <1>1 DEF Fragment
<1>3. Joined(stream) = joined[N]
  BY DEF Joined
<1> HIDE DEF N
<1>4. IsRound(push, N, Seq(Nat))
  <2>1. push \in [(1 .. N) \X Seq(Nat) -> Seq(Nat)]
    BY <1>2
  <2> HIDE DEF push
  <2> QED BY <2>1 DEF IsRound
<1>5. PICK f : /\ f \in [0 .. N -> Seq(Nat)]
               /\ f[0] = <<>>
               /\ \A n \in 1 .. N : f[n] = push[<<n, f[n - 1]>>]
  <2>1. <<>> \in Seq(Nat)
    OBVIOUS
  <2> HIDE DEF push
  <2>2. PICK f : IsLoop(f, N, Seq(Nat), <<>>, push)
    BY <1>1, <1>4, <2>1, LoopRuns
  <2> QED BY <2>2 DEF IsLoop
<1>6. \A n \in 1 .. N : f[n] = IF fragments[n].stream = stream
                               THEN Append(f[n - 1], fragments[n].text) ELSE f[n - 1]
  <2> TAKE n \in 1 .. N
  <2>1. n - 1 \in 0 .. N
    BY <1>1
  <2>2. <<n, f[n - 1]>> \in (1 .. N) \X Seq(Nat)
    BY <1>5, <2>1
  <2> QED BY <1>5, <2>2
<1>7. f = Pushed(f)
  <2>1. \A n \in 0 .. N : f[n] = Pushed(f)[n]
    <3> TAKE n \in 0 .. N
    <3>1. CASE n = 0
      BY <1>5, <3>1
    <3>2. CASE n # 0
      <4>1. n \in 1 .. N
        BY <1>1, <3>2
      <4>2. f[n] = Following(f, n)
        BY <1>6, <4>1
      <4> HIDE DEF Following
      <4> QED BY <3>2, <4>2
    <3> QED BY <3>1, <3>2
  <2> QED BY <1>5, <2>1
<1>8. joined = Pushed(joined)
  <2> HIDE DEF Pushed
  <2> QED BY <1>7
<1> HIDE DEF joined
<1>9. \A n \in 0 .. N : joined[n] = f[n]
  <2>1. joined[0] = f[0]
    BY <1>1, <1>5, <1>8
  <2>2. ASSUME NEW n \in 1 .. N, joined[n - 1] = f[n - 1]
        PROVE  joined[n] = f[n]
    <3>1. n \in 0 .. N /\ n # 0
      BY <1>1
    <3>2. joined[n] = IF fragments[n].stream = stream
                      THEN Append(joined[n - 1], fragments[n].text) ELSE joined[n - 1]
      BY <1>8, <3>1
    <3> QED BY <1>6, <2>2, <3>2
  <2>3. \A n \in 1 .. N : joined[n - 1] = f[n - 1] => joined[n] = f[n]
    <3> TAKE n \in 1 .. N
    <3> QED BY <2>2
  <2>4. N \in Nat
    BY <1>1
  <2> HIDE DEF Pushed, push, Following
  <2> QED BY <2>1, <2>3, <2>4, LoopIsUnique
<1>10. Joined(stream) = f[N]
  BY <1>1, <1>3, <1>9
<1> QED BY <1>5, <1>6, <1>10 DEF N

\* Two texts that share out the fragments 1..n, each in order.
Ascending(s, n) ==
    /\ s \in Seq(Nat)
    /\ \A i \in 1 .. Len(s) : s[i] <= n
    /\ \A i, j \in 1 .. Len(s) : i < j => s[i] < s[j]

Occurs(m, s) == \E i \in 1 .. Len(s) : s[i] = m

Shared(out, err, n) ==
    /\ Ascending(out, n) /\ Ascending(err, n)
    /\ Len(out) + Len(err) = n
    /\ \A m \in 1 .. n : Occurs(m, out) \/ Occurs(m, err)

LEMMA AscendingAppend ==
    ASSUME NEW n \in Nat, NEW s, Ascending(s, n)
    PROVE  /\ Ascending(s, n + 1)
           /\ Ascending(Append(s, n + 1), n + 1)
           /\ Len(Append(s, n + 1)) = Len(s) + 1
           /\ Occurs(n + 1, Append(s, n + 1))
           /\ \A m : Occurs(m, s) => Occurs(m, Append(s, n + 1))
<1> DEFINE l == Len(s)
           a == Append(s, n + 1)
<1>1. /\ s \in Seq(Nat) /\ l \in Nat /\ n + 1 \in Nat
      /\ \A i \in 1 .. l : s[i] \in Nat /\ s[i] <= n
      /\ \A i, j \in 1 .. l : i < j => s[i] < s[j]
  BY LenProperties, ElementOfSeq DEF Ascending
<1>2. /\ a \in Seq(Nat) /\ Len(a) = l + 1
      /\ \A i \in 1 .. l : a[i] = s[i]
      /\ a[l + 1] = n + 1
  BY <1>1, AppendProperties
<1>3. Ascending(s, n + 1)
  <2>1. \A i \in 1 .. l : s[i] <= n + 1
    BY <1>1
  <2> QED BY <1>1, <2>1 DEF Ascending
<1> HIDE DEF a, l
<1>4. \A i \in 1 .. l + 1 : i = l + 1 \/ i \in 1 .. l
  BY <1>1
<1>5. Ascending(a, n + 1)
  <2>1. \A i \in 1 .. l + 1 : a[i] <= n + 1
    BY <1>1, <1>2, <1>4
  <2>2. ASSUME NEW i \in 1 .. l + 1, NEW j \in 1 .. l + 1, i < j
        PROVE  a[i] < a[j]
    <3>1. i \in 1 .. l
      BY <1>1, <2>2
    <3>2. CASE j \in 1 .. l
      BY <1>1, <1>2, <2>2, <3>1, <3>2
    <3>3. CASE j = l + 1
      BY <1>1, <1>2, <3>1, <3>3
    <3> QED BY <1>4, <3>2, <3>3
  <2> QED BY <1>2, <2>1, <2>2 DEF Ascending
<1>6. Occurs(n + 1, a)
  <2>1. l + 1 \in 1 .. l + 1
    BY <1>1
  <2> QED BY <1>2, <2>1 DEF Occurs
<1>7. ASSUME NEW m, Occurs(m, s)
      PROVE  Occurs(m, a)
  <2>1. PICK i \in 1 .. l : s[i] = m
    BY <1>7 DEF Occurs, l
  <2>2. i \in 1 .. l + 1 /\ a[i] = m
    BY <1>1, <1>2, <2>1
  <2> QED BY <1>2, <2>2 DEF Occurs
<1> QED BY <1>2, <1>3, <1>5, <1>6, <1>7 DEF a, l

LEMMA SharedAppend ==
    ASSUME NEW n \in Nat, NEW out, NEW err, Shared(out, err, n)
    PROVE  /\ Shared(Append(out, n + 1), err, n + 1)
           /\ Shared(out, Append(err, n + 1), n + 1)
<1>1. Ascending(out, n) /\ Ascending(err, n)
  BY DEF Shared
<1>2. Len(out) \in Nat /\ Len(err) \in Nat /\ Len(out) + Len(err) = n
  BY <1>1, LenProperties DEF Shared, Ascending
<1>3. \A m \in 1 .. n + 1 : m = n + 1 \/ m \in 1 .. n
  OBVIOUS
<1>4. Shared(Append(out, n + 1), err, n + 1)
  <2>1. \A m \in 1 .. n + 1 : Occurs(m, Append(out, n + 1)) \/ Occurs(m, err)
    BY <1>1, <1>3, AscendingAppend DEF Shared
  <2>2. Len(Append(out, n + 1)) = Len(out) + 1
    BY <1>1, AscendingAppend
  <2>3. Len(Append(out, n + 1)) + Len(err) = n + 1
    BY <1>2, <2>2
  <2> QED BY <1>1, <2>1, <2>3, AscendingAppend DEF Shared
<1>5. Shared(out, Append(err, n + 1), n + 1)
  <2>1. \A m \in 1 .. n + 1 : Occurs(m, out) \/ Occurs(m, Append(err, n + 1))
    BY <1>1, <1>3, AscendingAppend DEF Shared
  <2>2. Len(Append(err, n + 1)) = Len(err) + 1
    BY <1>1, AscendingAppend
  <2>3. Len(out) + Len(Append(err, n + 1)) = n + 1
    BY <1>2, <2>2
  <2> QED BY <1>1, <2>1, <2>3, AscendingAppend DEF Shared
<1> QED BY <1>4, <1>5

\* The two streams of a step share out its fragments (join_streams).
LEMMA StreamsShare ==
    ASSUME fragments \in Seq(Fragment),
           \A i \in 1 .. Len(fragments) : fragments[i].text = i
    PROVE  Shared(Joined("stdout"), Joined("stderr"), Len(fragments))
<1> DEFINE N == Len(fragments)
<1>1. PICK f \in [0 .. N -> Seq(Nat)] :
              /\ f[0] = <<>>
              /\ \A n \in 1 .. N :
                    f[n] = IF fragments[n].stream = "stdout"
                           THEN Append(f[n - 1], fragments[n].text) ELSE f[n - 1]
              /\ Joined("stdout") = f[N]
  BY JoinedStepwise
<1>2. PICK g \in [0 .. N -> Seq(Nat)] :
              /\ g[0] = <<>>
              /\ \A n \in 1 .. N :
                    g[n] = IF fragments[n].stream = "stderr"
                           THEN Append(g[n - 1], fragments[n].text) ELSE g[n - 1]
              /\ Joined("stderr") = g[N]
  BY JoinedStepwise
<1>3. N \in Nat /\ \A n \in 1 .. N : fragments[n].stream \in Stream /\ fragments[n].text = n
  <2>1. N \in Nat /\ \A n \in 1 .. N : fragments[n] \in Fragment
    BY LenProperties, ElementOfSeq
  <2> HIDE DEF N
  <2> QED BY <2>1 DEF Fragment, N
<1> HIDE DEF N
<1> DEFINE T == {n \in 0 .. N : ~Shared(f[n], g[n], n)}
<1>4. SUFFICES ASSUME T # {} PROVE FALSE
  <2>1. N \in 0 .. N
    BY <1>3
  <2> QED BY <1>1, <1>2, <2>1 DEF N
<1>5. T \in SUBSET Nat
  BY <1>3
<1>6. PICK n \in T : \A m \in T : n <= m
  <2> HIDE DEF T
  <2> QED BY <1>4, <1>5, LeastNumber
<1>7. CASE n = 0
  <2>1. Shared(<<>>, <<>>, 0)
    <3>1. Len(<<>>) = 0 /\ <<>> \in Seq(Nat) /\ 1 .. 0 = {}
      OBVIOUS
    <3> QED BY <3>1 DEF Shared, Ascending
  <2> QED BY <1>1, <1>2, <1>7, <2>1
<1>8. CASE n # 0
  <2>1. n \in 1 .. N /\ n - 1 \in 0 .. N /\ n - 1 \in Nat /\ n = (n - 1) + 1 /\ n - 1 < n
    BY <1>3, <1>8
  <2>2. Shared(f[n - 1], g[n - 1], n - 1)
    BY <1>6, <2>1
  <2>3. /\ Shared(Append(f[n - 1], n), g[n - 1], n)
        /\ Shared(f[n - 1], Append(g[n - 1], n), n)
    BY <2>1, <2>2, SharedAppend
  <2>4. \/ fragments[n].stream = "stdout" /\ fragments[n].stream # "stderr"
        \/ fragments[n].stream = "stderr" /\ fragments[n].stream # "stdout"
    BY <1>3, <2>1 DEF Stream
  <2>5. \/ f[n] = Append(f[n - 1], n) /\ g[n] = g[n - 1]
        \/ f[n] = f[n - 1] /\ g[n] = Append(g[n - 1], n)
    BY <1>1, <1>2, <1>3, <2>1, <2>4
  <2> QED BY <2>3, <2>5
<1> QED BY <1>7, <1>8

-----------------------------------------------------------------------------
(* The tokens of a list *)

\* Of a set of positions there is a last one.
LEMMA LastPosition ==
    ASSUME NEW N \in Nat, NEW P \in SUBSET (1 .. N), P # {}
    PROVE  \E n \in P : \A m \in P : m <= n
<1> DEFINE T == {N - n : n \in P}
<1>1. T \in SUBSET Nat /\ T # {}
  <2>1. \A n \in P : N - n \in Nat
    OBVIOUS
  <2>2. PICK p : p \in P
    OBVIOUS
  <2>3. N - p \in T
    BY <2>2
  <2> QED BY <2>1, <2>3
<1>2. PICK t \in T : \A u \in T : t <= u
  <2> HIDE DEF T
  <2> QED BY <1>1, LeastNumber
<1>3. PICK n \in P : t = N - n
  OBVIOUS
<1>4. ASSUME NEW m \in P
      PROVE  m <= n
  <2>1. N - m \in T
    OBVIOUS
  <2>2. N - n <= N - m
    BY <1>2, <1>3, <2>1
  <2> QED BY <2>2
<1> QED BY <1>4

\* load_auth inserts entry after entry.
LEMMA TokensStepwise ==
    ASSUME NEW list, Len(list) \in Nat, list # <<>>, LoadAuth(list) # ConfigError
    PROVE  \E f : /\ f[0] = NoTokens
                  /\ \A n \in 1 .. Len(list) : f[n] = Inserted(f[n - 1], list[n])
                  /\ LoadAuth(list) = Policy("tokens", f[Len(list)])
<1> DEFINE N == Len(list)
           Insert(f) == [n \in 0 .. N |->
                           IF n = 0 THEN NoTokens ELSE Inserted(f[n - 1], list[n])]
           tokens == CHOOSE f : f = Insert(f)
           Runs(n) == \E f : f = [m \in 0 .. n |->
                                    IF m = 0 THEN NoTokens ELSE Inserted(f[m - 1], list[m])]
           T == {n \in 0 .. N : ~Runs(n)}
<1>1. LoadAuth(list) = Policy("tokens", tokens[N])
  BY DEF LoadAuth
<1>2. Runs(N)
  <2> SUFFICES ASSUME T # {} PROVE FALSE
    OBVIOUS
  <2>1. T \in SUBSET Nat
    OBVIOUS
  <2>2. PICK n \in T : \A m \in T : n <= m
    <3> HIDE DEF T
    <3> QED BY <2>1, LeastNumber
  <2>3. CASE n = 0
    <3> DEFINE g == [m \in 0 .. 0 |-> NoTokens]
    <3>1. g = [m \in 0 .. 0 |-> IF m = 0 THEN NoTokens ELSE Inserted(g[m - 1], list[m])]
      OBVIOUS
    <3>2. Runs(0)
      <4> HIDE DEF g
      <4> QED BY <3>1
    <3> QED BY <2>3, <3>2
  <2>4. CASE n # 0
    <3>1. n \in 1 .. N /\ n - 1 \in 0 .. N /\ n - 1 < n
      BY <2>4
    <3>2. Runs(n - 1)
      BY <2>2, <3>1
    <3>3. PICK f : f = [m \in 0 .. (n - 1) |->
                          IF m = 0 THEN NoTokens ELSE Inserted(f[m - 1], list[m])]
      BY <3>2
    <3> DEFINE g == [m \in 0 .. n |-> IF m = 0 THEN NoTokens ELSE Inserted(f[m - 1], list[m])]
    <3>4. \A m \in 0 .. (n - 1) : g[m] = f[m]
      <4> TAKE m \in 0 .. (n - 1)
      <4>1. m \in 0 .. n
        BY <3>1
      <4>2. f[m] = IF m = 0 THEN NoTokens ELSE Inserted(f[m - 1], list[m])
        BY <3>3
      <4> QED BY <4>1, <4>2
    <3>5. \A m \in 0 .. n : m # 0 => m - 1 \in 0 .. (n - 1)
      BY <3>1
    <3>6. g = [m \in 0 .. n |-> IF m = 0 THEN NoTokens ELSE Inserted(g[m - 1], list[m])]
      <4>1. \A m \in 0 .. n : (IF m = 0 THEN NoTokens ELSE Inserted(f[m - 1], list[m]))
                            = (IF m = 0 THEN NoTokens ELSE Inserted(g[m - 1], list[m]))
        <5> HIDE DEF g
        <5> QED BY <3>4, <3>5
      <4> QED BY <4>1
    <3>7. Runs(n)
      <4> HIDE DEF g
      <4> QED BY <3>6
    <3> QED BY <3>7
  <2> QED BY <2>3, <2>4
<1>3. tokens = Insert(tokens)
  BY <1>2
<1> HIDE DEF tokens
<1>4. tokens[0] = NoTokens /\ \A n \in 1 .. N : tokens[n] = Inserted(tokens[n - 1], list[n])
  <2>1. 0 \in 0 .. N /\ \A n \in 1 .. N : n \in 0 .. N /\ n # 0
    OBVIOUS
  <2>2. \A n \in 0 .. N : tokens[n] = IF n = 0 THEN NoTokens ELSE Inserted(tokens[n - 1], list[n])
    BY <1>3
  <2> HIDE DEF N
  <2> QED BY <2>1, <2>2
<1> QED BY <1>1, <1>4

\* A token has the principal of the last entry that lists it, and no other token
\* has any (HashMap::insert).
LEMMA InsertedLast ==
    ASSUME NEW tokens, NEW entry
    PROVE  /\ DOMAIN Inserted(tokens, entry) = {Token(entry)} \cup DOMAIN tokens
           /\ Inserted(tokens, entry)[Token(entry)] = Principal(entry)
           /\ \A t \in DOMAIN tokens : t # Token(entry) => Inserted(tokens, entry)[t] = tokens[t]
BY DEF Inserted

LEMMA LastEntryCounts ==
    ASSUME NEW list, Len(list) \in Nat, list # <<>>, LoadAuth(list) # ConfigError
    PROVE  LET tokens == LoadAuth(list).tokens
           IN  /\ LoadAuth(list).mode = "tokens"
               /\ DOMAIN tokens = {Token(list[i]) : i \in 1 .. Len(list)}
               /\ \A i \in 1 .. Len(list) :
                    (\A j \in 1 .. Len(list) : Token(list[j]) = Token(list[i]) => j <= i)
                        => tokens[Token(list[i])] = Principal(list[i])
<1> DEFINE N == Len(list)
<1>1. PICK f : /\ f[0] = NoTokens
               /\ \A n \in 1 .. N : f[n] = Inserted(f[n - 1], list[n])
               /\ LoadAuth(list) = Policy("tokens", f[N])
  BY TokensStepwise
<1>2. N \in Nat
  OBVIOUS
<1> HIDE DEF N
<1> DEFINE Last(i, n) == \A j \in 1 .. n : Token(list[j]) = Token(list[i]) => j <= i
           Loaded(n) == /\ DOMAIN f[n] = {Token(list[i]) : i \in 1 .. n}
                        /\ \A i \in 1 .. n : Last(i, n) => f[n][Token(list[i])] = Principal(list[i])
           T == {n \in 0 .. N : ~Loaded(n)}
<1>3. Loaded(N)
  <2> SUFFICES ASSUME T # {} PROVE FALSE
    BY <1>2
  <2>1. T \in SUBSET Nat
    BY <1>2
  <2>2. PICK n \in T : \A m \in T : n <= m
    <3> HIDE DEF T
    <3> QED BY <2>1, LeastNumber
  <2>3. CASE n = 0
    <3>1. DOMAIN f[0] = {} /\ 1 .. 0 = {}
      BY <1>1 DEF NoTokens
    <3>2. Loaded(0)
      BY <3>1
    <3> QED BY <2>3, <3>2
  <2>4. CASE n # 0
    <3>1. n \in 1 .. N /\ n - 1 \in 0 .. N /\ n - 1 < n /\ n \in Nat /\ n >= 1
      BY <1>2, <2>4
    <3>2. Loaded(n - 1)
      BY <2>2, <3>1
    <3> DEFINE new == list[n]
    <3>3. f[n] = Inserted(f[n - 1], new)
      BY <1>1, <3>1
    <3>4. \A i \in 1 .. n : i = n \/ i \in 1 .. (n - 1)
      BY <3>1
    <3>5. 1 .. (n - 1) \subseteq 1 .. n /\ n \in 1 .. n
      BY <3>1
    <3>6. DOMAIN f[n] = {Token(list[i]) : i \in 1 .. n}
      <4>1. DOMAIN f[n] = {Token(new)} \cup {Token(list[i]) : i \in 1 .. (n - 1)}
        <5>1. DOMAIN f[n - 1] = {Token(list[i]) : i \in 1 .. (n - 1)}
          BY <3>2
        <5>2. DOMAIN Inserted(f[n - 1], new) = {Token(new)} \cup DOMAIN f[n - 1]
          BY InsertedLast
        <5> QED BY <3>3, <5>1, <5>2
      <4> QED BY <3>4, <3>5, <4>1
    <3>7. ASSUME NEW i \in 1 .. n, Last(i, n)
          PROVE  f[n][Token(list[i])] = Principal(list[i])
      <4>1. CASE i = n
        <5>1. Inserted(f[n - 1], new)[Token(new)] = Principal(new)
          BY InsertedLast
        <5>2. f[n][Token(new)] = Principal(new)
          BY <3>3, <5>1
        <5> QED BY <4>1, <5>2
      <4>2. CASE i # n
        <5>1. i \in 1 .. (n - 1) /\ ~(n <= i)
          BY <3>1, <4>2
        <5>2. Token(new) # Token(list[i])
          BY <3>5, <3>7, <5>1
        <5>3. Last(i, n - 1)
          BY <3>5, <3>7
        <5>4. f[n - 1][Token(list[i])] = Principal(list[i])
          BY <3>2, <5>1, <5>3
        <5>5. Token(list[i]) \in DOMAIN f[n - 1]
          BY <3>2, <5>1
        <5>6. Inserted(f[n - 1], new)[Token(list[i])] = f[n - 1][Token(list[i])]
          <6> DEFINE old == f[n - 1]
                     t == Token(list[i])
          <6>1. t \in DOMAIN old /\ t # Token(new)
            BY <5>2, <5>5
          <6> HIDE DEF old, t, new
          <6>2. Inserted(old, new)[t] = old[t]
            BY <6>1, InsertedLast
          <6> QED BY <6>2 DEF old, t
        <5>7. f[n][Token(list[i])] = f[n - 1][Token(list[i])]
          BY <3>3, <5>6
        <5> QED BY <5>4, <5>7
      <4> QED BY <4>1, <4>2
    <3>8. Loaded(n)
      BY <3>6, <3>7
    <3> QED BY <3>8
  <2> QED BY <2>3, <2>4
<1>4. LoadAuth(list).mode = "tokens" /\ LoadAuth(list).tokens = f[N]
  BY <1>1 DEF Policy
<1> QED BY <1>3, <1>4 DEF N

\* Who is authenticated goes by the identity that the list gives it.
LEMMA CallerIsIdentity ==
    ASSUME entries \in Entries, LoadAuth(entries) # ConfigError,
           NEW client, CallerOf(client) # None
    PROVE  CallerOf(client)[1].id = Identity(client)
<1>1. Len(entries) \in Nat /\ DOMAIN entries = 1 .. Len(entries)
  <2>1. entries \in Seq(Range(entries))
    BY EntriesAssumption DEF IsList
  <2> QED BY <2>1, LenProperties
<1>2. CASE entries = <<>>
  <2>1. LoadAuth(entries).mode = "disabled"
    BY <1>2 DEF LoadAuth, Policy, ConfigError
  <2> QED BY <1>2, <2>1 DEF CallerOf, Authenticate, Identity
<1>3. CASE entries # <<>>
  <2> DEFINE N == Len(entries)
             policy == LoadAuth(entries)
             token == BearerToken(client)
             listed == {i \in 1 .. N : token = Some(Token(entries[i]))}
             last == CHOOSE i \in listed : \A j \in listed : j <= i
  <2>1. /\ policy.mode = "tokens"
        /\ DOMAIN policy.tokens = {Token(entries[i]) : i \in 1 .. N}
        /\ \A i \in 1 .. N :
             (\A j \in 1 .. N : Token(entries[j]) = Token(entries[i]) => j <= i)
                => policy.tokens[Token(entries[i])] = Principal(entries[i])
    BY <1>1, <1>3, LastEntryCounts
  <2>2. Identity(client) = <<"name", entries[last][1]>>
    BY <1>1, <1>3 DEF Identity
  <2> HIDE DEF policy, N
  <2>3. /\ token # <<>>
        /\ token[1] \in DOMAIN policy.tokens
        /\ CallerOf(client)[1].id = <<"name", policy.tokens[token[1]].name>>
    <3>1. policy.mode # "disabled"
      BY <2>1
    <3>2. CallerOf(client) =
            IF token # <<>> /\ token[1] \in DOMAIN policy.tokens
            THEN <<[id   |-> <<"name", policy.tokens[token[1]].name>>,
                    rate |-> policy.tokens[token[1]].rate]>>
            ELSE <<>>
      BY <3>1 DEF CallerOf, Authenticate, policy
    <3> HIDE DEF token
    <3> QED BY <3>2 DEF None
  <2>4. token = Some(token[1])
    BY <2>3 DEF BearerToken, Some
  <2>5. listed # {} /\ listed \in SUBSET (1 .. N)
    <3>1. PICK i \in 1 .. N : Token(entries[i]) = token[1]
      BY <2>1, <2>3
    <3> HIDE DEF token
    <3> QED BY <2>4, <3>1
  <2>6. last \in listed /\ \A j \in listed : j <= last
    <3> HIDE DEF listed
    <3>1. \E i \in listed : \A j \in listed : j <= i
      BY <1>1, <2>5, LastPosition DEF N
    <3> QED BY <3>1
  <2> HIDE DEF last
  <2>7. Token(entries[last]) = token[1] /\ last \in 1 .. N
    <3> HIDE DEF token
    <3> QED BY <2>6 DEF Some
  <2>8. \A j \in 1 .. N : Token(entries[j]) = Token(entries[last]) => j <= last
    <3> HIDE DEF token
    <3> QED BY <2>4, <2>6, <2>7
  <2>9. policy.tokens[token[1]] = Principal(entries[last])
    BY <2>1, <2>7, <2>8
  <2> QED BY <2>2, <2>3, <2>9 DEF Principal
<1> QED BY <1>2, <1>3

\* For every list that load_auth accepts: a client is let in if and only if the list
\* has its token, and is then charged in the bucket, and at the rate, of the last
\* entry with that token.
THEOREM TokensAuthenticate ==
    ASSUME NEW list, Len(list) \in Nat, list # <<>>, LoadAuth(list) # ConfigError,
           NEW client, NEW token, BearerToken(client) = Some(token)
    PROVE  LET caller == Authenticate(LoadAuth(list), client)
           IN  /\ caller # None <=> \E i \in 1 .. Len(list) : Token(list[i]) = token
               /\ \A i \in 1 .. Len(list) :
                    /\ Token(list[i]) = token
                    /\ \A j \in 1 .. Len(list) : Token(list[j]) = token => j <= i
                    => caller = Some([id   |-> <<"name", list[i][1]>>,
                                      rate |-> Principal(list[i]).rate])
<1> DEFINE N == Len(list)
           policy == LoadAuth(list)
           caller == Authenticate(policy, client)
<1>1. /\ policy.mode = "tokens"
      /\ DOMAIN policy.tokens = {Token(list[i]) : i \in 1 .. N}
      /\ \A i \in 1 .. N :
           (\A j \in 1 .. N : Token(list[j]) = Token(list[i]) => j <= i)
              => policy.tokens[Token(list[i])] = Principal(list[i])
  BY LastEntryCounts
<1>2. Some(token) # None /\ Some(token)[1] = token
  BY DEF Some, None
<1>3. caller = IF token \in DOMAIN policy.tokens
               THEN Some([id   |-> <<"name", policy.tokens[token].name>>,
                          rate |-> policy.tokens[token].rate])
               ELSE None
  <2>1. policy.mode # "disabled"
    BY <1>1
  <2> HIDE DEF policy
  <2> QED BY <1>2, <2>1 DEF Authenticate, Some, None
<1>4. \A x : Some(x) # None
  BY DEF Some, None
<1>5. caller # None <=> \E i \in 1 .. N : Token(list[i]) = token
  <2> HIDE DEF policy, caller, N
  <2> QED BY <1>1, <1>3, <1>4
<1>6. ASSUME NEW i \in 1 .. N, Token(list[i]) = token,
             \A j \in 1 .. N : Token(list[j]) = token => j <= i
      PROVE  caller = Some([id   |-> <<"name", list[i][1]>>,
                            rate |-> Principal(list[i]).rate])
  <2> HIDE DEF policy, caller, N
  <2>1. policy.tokens[token] = Principal(list[i]) /\ token \in DOMAIN policy.tokens
    BY <1>1, <1>6
  <2>2. Principal(list[i]).name = list[i][1]
    BY DEF Principal
  <2> QED BY <1>3, <2>1, <2>2
<1> HIDE DEF caller
<1> QED BY <1>5, <1>6 DEF caller

-----------------------------------------------------------------------------
(* What a body says *)

\* Two different fields are not one.
LEMMA OneField ==
    ASSUME NEW request, Cardinality(FieldsSet(request)) = 1
    PROVE  \E f : FieldsSet(request) = {f}
<1>1. FieldsSet(request) \subseteq
        {"return", "value", "exception", "futures", "pending", "undefined"}
  BY DEF FieldsSet
<1>2. IsFiniteSet({"return", "value", "exception", "futures", "pending", "undefined"})
  <2> DEFINE S1 == {} \cup {"return"}
             S2 == S1 \cup {"value"}
             S3 == S2 \cup {"exception"}
             S4 == S3 \cup {"futures"}
             S5 == S4 \cup {"pending"}
             S6 == S5 \cup {"undefined"}
  <2>1. IsFiniteSet(S1) /\ IsFiniteSet(S2) /\ IsFiniteSet(S3)
    BY FS_EmptySet, FS_AddElement
  <2> HIDE DEF S3
  <2>2. IsFiniteSet(S4) /\ IsFiniteSet(S5) /\ IsFiniteSet(S6)
    BY <2>1, FS_AddElement
  <2>3. S6 = {"return", "value", "exception", "futures", "pending", "undefined"}
    BY DEF S3
  <2> QED BY <2>2, <2>3
<1>3. IsFiniteSet(FieldsSet(request))
  BY <1>1, <1>2, FS_Subset
<1> QED BY <1>3, FS_Singleton

\* A future that is accepted has one outcome, and exactly one of its fields set.
LEMMA OutcomeOfFuture ==
    ASSUME NEW future, IntoOutcome(future) # BadRequest
    PROVE  (Option(future.return) # None) # (future.exception # None)
BY DEF IntoOutcome

\* Futures that are accepted are all there, in their order.
LEMMA OutcomesOfFutures ==
    ASSUME NEW futures, IsList(futures), IntoOutcomes(futures) # BadRequest
    PROVE  /\ Len(futures) \in Nat
           /\ DOMAIN futures = 1 .. Len(futures)
           /\ IntoOutcomes(futures) =
                Input("futures", <<>>, [i \in 1 .. Len(futures) |->
                                          IntoOutcome(futures[i]).outcomes[1]])
           /\ \A i \in 1 .. Len(futures) : IntoOutcome(futures[i]) # BadRequest
<1>1. Len(futures) \in Nat /\ DOMAIN futures = 1 .. Len(futures)
  BY LenProperties DEF IsList
<1> DEFINE outcome == [i \in DOMAIN futures |-> IntoOutcome(futures[i])]
<1>2. /\ BadRequest \notin Range(outcome)
      /\ IntoOutcomes(futures) =
           Input("futures", <<>>, [i \in DOMAIN futures |-> outcome[i].outcomes[1]])
  BY DEF IntoOutcomes
<1>3. \A i \in DOMAIN futures : outcome[i] # BadRequest
  BY <1>2 DEF Range
<1>4. \A i \in DOMAIN futures : outcome[i] = IntoOutcome(futures[i])
  OBVIOUS
<1> HIDE DEF outcome
<1>5. [i \in DOMAIN futures |-> outcome[i].outcomes[1]] =
        [i \in 1 .. Len(futures) |-> IntoOutcome(futures[i]).outcomes[1]]
  BY <1>1, <1>4
<1> QED BY <1>1, <1>2, <1>3, <1>4, <1>5

\* A function on 1..n is a sequence of length n.
LEMMA LengthOf ==
    ASSUME NEW n \in Nat, NEW s, s = [i \in 1 .. n |-> s[i]]
    PROVE  Len(s) = n /\ s \in Seq(Range(s))
<1>1. s \in [1 .. n -> Range(s)]
  BY DEF Range
<1>2. s \in Seq(Range(s))
  BY <1>1, SeqDef
<1> QED BY <1>1, <1>2, LenProperties

\* ResumeRequest::into_input: a body with exactly one field set has a branch.
LEMMA IntoInputDecides ==
    ASSUME NEW request
    PROVE  IntoInput(request) # Internal
<1>1. \A value : /\ Converted("return", value) # Internal
                 /\ Converted("raise", value) # Internal
                 /\ Converted("name", value) # Internal
      BY DEF Converted, BadRequest, Internal, Input
<1>2. \A futures : IntoOutcomes(futures) # Internal
      BY DEF IntoOutcomes, BadRequest, Internal, Input
<1>3. /\ Input("pending", <<>>, <<>>) # Internal
      /\ Input("name_undefined", <<>>, <<>>) # Internal
      BY DEF Internal, Input
<1>4. BadRequest # Internal
      BY DEF BadRequest, Internal, Input
<1>5. CASE Cardinality(FieldsSet(request)) # 1
      BY <1>4, <1>5 DEF IntoInput
<1>6. CASE Cardinality(FieldsSet(request)) = 1
  <2>1. FieldsSet(request) # {}
        BY <1>6, FS_EmptySet
  <2>2. \/ Option(request.return) # None
        \/ request.exception # None
        \/ request.pending = Some(TRUE)
        \/ Option(request.value) # None
        \/ request.undefined = Some(TRUE)
        \/ request.futures # None
        BY <2>1 DEF FieldsSet
  <2> QED BY <1>1, <1>2, <1>3, <1>6, <2>2 DEF IntoInput
<1> QED BY <1>5, <1>6

\* A body that is converted is converted as a whole (into_input, into_outcome).
LEMMA HeardInFull ==
    ASSUME NEW request, request.futures # None => IsList(request.futures[1]),
           IntoInput(request) # BadRequest
    PROVE  Said(request) = Heard(IntoInput(request))
<1>1. PICK f : FieldsSet(request) = {f}
  BY OneField DEF IntoInput
<1>2. Cardinality(FieldsSet(request)) = 1
  BY DEF IntoInput
<1>3. IntoInput(request) # Internal
  BY IntoInputDecides
<1>4. CASE request.futures = None
  <2>1. Said(request) = 1 + 0
    BY <1>2, <1>4 DEF Said
  <2>2. IntoInput(request).outcomes = <<>>
    BY <1>2, <1>3, <1>4 DEF IntoInput, Converted, Input, BadRequest
  <2> QED BY <2>1, <2>2 DEF Heard
<1>5. CASE request.futures # None
  <2> DEFINE futures == request.futures[1]
             n == Len(futures)
             returned == {i \in DOMAIN futures : Option(futures[i].return) # None}
             raised == {i \in DOMAIN futures : futures[i].exception # None}
  <2>1. f = "futures"
    BY <1>1, <1>5 DEF FieldsSet
  <2>2. IntoInput(request) = IntoOutcomes(futures)
    BY <1>1, <1>2, <1>3, <1>5, <2>1 DEF IntoInput, FieldsSet
  <2>3. /\ n \in Nat /\ DOMAIN futures = 1 .. n
        /\ \A i \in 1 .. n : IntoOutcome(futures[i]) # BadRequest
        /\ IntoInput(request) =
             Input("futures", <<>>, [i \in 1 .. n |-> IntoOutcome(futures[i]).outcomes[1]])
    <3> HIDE DEF futures
    <3> QED BY <1>5, <2>2, OutcomesOfFutures DEF futures
  <2>4. returned \cup raised = 1 .. n /\ returned \cap raised = {}
    <3> HIDE DEF futures, n
    <3>1. \A i \in 1 .. n : (i \in returned) # (i \in raised)
      BY <2>3, OutcomeOfFuture
    <3> QED BY <2>3, <3>1
  <2>5. /\ IsFiniteSet(returned) /\ IsFiniteSet(raised)
        /\ Cardinality(1 .. n) = n
    <3>1. IsFiniteSet(1 .. n) /\ Cardinality(1 .. n) = n
      <4> HIDE DEF n
      <4>1. n \in Nat
        BY <2>3
      <4> QED BY <4>1, FS_Interval
    <3> HIDE DEF returned, raised
    <3> QED BY <2>4, <3>1, FS_Subset
  <2>6. Cardinality(returned) + Cardinality(raised) = n
    <3> HIDE DEF returned, raised, n
    <3>1. Cardinality(returned) \in Nat /\ Cardinality(raised) \in Nat
      BY <2>5, FS_CardinalityType
    <3>2. Cardinality(returned \cup raised) =
            Cardinality(returned) + Cardinality(raised) - Cardinality(returned \cap raised)
      BY <2>5, FS_Union
    <3>3. Cardinality(returned \cap raised) = 0
      BY <2>4, FS_EmptySet
    <3>4. Cardinality(returned \cup raised) = n
      BY <2>4, <2>5
    <3> QED BY <3>1, <3>2, <3>3, <3>4
  <2>7. Said(request) = 1 + (Cardinality(returned) + Cardinality(raised))
    BY <1>2, <1>5 DEF Said
  <2>8. Heard(IntoInput(request)) = 1 + n
    <3> DEFINE outcomes == [i \in 1 .. n |-> IntoOutcome(futures[i]).outcomes[1]]
    <3>1. IntoInput(request).outcomes = outcomes
      BY <2>3 DEF Input
    <3>2. Len(outcomes) = n
      <4>1. outcomes = [i \in 1 .. n |-> outcomes[i]]
        OBVIOUS
      <4> HIDE DEF outcomes, n
      <4> QED BY <2>3, <4>1, LengthOf
    <3> QED BY <3>1, <3>2 DEF Heard
  <2> HIDE DEF returned, raised, n, futures
  <2> QED BY <2>6, <2>7, <2>8
<1> QED BY <1>4, <1>5

\* The inputs of a program are converted one by one.
LEMMA EachInputLength ==
    ASSUME NEW items, IsList(items)
    PROVE  /\ Len(items) \in Nat /\ DOMAIN items = 1 .. Len(items)
           /\ Len(EachInput(items)) = Len(items)
           /\ \A i \in 1 .. Len(items) : EachInput(items)[i] = ToMonty(items[i])
<1> DEFINE n == Len(items)
           each == EachInput(items)
<1>1. n \in Nat /\ DOMAIN items = 1 .. n
  BY LenProperties DEF IsList
<1>2. each = [i \in 1 .. n |-> ToMonty(items[i])]
  BY <1>1 DEF EachInput
<1>3. each = [i \in 1 .. n |-> each[i]]
  BY <1>2
<1> HIDE DEF n, each
<1> QED BY <1>1, <1>2, <1>3, LengthOf DEF n, each

\* Inputs that are bound are bound in full (inputs_for_code, inputs_for_snapshot).
LEMMA BoundInFull ==
    ASSUME NEW body, body.inputs # None => IsParsed(body.inputs[1]),
           IntoSpec(body).ok, Option(body.inputs) # None
    PROVE  Len(IntoSpec(body).inputs) = Len(body.inputs[1].items)
<1> DEFINE json == body.inputs[1]
<1>1. Option(body.inputs) = body.inputs /\ body.inputs # None
  BY DEF Option
<1>2. IsList(json.items) /\ (json.kind = "object" => Len(json.keys) = Len(json.items))
  BY <1>1 DEF IsParsed
<1>3. /\ ~BadSpec.ok
      /\ \A names, inputs : Spec(names, inputs).inputs = inputs
  BY DEF BadSpec, Spec
<1>4. Len(<<>>) = 0
  OBVIOUS
<1>5. Len(EachInput(json.items)) = Len(json.items)
  BY <1>2, EachInputLength
<1>6. CASE body.code # None /\ body.snapshot = None
  <2>1. IntoSpec(body) = InputsForCode(body.inputs)
    BY <1>1, <1>6 DEF IntoSpec
  <2> HIDE DEF json
  <2>2. \/ InputsForCode(body.inputs) = BadSpec
        \/ InputsForCode(body.inputs) = Spec(json.keys, EachInput(json.items))
        \/ InputsForCode(body.inputs) = Spec(<<>>, <<>>) /\ json.items = <<>>
    BY <1>1 DEF InputsForCode, json
  <2> QED BY <1>3, <1>4, <1>5, <2>1, <2>2 DEF json
<1>7. CASE body.code = None /\ body.snapshot # None /\ body.snapshot[1].valid
  <2> DEFINE names == body.snapshot[1].names
  <2>1. IntoSpec(body) = InputsForSnapshot(names, body.inputs)
    BY <1>1, <1>7 DEF IntoSpec
  <2> HIDE DEF json, names
  <2>2. \/ InputsForSnapshot(names, body.inputs) = BadSpec
        \/ InputsForSnapshot(names, body.inputs) = Spec(names, EachInput(json.items))
        \/ /\ InputsForSnapshot(names, body.inputs) = Spec(names, <<>>)
           /\ json.kind = "object" /\ json.keys = <<>>
    BY <1>1 DEF InputsForSnapshot, json
  <2> QED BY <1>2, <1>3, <1>4, <1>5, <2>1, <2>2 DEF json
<1>8. CASE ~(body.code # None /\ body.snapshot = None)
           /\ ~(body.code = None /\ body.snapshot # None /\ body.snapshot[1].valid)
  BY <1>3, <1>8 DEF IntoSpec
<1> QED BY <1>6, <1>7, <1>8

=============================================================================
