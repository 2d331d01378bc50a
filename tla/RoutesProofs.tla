----------------------------- MODULE RoutesProofs -----------------------------
(***************************************************************************)
(* Proofs about Routes.  A loop over a sequence is a recursive function;   *)
(* what holds of it after every round is proved by counting up to the      *)
(* number of its rounds (CountUp).  From that: two parts of a list that    *)
(* share an end make one line (ExtendJoins), the line of the sections of a *)
(* chunk passes the chunk (GeometryOfSections), and the points of a day    *)
(* are its stops with a place, in order (PointsExact).                     *)
(***************************************************************************)
EXTENDS Routes, WellFoundedInduction, SequenceTheorems, TLAPS

(* Every set of naturals that is not empty has a least element, so a set    *)
(* that holds zero and, with a number below n, the next one holds 0 .. n.   *)
LEMMA LeastNumber ==
  ASSUME NEW T \in SUBSET Nat, T # {}
  PROVE  \E n \in T : \A m \in T : n <= m
  <1>1. \E x \in T : \A y \in T : ~(<<y, x>> \in OpToRel(<, Nat))
    BY NatLessThanWellFounded, WFMin, Zenon
  <1>2. OpToRel(<, Nat) = {pair \in Nat \X Nat : pair[1] < pair[2]}
    BY Zenon DEF OpToRel
  <1>3. \A y, x \in Nat : y < x => <<y, x>> \in OpToRel(<, Nat)
    <2>1. \A y, x \in Nat :
            y < x => <<y, x>> \in {pair \in Nat \X Nat : pair[1] < pair[2]}
      OBVIOUS
    <2> QED BY <1>2, <2>1, Zenon
  <1>4. PICK x \in T : \A y \in T : ~(<<y, x>> \in OpToRel(<, Nat)) BY <1>1, Zenon
  <1>5. \A y \in T : ~(y < x) BY <1>3, <1>4, Zenon
  <1> QED BY <1>5

LEMMA CountUp ==
  ASSUME NEW n \in Nat, NEW G, 0 \in G, \A k \in 0 .. n : k < n /\ k \in G => k + 1 \in G
  PROVE  0 .. n \subseteq G
  <1> DEFINE Bad == {k \in 0 .. n : k \notin G}
  <1> SUFFICES ASSUME Bad # {} PROVE FALSE OBVIOUS
  <1>1. Bad \in SUBSET Nat OBVIOUS
  <1>2. PICK k \in Bad : \A m \in Bad : k <= m BY <1>1, LeastNumber
  <1>3. k \in 0 .. n /\ k \notin G BY <1>2
  <1>4. k # 0 BY <1>3
  <1>5. PICK l \in 0 .. n : k = l + 1 BY <1>3, <1>4
  <1>6. l \notin Bad BY <1>2, <1>5
  <1> QED BY <1>3, <1>5, <1>6

(* A loop over 1 .. n that starts with x has a value after each round.      *)
Loop(f, X, x, n, step) ==
    /\ f \in [0 .. n -> X] /\ f[0] = x
    /\ \A k \in 1 .. n : f[k] = step[<<k, f[k - 1]>>]

LEMMA Rounds ==
  ASSUME NEW X, NEW x \in X, NEW n \in Nat, NEW step \in [(1 .. n) \X X -> X]
  PROVE  \E f : Loop(f, X, x, n, step)
  <1> DEFINE G == {m \in 0 .. n : \E f : Loop(f, X, x, m, step)}
  <1>1. 0 \in G
    <2> DEFINE h == [k \in 0 .. 0 |-> x]
    <2>1. h \in [0 .. 0 -> X] /\ h[0] = x /\ 1 .. 0 = {} OBVIOUS
    <2>2. Loop(h, X, x, 0, step) BY <2>1 DEF Loop
    <2> QED BY <2>2
  <1>2. ASSUME NEW m \in 0 .. n, m < n, m \in G PROVE m + 1 \in G
    <2>1. PICK f : Loop(f, X, x, m, step) BY <1>2
    <2> DEFINE g == [k \in 0 .. m + 1 |->
                       IF k = m + 1 THEN step[<<m + 1, f[m]>>] ELSE f[k]]
    <2>2. m + 1 \in 1 .. n /\ f[m] \in X BY <1>2, <2>1 DEF Loop
    <2>3. step[<<m + 1, f[m]>>] \in X BY <2>2
    <2>4. g \in [0 .. m + 1 -> X] /\ g[0] = x BY <2>1, <2>3 DEF Loop
    <2>5. ASSUME NEW k \in 1 .. m + 1 PROVE g[k] = step[<<k, g[k - 1]>>]
      <3>1. CASE k = m + 1
        <4>1. g[m] = f[m] OBVIOUS
        <4>2. g[k] = step[<<m + 1, f[m]>>] /\ k - 1 = m BY <3>1
        <4> QED BY <3>1, <4>1, <4>2
      <3>2. CASE k # m + 1
        <4>1. g[k] = f[k] /\ g[k - 1] = f[k - 1] BY <3>2
        <4>2. k \in 1 .. m BY <3>2
        <4> QED BY <2>1, <4>1, <4>2 DEF Loop
      <3> QED BY <3>1, <3>2
    <2>6. Loop(g, X, x, m + 1, step) BY <2>4, <2>5 DEF Loop
    <2>7. m + 1 \in 0 .. n BY <1>2
    <2> QED BY <2>6, <2>7
  <1>3. \A k \in 0 .. n : k < n /\ k \in G => k + 1 \in G BY <1>2
  <1> HIDE DEF G
  <1>4. n \in G BY <1>1, <1>3, CountUp
  <1> QED BY <1>4 DEF G
-----------------------------------------------------------------------------
(* ExtendUnique, round by round.                                            *)
Follows(f, t, c, n) ==
    f[0] = t /\ \A k \in 1 .. n : f[k] = AppendUnique(f[k - 1], c[k])

LEMMA AppendUniqueTyped ==
  ASSUME NEW S, NEW t \in Seq(S), NEW c \in S
  PROVE  /\ AppendUnique(t, c) \in Seq(S) /\ AppendUnique(t, c) # <<>>
         /\ Last(AppendUnique(t, c)) = c
         /\ t # <<>> /\ Last(t) = c => AppendUnique(t, c) = t
         /\ ~(t # <<>> /\ Last(t) = c) => AppendUnique(t, c) = Append(t, c)
  BY AppendProperties DEF AppendUnique, Last

LEMMA FollowsAlike ==
  ASSUME NEW n \in Nat, NEW t, NEW c, NEW f, NEW g, Follows(f, t, c, n), Follows(g, t, c, n)
  PROVE  \A k \in 0 .. n : f[k] = g[k]
  <1> DEFINE G == {k \in 0 .. n : f[k] = g[k]}
  <1>1. 0 \in G BY DEF Follows
  <1>2. \A k \in 0 .. n : k < n /\ k \in G => k + 1 \in G BY DEF Follows
  <1> HIDE DEF G
  <1>3. 0 .. n \subseteq G BY <1>1, <1>2, CountUp
  <1> QED BY <1>3 DEF G

LEMMA FollowsExists ==
  ASSUME NEW S, NEW t \in Seq(S), NEW c, NEW n \in Nat, \A k \in 1 .. n : c[k] \in S
  PROVE  \E f \in [0 .. n -> Seq(S)] : Follows(f, t, c, n)
  <1> DEFINE step == [p \in (1 .. n) \X Seq(S) |-> AppendUnique(p[2], c[p[1]])]
  <1>1. step \in [(1 .. n) \X Seq(S) -> Seq(S)] BY AppendUniqueTyped
  <1>2. \A k \in 1 .. n, u \in Seq(S) : step[<<k, u>>] = AppendUnique(u, c[k]) OBVIOUS
  <1> HIDE DEF step
  <1>3. PICK X, u : X = Seq(S) /\ u = step OBVIOUS
  <1>4. t \in X /\ u \in [(1 .. n) \X X -> X] BY <1>1, <1>3
  <1>5. PICK f : Loop(f, X, t, n, u) BY <1>4, Rounds
  <1>6. f \in [0 .. n -> Seq(S)] /\ f[0] = t
        /\ \A k \in 1 .. n : f[k] = step[<<k, f[k - 1]>>]
    BY <1>3, <1>5 DEF Loop
  <1>7. \A k \in 1 .. n : f[k - 1] \in Seq(S) BY <1>6
  <1>8. ASSUME NEW k \in 1 .. n PROVE f[k] = AppendUnique(f[k - 1], c[k])
    <2>1. PICK w \in Seq(S) : w = f[k - 1] BY <1>7
    <2>2. f[k] = step[<<k, w>>] BY <1>6, <2>1
    <2>3. step[<<k, w>>] = AppendUnique(w, c[k]) BY <1>2
    <2> QED BY <2>1, <2>2, <2>3
  <1>9. Follows(f, t, c, n) BY <1>6, <1>8 DEF Follows
  <1> QED BY <1>6, <1>9

LEMMA ExtendFollows ==
  ASSUME NEW t, NEW c, Len(c) \in Nat, NEW f, Follows(f, t, c, Len(c))
  PROVE  ExtendUnique(t, c) = f[Len(c)]
  <1> DEFINE n == Len(c)
             Is(h) == h = [k \in 0 .. n |->
                             IF k = 0 THEN t ELSE AppendUnique(h[k - 1], c[k])]
             F == CHOOSE h : Is(h)
             g == [k \in 0 .. n |-> f[k]]
  <1>1. Is(g)
    <2> DEFINE e == [k \in 0 .. n |->
                       IF k = 0 THEN t ELSE AppendUnique(g[k - 1], c[k])]
    <2>1. \A k \in 0 .. n : g[k] = e[k] BY DEF Follows
    <2>2. g = e BY <2>1
    <2> QED BY <2>2
  <1>2. Is(F) BY <1>1
  <1>3. \A k \in 0 .. n : F[k] = IF k = 0 THEN t ELSE AppendUnique(F[k - 1], c[k])
    BY <1>2
  <1>4. ExtendUnique(t, c) = F[n] BY DEF ExtendUnique
  <1> HIDE DEF F
  <1>5. Follows(F, t, c, n) BY <1>3 DEF Follows
  <1>6. F[n] = f[n] BY <1>5, FollowsAlike
  <1> QED BY <1>4, <1>6

(* What ExtendUnique returns, and what it does with no and one more         *)
(* coordinate.                                                              *)
LEMMA ExtendBegins ==
  ASSUME NEW t
  PROVE  ExtendUnique(t, <<>>) = t
  <1> DEFINE f == [k \in 0 .. 0 |-> t]
  <1>1. Len(<<>>) = 0 OBVIOUS
  <1>2. f[0] = t OBVIOUS
  <1> HIDE DEF f
  <1>3. Follows(f, t, <<>>, Len(<<>>)) BY <1>1, <1>2 DEF Follows
  <1> QED BY <1>1, <1>2, <1>3, ExtendFollows

LEMMA ExtendTyped ==
  ASSUME NEW S, NEW t \in Seq(S), NEW c \in Seq(S)
  PROVE  /\ ExtendUnique(t, c) \in Seq(S)
         /\ c # <<>> => /\ ExtendUnique(t, c) # <<>>
                        /\ Last(ExtendUnique(t, c)) = Last(c)
  <1>1. Len(c) \in Nat /\ \A k \in 1 .. Len(c) : c[k] \in S OBVIOUS
  <1>2. PICK f \in [0 .. Len(c) -> Seq(S)] : Follows(f, t, c, Len(c))
    BY <1>1, FollowsExists
  <1>3. ExtendUnique(t, c) = f[Len(c)] BY <1>1, <1>2, ExtendFollows
  <1>4. f[Len(c)] \in Seq(S) BY <1>1, <1>2
  <1>5. ASSUME c # <<>> PROVE f[Len(c)] # <<>> /\ Last(f[Len(c)]) = Last(c)
    <2>1. Len(c) \in 1 .. Len(c) BY <1>5, EmptySeq
    <2>2. PICK u \in Seq(S), x \in S : u = f[Len(c) - 1] /\ x = c[Len(c)]
      BY <1>1, <2>1
    <2>3. f[Len(c)] = AppendUnique(u, x) BY <1>2, <2>1, <2>2 DEF Follows
    <2>4. f[Len(c)] # <<>> /\ Last(f[Len(c)]) = c[Len(c)]
      <3>1. AppendUnique(u, x) # <<>> /\ Last(AppendUnique(u, x)) = x
        BY AppendUniqueTyped
      <3> QED BY <2>2, <2>3, <3>1
    <2> QED BY <2>4 DEF Last
  <1> QED BY <1>3, <1>4, <1>5

LEMMA ExtendAppend ==
  ASSUME NEW S, NEW t \in Seq(S), NEW c \in Seq(S), NEW x \in S
  PROVE  ExtendUnique(t, Append(c, x)) = AppendUnique(ExtendUnique(t, c), x)
  <1>1. PICK d \in Seq(S) : d = Append(c, x) BY AppendProperties
  <1>2. /\ Len(d) = Len(c) + 1 /\ d[Len(c) + 1] = x /\ Len(c) \in Nat
        /\ \A k \in 1 .. Len(c) : d[k] = c[k]
    BY <1>1, AppendProperties
  <1>3. \A k \in 1 .. Len(d) : d[k] \in S OBVIOUS
  <1>4. PICK f : Follows(f, t, d, Len(d))
    <2>1. PICK n \in Nat : n = Len(d) BY <1>2
    <2>2. \E f \in [0 .. n -> Seq(S)] : Follows(f, t, d, n)
      BY <1>3, <2>1, FollowsExists
    <2> QED BY <2>1, <2>2
  <1>5. Follows(f, t, c, Len(c)) BY <1>2, <1>4 DEF Follows
  <1>6. ExtendUnique(t, d) = f[Len(d)] BY <1>2, <1>4, ExtendFollows
  <1>7. ExtendUnique(t, c) = f[Len(c)] BY <1>2, <1>5, ExtendFollows
  <1>8. f[Len(d)] = AppendUnique(f[Len(c)], x) BY <1>2, <1>4 DEF Follows
  <1> QED BY <1>1, <1>6, <1>7, <1>8

LEMMA ExtendPair ==
  ASSUME NEW S, NEW t \in Seq(S), NEW x \in S, NEW y \in S
  PROVE  ExtendUnique(t, <<x, y>>) = AppendUnique(AppendUnique(t, x), y)
  <1>1. PICK e \in Seq(S) : e = <<>> BY EmptySeq
  <1>2. PICK p \in Seq(S) : p = Append(e, x) BY AppendProperties
  <1>3. Len(p) = 1 /\ p[1] = x BY <1>1, <1>2, AppendProperties
  <1>4. Append(p, y) = <<x, y>>
    <2>1. PICK q \in Seq(S) : q = Append(p, y) BY AppendProperties
    <2>2. Len(q) = 2 /\ q[1] = x /\ q[2] = y
      <3>1. /\ Len(q) = Len(p) + 1 /\ q[Len(p) + 1] = y
            /\ \A i \in 1 .. Len(p) : q[i] = p[i]
        BY <2>1, AppendProperties
      <3> QED BY <1>3, <3>1
    <2>3. PICK r \in Seq(S) : r = <<x, y>> /\ Len(r) = 2 /\ r[1] = x /\ r[2] = y
      <3>1. <<x, y>> \in Seq(S) OBVIOUS
      <3>2. Len(<<x, y>>) = 2 OBVIOUS
      <3>3. <<x, y>>[1] = x OBVIOUS
      <3>4. <<x, y>>[2] = y OBVIOUS
      <3> QED BY <3>1, <3>2, <3>3, <3>4
    <2>4. \A i \in 1 .. 2 : q[i] = r[i]
      <3>1. \A i \in 1 .. 2 : i = 1 \/ i = 2 OBVIOUS
      <3> QED BY <2>2, <2>3, <3>1
    <2>5. q = r BY <2>2, <2>3, <2>4, SeqEqual
    <2> QED BY <2>1, <2>3, <2>5
  <1>5. ExtendUnique(t, e) = t BY <1>1, ExtendBegins
  <1>6. ExtendUnique(t, p) = AppendUnique(t, x)
    <2>1. ExtendUnique(t, Append(e, x)) = AppendUnique(ExtendUnique(t, e), x)
      BY ExtendAppend
    <2> QED BY <1>2, <1>5, <2>1
  <1>7. ExtendUnique(t, Append(p, y)) = AppendUnique(ExtendUnique(t, p), y)
    BY ExtendAppend
  <1> QED BY <1>4, <1>6, <1>7

(* A part of a sequence, and the same part with one element more.           *)
LEMMA PartGrows ==
  ASSUME NEW S, NEW c \in Seq(S), NEW i \in 1 .. Len(c), NEW k \in i - 1 .. Len(c)
  PROVE  /\ SubSeq(c, i, k) \in Seq(S)
         /\ Len(SubSeq(c, i, k)) = k - i + 1
         /\ \A n \in 1 .. k - i + 1 : SubSeq(c, i, k)[n] = c[i + n - 1]
         /\ k < Len(c) => SubSeq(c, i, k + 1) = Append(SubSeq(c, i, k), c[k + 1])
  <1>1. ASSUME NEW m \in i - 1 .. Len(c)
        PROVE  /\ SubSeq(c, i, m) \in Seq(S)
               /\ Len(SubSeq(c, i, m)) = m - i + 1
               /\ \A n \in 1 .. m - i + 1 : SubSeq(c, i, m)[n] = c[i + n - 1]
    <2>1. i \in Int /\ m \in Int /\ \A n \in i .. m : c[n] \in S OBVIOUS
    <2> QED BY <2>1, SubSeqProperties
  <1>2. ASSUME k < Len(c)
        PROVE  SubSeq(c, i, k + 1) = Append(SubSeq(c, i, k), c[k + 1])
    <2>1. k + 1 \in i - 1 .. Len(c) /\ c[k + 1] \in S BY <1>2
    <2>2. PICK u \in Seq(S) : u = SubSeq(c, i, k) BY <1>1
    <2>3. PICK v \in Seq(S) : v = SubSeq(c, i, k + 1) BY <1>1, <2>1
    <2>4. PICK w \in Seq(S) : w = Append(u, c[k + 1]) BY <2>1, AppendProperties
    <2>5. Len(w) = Len(v) BY <1>1, <2>1, <2>2, <2>3, <2>4
    <2>6. \A n \in 1 .. Len(w) : w[n] = v[n]
      <3>1. /\ Len(u) = k - i + 1 /\ Len(v) = k - i + 2
            /\ \A n \in 1 .. k - i + 1 : u[n] = c[i + n - 1]
            /\ \A n \in 1 .. k - i + 2 : v[n] = c[i + n - 1]
        BY <1>1, <2>1, <2>2, <2>3
      <3>2. Len(w) = Len(u) + 1 /\ w[Len(u) + 1] = c[k + 1]
            /\ \A n \in 1 .. Len(u) : w[n] = u[n]
        BY <2>1, <2>4, AppendProperties
      <3>3. ASSUME NEW n \in 1 .. Len(w), n \in 1 .. Len(u) PROVE w[n] = v[n]
        <4>1. w[n] = u[n] BY <3>2, <3>3
        <4>2. n \in 1 .. k - i + 1 /\ n \in 1 .. k - i + 2 BY <3>1, <3>3
        <4>3. u[n] = c[i + n - 1] /\ v[n] = c[i + n - 1] BY <3>1, <4>2
        <4> QED BY <4>1, <4>3
      <3>4. w[Len(u) + 1] = v[Len(u) + 1]
        <4>1. v[k - i + 2] = c[i + (k - i + 2) - 1] BY <3>1
        <4>2. i + (k - i + 2) - 1 = k + 1 /\ Len(u) + 1 = k - i + 2 BY <3>1
        <4> QED BY <3>2, <4>1, <4>2
      <3>5. \A n \in 1 .. Len(w) : n \in 1 .. Len(u) \/ n = Len(u) + 1 BY <3>1, <3>2
      <3> QED BY <3>3, <3>4, <3>5
    <2>7. w = v BY <2>5, <2>6, SeqEqual
    <2> QED BY <2>2, <2>3, <2>4, <2>7
  <1> QED BY <1>1, <1>2

(* ExtendUnique with a part of a sequence, and with one element more.       *)
LEMMA ExtendPart ==
  ASSUME NEW S, NEW t \in Seq(S), NEW c \in Seq(S), NEW i \in 1 .. Len(c),
         NEW k \in i - 1 .. Len(c)
  PROVE  /\ ExtendUnique(t, SubSeq(c, i, k)) \in Seq(S)
         /\ k = i - 1 => ExtendUnique(t, SubSeq(c, i, k)) = t
         /\ k >= i => /\ ExtendUnique(t, SubSeq(c, i, k)) # <<>>
                      /\ Last(ExtendUnique(t, SubSeq(c, i, k))) = c[k]
         /\ k < Len(c) => ExtendUnique(t, SubSeq(c, i, k + 1)) =
                             AppendUnique(ExtendUnique(t, SubSeq(c, i, k)), c[k + 1])
  <1>1. PICK p \in Seq(S) : /\ p = SubSeq(c, i, k) /\ Len(p) = k - i + 1
                            /\ \A n \in 1 .. k - i + 1 : p[n] = c[i + n - 1]
    <2>1. /\ SubSeq(c, i, k) \in Seq(S)
          /\ Len(SubSeq(c, i, k)) = k - i + 1
          /\ \A n \in 1 .. k - i + 1 : SubSeq(c, i, k)[n] = c[i + n - 1]
      BY PartGrows
    <2> QED BY <2>1
  <1>2. ExtendUnique(t, p) \in Seq(S) BY ExtendTyped
  <1>3. ASSUME k = i - 1 PROVE ExtendUnique(t, p) = t
    <2>1. p = <<>> BY <1>1, <1>3, EmptySeq
    <2> QED BY <2>1, ExtendBegins
  <1>4. ASSUME k >= i
        PROVE  ExtendUnique(t, p) # <<>> /\ Last(ExtendUnique(t, p)) = c[k]
    <2>1. p # <<>> BY <1>1, <1>4
    <2>2. p[k - i + 1] = c[i + (k - i + 1) - 1] BY <1>1, <1>4
    <2>3. i + (k - i + 1) - 1 = k OBVIOUS
    <2>4. Last(p) = c[k]
      <3>1. Len(p) = k - i + 1 BY <1>1, Zenon
      <3>2. p[Len(p)] = c[k] BY <2>2, <2>3, <3>1, Zenon
      <3> QED BY <3>2, Zenon DEF Last
    <2>5. ExtendUnique(t, p) # <<>> /\ Last(ExtendUnique(t, p)) = Last(p)
      BY <2>1, ExtendTyped
    <2> QED BY <2>4, <2>5
  <1>5. ASSUME k < Len(c)
        PROVE  ExtendUnique(t, SubSeq(c, i, k + 1)) = AppendUnique(ExtendUnique(t, p), c[k + 1])
    <2>1. PICK x \in S : x = c[k + 1] BY <1>5
    <2>2. SubSeq(c, i, k + 1) = Append(SubSeq(c, i, k), c[k + 1]) BY <1>5, PartGrows
    <2>3. ExtendUnique(t, Append(p, x)) = AppendUnique(ExtendUnique(t, p), x)
      BY ExtendAppend
    <2> QED BY <1>1, <2>1, <2>2, <2>3
  <1> QED BY <1>1, <1>2, <1>3, <1>4, <1>5

(* What ExtendUnique left out once, it leaves out again.                    *)
LEMMA ExtendTwice ==
  ASSUME NEW S, NEW t \in Seq(S), NEW c \in Seq(S)
  PROVE  ExtendUnique(t, ExtendUnique(<<>>, c)) = ExtendUnique(t, c)
  <1>1. PICK e \in Seq(S) : e = <<>> BY EmptySeq
  <1>2. CASE c = <<>>
    <2>1. ExtendUnique(e, e) = e BY <1>1, ExtendBegins
    <2> QED BY <1>1, <1>2, <2>1
  <1>3. CASE c # <<>>
    <2> DEFINE G == {k \in 0 .. Len(c) :
          ExtendUnique(t, ExtendUnique(e, SubSeq(c, 1, k))) = ExtendUnique(t, SubSeq(c, 1, k))}
    <2>1. Len(c) \in Nat /\ 1 \in 1 .. Len(c) BY <1>3, EmptySeq
    <2>2. 0 \in G
      <3>1. 0 \in 1 - 1 .. Len(c) BY <2>1
      <3>2. ExtendUnique(e, SubSeq(c, 1, 0)) = e /\ ExtendUnique(t, SubSeq(c, 1, 0)) = t
        BY <2>1, <3>1, ExtendPart
      <3>3. ExtendUnique(t, e) = t BY <1>1, ExtendBegins
      <3> QED BY <2>1, <3>2, <3>3
    <2>3. ASSUME NEW k \in 0 .. Len(c), k < Len(c), k \in G PROVE k + 1 \in G
      <3>1. k \in 1 - 1 .. Len(c) /\ k + 1 \in 0 .. Len(c) /\ (k >= 1 \/ k = 0) BY <2>3
      <3>2. PICK u \in Seq(S), w \in Seq(S), x \in S :
              /\ u = ExtendUnique(e, SubSeq(c, 1, k)) /\ w = ExtendUnique(t, SubSeq(c, 1, k))
              /\ x = c[k + 1]
        <4>1. ExtendUnique(e, SubSeq(c, 1, k)) \in Seq(S) BY <2>1, <3>1, ExtendPart
        <4>2. ExtendUnique(t, SubSeq(c, 1, k)) \in Seq(S) BY <2>1, <3>1, ExtendPart
        <4>3. c[k + 1] \in S BY <2>3
        <4> QED BY <4>1, <4>2, <4>3
      <3>3. ExtendUnique(e, SubSeq(c, 1, k + 1)) = AppendUnique(u, x)
        BY <2>1, <2>3, <3>1, <3>2, ExtendPart
      <3>4. ExtendUnique(t, SubSeq(c, 1, k + 1)) = AppendUnique(w, x)
        BY <2>1, <2>3, <3>1, <3>2, ExtendPart
      <3>5. ExtendUnique(t, u) = w BY <2>3, <3>2
      <3>6. ExtendUnique(t, AppendUnique(u, x)) = AppendUnique(w, x)
        <4>1. CASE u # <<>> /\ Last(u) = x
          <5>1. AppendUnique(u, x) = u BY <4>1, AppendUniqueTyped
          <5>2. k # 0
            <6>1. ASSUME k = 0 PROVE u = e BY <2>1, <3>1, <3>2, <6>1, ExtendPart
            <6> QED BY <1>1, <4>1, <6>1
          <5>3. Last(u) = c[k] BY <2>1, <3>1, <3>2, <5>2, ExtendPart
          <5>4. w # <<>> /\ Last(w) = c[k] BY <2>1, <3>1, <3>2, <5>2, ExtendPart
          <5>5. AppendUnique(w, x) = w
            <6>1. w # <<>> /\ Last(w) = x BY <4>1, <5>3, <5>4
            <6> QED BY <6>1, AppendUniqueTyped
          <5> QED BY <3>5, <5>1, <5>5
        <4>2. CASE ~(u # <<>> /\ Last(u) = x)
          <5>1. AppendUnique(u, x) = Append(u, x) BY <4>2, AppendUniqueTyped
          <5>2. ExtendUnique(t, Append(u, x)) = AppendUnique(ExtendUnique(t, u), x)
            BY ExtendAppend
          <5> QED BY <3>5, <5>1, <5>2
        <4> QED BY <4>1, <4>2
      <3> QED BY <3>1, <3>3, <3>4, <3>6
    <2>4. \A k \in 0 .. Len(c) : k < Len(c) /\ k \in G => k + 1 \in G BY <2>3
    <2> HIDE DEF G
    <2>5. PICK n \in Nat : n = Len(c) BY <2>1
    <2>6. n \in G
      <3>1. \A k \in 0 .. n : k < n /\ k \in G => k + 1 \in G BY <2>4, <2>5
      <3>2. 0 .. n \subseteq G BY <2>2, <3>1, CountUp
      <3> QED BY <3>2
    <2>7. SubSeq(c, 1, n) = c BY <2>5, SubSeqFull
    <2> QED BY <1>1, <2>6, <2>7 DEF G
  <1> QED BY <1>2, <1>3

(* Two parts that share an end make one.                                    *)
LEMMA ExtendJoins ==
  ASSUME NEW S, NEW c \in Seq(S), NEW a \in 1 .. Len(c), NEW b \in a .. Len(c)
  PROVE  ExtendUnique(ExtendUnique(<<>>, SubSeq(c, 1, a)), SubSeq(c, a, b)) =
           ExtendUnique(<<>>, SubSeq(c, 1, b))
  <1>1. PICK e \in Seq(S) : e = <<>> BY EmptySeq
  <1>2. 1 \in 1 .. Len(c) /\ a \in 1 - 1 .. Len(c) /\ Len(c) \in Nat OBVIOUS
  <1>3. PICK g \in Seq(S) : g = ExtendUnique(e, SubSeq(c, 1, a))
    <2>1. ExtendUnique(e, SubSeq(c, 1, a)) \in Seq(S) BY <1>2, ExtendPart
    <2> QED BY <2>1
  <1>4. g # <<>> /\ Last(g) = c[a] BY <1>2, <1>3, ExtendPart
  <1> DEFINE G == {k \in 0 .. b - a :
                     ExtendUnique(g, SubSeq(c, a, a + k)) = ExtendUnique(e, SubSeq(c, 1, a + k))}
  <1>5. 0 \in G
    <2>1. a - 1 \in a - 1 .. Len(c) /\ a - 1 < Len(c) /\ a - 1 + 1 = a /\ a + 0 = a
      OBVIOUS
    <2>2. ExtendUnique(g, SubSeq(c, a, a - 1)) = g BY <2>1, ExtendPart
    <2>3. ExtendUnique(g, SubSeq(c, a, a - 1 + 1)) =
            AppendUnique(ExtendUnique(g, SubSeq(c, a, a - 1)), c[a - 1 + 1])
      BY <2>1, ExtendPart
    <2>4. c[a] \in S BY <1>2
    <2>5. AppendUnique(g, c[a]) = g BY <1>4, <2>4, AppendUniqueTyped
    <2>6. 0 \in 0 .. b - a OBVIOUS
    <2> QED BY <1>3, <2>1, <2>2, <2>3, <2>5, <2>6
  <1>6. ASSUME NEW k \in 0 .. b - a, k < b - a, k \in G PROVE k + 1 \in G
    <2>1. PICK m \in a .. Len(c) : m = a + k /\ m < Len(c) /\ m + 1 = a + (k + 1) BY <1>6
    <2>2. m \in a - 1 .. Len(c) /\ m \in 1 - 1 .. Len(c) OBVIOUS
    <2>3. ExtendUnique(g, SubSeq(c, a, m + 1)) =
            AppendUnique(ExtendUnique(g, SubSeq(c, a, m)), c[m + 1])
      BY <2>1, <2>2, ExtendPart
    <2>4. ExtendUnique(e, SubSeq(c, 1, m + 1)) =
            AppendUnique(ExtendUnique(e, SubSeq(c, 1, m)), c[m + 1])
      BY <1>2, <2>1, <2>2, ExtendPart
    <2>5. ExtendUnique(g, SubSeq(c, a, m)) = ExtendUnique(e, SubSeq(c, 1, m)) BY <1>6, <2>1
    <2>6. k + 1 \in 0 .. b - a BY <1>6
    <2> QED BY <2>1, <2>3, <2>4, <2>5, <2>6
  <1>7. \A k \in 0 .. b - a : k < b - a /\ k \in G => k + 1 \in G BY <1>6
  <1> HIDE DEF G
  <1>8. PICK n \in Nat : n = b - a OBVIOUS
  <1>9. n \in G
    <2>1. \A k \in 0 .. n : k < n /\ k \in G => k + 1 \in G BY <1>7, <1>8
    <2>2. 0 .. n \subseteq G BY <1>5, <2>1, CountUp
    <2> QED BY <2>2
  <1>10. a + n = b BY <1>8
  <1> QED BY <1>1, <1>3, <1>9, <1>10 DEF G

(* The line of a chunk's sections passes the chunk's points.                *)
Legs == [from : Places, to : Places]

LEMMA SectionsTyped ==
  ASSUME NEW c \in Seq(Places), Len(c) >= 1
  PROVE  /\ Sections(c) \in Seq(Legs)
         /\ Len(Sections(c)) = Len(c) - 1
         /\ \A n \in 1 .. Len(c) - 1 : Sections(c)[n] = Leg(c[n], c[n + 1])
  <1>1. PICK m \in Nat : m = Len(c) - 1 OBVIOUS
  <1>2. \A n \in 1 .. m : Leg(c[n], c[n + 1]) \in Legs
    <2>1. \A n \in 1 .. m : c[n] \in Places /\ c[n + 1] \in Places BY <1>1
    <2> QED BY <2>1 DEF Leg, Legs
  <1>3. Sections(c) \in [1 .. m -> Legs] BY <1>1, <1>2 DEF Sections
  <1>4. Sections(c) \in Seq(Legs) /\ Len(Sections(c)) = m BY <1>3
  <1> QED BY <1>1, <1>4 DEF Sections

LEMMA GeometryOfSections ==
  ASSUME NEW c \in Seq(Places), Len(c) >= 2
  PROVE  GeometryOf(Sections(c)) = ExtendUnique(<<>>, c)
  <1>1. PICK n \in Nat : n = Len(c) - 1 /\ n >= 1 /\ 1 \in 1 .. Len(c) OBVIOUS
  <1>2. PICK s : /\ s = Sections(c) /\ Len(s) = n
                 /\ \A k \in 1 .. n : s[k].from = c[k] /\ s[k].to = c[k + 1]
    <2>1. Len(Sections(c)) = n BY <1>1, SectionsTyped
    <2>2. \A k \in 1 .. n : Sections(c)[k] = Leg(c[k], c[k + 1]) BY <1>1, SectionsTyped
    <2>3. \A k \in 1 .. n : Sections(c)[k].from = c[k] /\ Sections(c)[k].to = c[k + 1]
      <3>1. ASSUME NEW x, NEW y PROVE Leg(x, y).from = x /\ Leg(x, y).to = y
        BY DEF Leg
      <3> QED BY <2>2, <3>1
    <2> QED BY <2>1, <2>3
  <1>3. PICK e \in Seq(Places) : e = <<>> BY EmptySeq
  <1> DEFINE line(k) == ExtendUnique(e, SubSeq(c, 1, k))
             Is(h) == h = [k \in 0 .. n |->
                             IF k = 0 THEN <<>>
                             ELSE ExtendUnique(h[k - 1], <<s[k].from, s[k].to>>)]
             F == CHOOSE h : Is(h)
             g == [k \in 0 .. n |-> IF k = 0 THEN <<>> ELSE line(k + 1)]
  <1>a. ASSUME NEW k \in 0 .. Len(c)
        PROVE  /\ line(k) \in Seq(Places)
               /\ k = 0 => line(k) = e
               /\ k >= 1 => line(k) # <<>> /\ Last(line(k)) = c[k]
               /\ k < Len(c) => line(k + 1) = AppendUnique(line(k), c[k + 1])
    <2>1. PICK i \in 1 .. Len(c) : i = 1 BY <1>1
    <2>2. k \in i - 1 .. Len(c) /\ i - 1 = 0 BY <2>1
    <2>3. /\ ExtendUnique(e, SubSeq(c, i, k)) \in Seq(Places)
          /\ k = i - 1 => ExtendUnique(e, SubSeq(c, i, k)) = e
          /\ k >= i => /\ ExtendUnique(e, SubSeq(c, i, k)) # <<>>
                       /\ Last(ExtendUnique(e, SubSeq(c, i, k))) = c[k]
          /\ k < Len(c) => ExtendUnique(e, SubSeq(c, i, k + 1)) =
                             AppendUnique(ExtendUnique(e, SubSeq(c, i, k)), c[k + 1])
      BY <2>2, ExtendPart
    <2> QED BY <2>1, <2>2, <2>3
  <1>4. ASSUME NEW k \in 1 .. n
        PROVE  ExtendUnique(g[k - 1], <<s[k].from, s[k].to>>) = line(k + 1)
    <2>1. PICK x \in Places, y \in Places :
            x = c[k] /\ y = c[k + 1] /\ x = s[k].from /\ y = s[k].to
      BY <1>1, <1>2
    <2>2. k \in 0 .. Len(c) /\ k < Len(c) /\ k >= 1 BY <1>1
    <2> HIDE DEF line
    <2>3. PICK l \in Seq(Places) : l = line(k) /\ l # <<>> /\ Last(l) = x
      <3>1. line(k) \in Seq(Places) /\ line(k) # <<>> /\ Last(line(k)) = c[k]
        BY <1>a, <2>2
      <3> QED BY <2>1, <3>1
    <2>4. line(k + 1) = AppendUnique(l, y) BY <1>a, <2>1, <2>2, <2>3
    <2>5. CASE k = 1
      <3>1. g[k - 1] = e BY <1>3, <2>5
      <3>2. ExtendUnique(e, <<x, y>>) = AppendUnique(AppendUnique(e, x), y) BY ExtendPair
      <3>3. l = AppendUnique(e, x)
        <4>1. 0 \in 0 .. Len(c) /\ 0 < Len(c) /\ 0 + 1 = 1 BY <1>1
        <4>2. line(0) = e /\ line(0 + 1) = AppendUnique(line(0), c[0 + 1]) BY <1>a, <4>1
        <4> QED BY <2>1, <2>3, <2>5, <4>1, <4>2
      <3> QED BY <2>1, <2>4, <3>1, <3>2, <3>3
    <2>6. CASE k # 1
      <3>1. k - 1 \in 1 .. n /\ k - 1 + 1 = k BY <2>6
      <3>2. g[k - 1] = l BY <2>3, <3>1
      <3>3. ExtendUnique(l, <<x, y>>) = AppendUnique(AppendUnique(l, x), y) BY ExtendPair
      <3>4. AppendUnique(l, x) = l BY <2>3, AppendUniqueTyped
      <3> QED BY <2>1, <2>4, <3>2, <3>3, <3>4
    <2> QED BY <2>5, <2>6
  <1>5. Is(g)
    <2> HIDE DEF line
    <2> DEFINE r == [k \in 0 .. n |->
                       IF k = 0 THEN <<>>
                       ELSE ExtendUnique(g[k - 1], <<s[k].from, s[k].to>>)]
    <2>1. ASSUME NEW k \in 0 .. n PROVE g[k] = r[k]
      <3>1. k = 0 \/ k \in 1 .. n OBVIOUS
      <3>2. ASSUME k \in 1 .. n PROVE g[k] = line(k + 1) /\ r[k] = line(k + 1)
        <4>1. r[k] = ExtendUnique(g[k - 1], <<s[k].from, s[k].to>>) BY <3>2
        <4> QED BY <1>4, <3>2, <4>1
      <3> QED BY <3>1, <3>2
    <2>2. g = r BY <2>1
    <2> QED BY <2>2
  <1>6. Is(F) BY <1>5
  <1>7. GeometryOf(s) = F[n] BY <1>2 DEF GeometryOf
  <1> HIDE DEF line, F
  <1>8. F[n] = g[n]
    <2> DEFINE G == {k \in 0 .. n : F[k] = g[k]}
    <2>1. 0 \in G BY <1>6
    <2>2. ASSUME NEW k \in 0 .. n, k < n, k \in G PROVE k + 1 \in G
      <3>1. k + 1 \in 1 .. n /\ k + 1 - 1 = k BY <2>2
      <3>2. F[k + 1] = ExtendUnique(F[k], <<s[k + 1].from, s[k + 1].to>>) BY <1>6, <3>1
      <3>3. line(k + 1 + 1) = ExtendUnique(g[k], <<s[k + 1].from, s[k + 1].to>>)
        <4>1. PICK m \in 1 .. n : m = k + 1 BY <3>1
        <4> HIDE DEF g
        <4>2. ExtendUnique(g[m - 1], <<s[m].from, s[m].to>>) = line(m + 1) BY <1>4
        <4> QED BY <3>1, <4>1, <4>2
      <3>4. g[k + 1] = line(k + 1 + 1) BY <3>1
      <3> QED BY <2>2, <3>1, <3>2, <3>3, <3>4
    <2>3. \A k \in 0 .. n : k < n /\ k \in G => k + 1 \in G BY <2>2
    <2> HIDE DEF G
    <2>4. 0 .. n \subseteq G BY <2>1, <2>3, CountUp
    <2> QED BY <2>4 DEF G
  <1>9. g[n] = ExtendUnique(<<>>, c)
    <2>1. SubSeq(c, 1, n + 1) = c BY <1>1, SubSeqFull
    <2>2. g[n] = line(n + 1) BY <1>1
    <2>3. line(n + 1) = ExtendUnique(e, SubSeq(c, 1, n + 1)) BY DEF line
    <2> QED BY <1>3, <2>1, <2>2, <2>3
  <1> QED BY <1>2, <1>7, <1>8, <1>9
-----------------------------------------------------------------------------
(* Points: the stops with a place, in order.                                *)
PointsAre(p, stops, k) ==
    /\ p \in Seq(1 .. k)
    /\ \A i, l \in 1 .. Len(p) : i < l => p[i] < p[l]
    /\ \A m \in 1 .. k : stops[m] # None <=> \E i \in 1 .. Len(p) : p[i] = m

PointsStep(p, stops, k) == IF HasPlace(stops[k]) THEN Append(p, k) ELSE p

LEMMA PointsStepOk ==
  ASSUME NEW stops, NEW k \in Nat, NEW p, PointsAre(p, stops, k)
  PROVE  PointsAre(PointsStep(p, stops, k + 1), stops, k + 1)
  <1>1. p \in Seq(1 .. k) /\ p \in Seq(1 .. k + 1)
    <2>1. 1 .. k \subseteq 1 .. k + 1 OBVIOUS
    <2>2. p \in Seq(1 .. k) BY DEF PointsAre
    <2> QED BY <2>1, <2>2, SeqMonotonic
  <1>2. Len(p) \in Nat /\ \A i \in 1 .. Len(p) : p[i] \in 1 .. k BY <1>1
  <1>3. CASE stops[k + 1] = None
    <2>1. PointsStep(p, stops, k + 1) = p BY <1>3 DEF PointsStep, HasPlace
    <2>2. \A m \in 1 .. k + 1 : m \in 1 .. k \/ m = k + 1 OBVIOUS
    <2>3. ~ \E i \in 1 .. Len(p) : p[i] = k + 1 BY <1>2
    <2>4. \A m \in 1 .. k + 1 : stops[m] # None <=> \E i \in 1 .. Len(p) : p[i] = m
      BY <1>3, <2>2, <2>3 DEF PointsAre
    <2> QED BY <1>1, <2>1, <2>4 DEF PointsAre
  <1>4. CASE stops[k + 1] # None
    <2>1. PICK q \in Seq(1 .. k + 1) : q = Append(p, k + 1) /\ q = PointsStep(p, stops, k + 1)
      <3>1. k + 1 \in 1 .. k + 1 OBVIOUS
      <3>2. Append(p, k + 1) \in Seq(1 .. k + 1) BY <1>1, <3>1, AppendProperties
      <3> QED BY <1>4, <3>2 DEF PointsStep, HasPlace
    <2>2. /\ Len(q) = Len(p) + 1 /\ q[Len(p) + 1] = k + 1
          /\ \A i \in 1 .. Len(p) : q[i] = p[i]
      <3>1. k + 1 \in 1 .. k + 1 OBVIOUS
      <3> QED BY <1>1, <2>1, <3>1, AppendProperties
    <2>3. ASSUME NEW i \in 1 .. Len(q), NEW l \in 1 .. Len(q), i < l PROVE q[i] < q[l]
      <3>1. i \in 1 .. Len(p) /\ q[i] = p[i] /\ p[i] \in 1 .. k BY <1>2, <2>2, <2>3
      <3>2. CASE l = Len(p) + 1 BY <2>2, <3>1, <3>2
      <3>3. CASE l # Len(p) + 1
        <4>1. l \in 1 .. Len(p) BY <1>2, <2>2, <3>3
        <4> QED BY <2>2, <2>3, <3>1, <4>1 DEF PointsAre
      <3> QED BY <3>2, <3>3
    <2>4. ASSUME NEW m \in 1 .. k + 1
          PROVE  stops[m] # None <=> \E i \in 1 .. Len(q) : q[i] = m
      <3>1. CASE m = k + 1
        <4>1. Len(p) + 1 \in 1 .. Len(q) BY <1>2, <2>2
        <4> QED BY <1>4, <2>2, <3>1, <4>1
      <3>2. CASE m # k + 1
        <4>1. m \in 1 .. k BY <3>2
        <4>2. (\E i \in 1 .. Len(q) : q[i] = m) <=> \E i \in 1 .. Len(p) : p[i] = m
          <5>1. \A i \in 1 .. Len(p) : i \in 1 .. Len(q) BY <1>2, <2>2
          <5>2. \A i \in 1 .. Len(q) : i \in 1 .. Len(p) \/ i = Len(p) + 1 BY <1>2, <2>2
          <5> QED BY <2>2, <3>2, <5>1, <5>2
        <4> QED BY <4>1, <4>2 DEF PointsAre
      <3> QED BY <3>1, <3>2
    <2> QED BY <2>1, <2>3, <2>4 DEF PointsAre
  <1> QED BY <1>3, <1>4

LEMMA PointsExact ==
  ASSUME NEW stops, Len(stops) \in Nat
  PROVE  PointsAre(Points(stops), stops, Len(stops))
  <1>1. PICK n \in Nat : n = Len(stops) OBVIOUS
  <1> DEFINE Is(h) == h = [k \in 0 .. n |->
                             IF k = 0 THEN <<>>
                             ELSE IF HasPlace(stops[k]) THEN Append(h[k - 1], k)
                             ELSE h[k - 1]]
             F == CHOOSE h : Is(h)
  <1>2. \E h : Is(h)
    <2> DEFINE step == [p \in (1 .. n) \X Seq(Nat) |-> PointsStep(p[2], stops, p[1])]
    <2>1. \A k \in 1 .. n, u \in Seq(Nat) : PointsStep(u, stops, k) \in Seq(Nat)
      BY AppendProperties DEF PointsStep
    <2>2. step \in [(1 .. n) \X Seq(Nat) -> Seq(Nat)] BY <2>1
    <2>3. \A k \in 1 .. n, u \in Seq(Nat) : step[<<k, u>>] = PointsStep(u, stops, k)
      OBVIOUS
    <2> HIDE DEF step
    <2>4. PICK X, u, x : X = Seq(Nat) /\ u = step /\ x = <<>> OBVIOUS
    <2>5. x \in X /\ u \in [(1 .. n) \X X -> X] BY <2>2, <2>4, EmptySeq
    <2>6. PICK f : Loop(f, X, x, n, u) BY <2>5, Rounds
    <2>7. /\ f \in [0 .. n -> Seq(Nat)] /\ f[0] = <<>>
          /\ \A k \in 1 .. n : f[k] = step[<<k, f[k - 1]>>]
      BY <2>4, <2>6 DEF Loop
    <2>8. \A k \in 1 .. n : f[k - 1] \in Seq(Nat) BY <2>7
    <2>9. \A k \in 1 .. n :
            f[k] = IF HasPlace(stops[k]) THEN Append(f[k - 1], k) ELSE f[k - 1]
      BY <2>3, <2>7, <2>8 DEF PointsStep
    <2>10. \A k \in 0 .. n : k = 0 \/ k \in 1 .. n OBVIOUS
    <2>11. Is(f) BY <2>7, <2>9, <2>10
    <2> QED BY <2>11
  <1>3. Is(F) BY <1>2
  <1>4. Points(stops) = F[n] BY <1>1 DEF Points
  <1> HIDE DEF F
  <1>5. PICK H : H = F OBVIOUS
  <1>6. H = [k \in 0 .. n |->
               IF k = 0 THEN <<>> ELSE IF HasPlace(stops[k]) THEN Append(H[k - 1], k)
               ELSE H[k - 1]]
    BY <1>3, <1>5
  <1>a. H[0] = <<>>
    <2>1. 0 \in 0 .. n OBVIOUS
    <2> QED BY <1>6, <2>1, Zenon
  <1>b. \A k \in 0 .. n : k < n => H[k + 1] = PointsStep(H[k], stops, k + 1)
    <2>1. \A k \in 0 .. n :
            k # 0 => H[k] = IF HasPlace(stops[k]) THEN Append(H[k - 1], k) ELSE H[k - 1]
      BY <1>6, Zenon
    <2>2. \A k \in 0 .. n : k < n => k + 1 \in 0 .. n /\ k + 1 # 0 /\ k + 1 - 1 = k OBVIOUS
    <2> QED BY <2>1, <2>2 DEF PointsStep
  <1> DEFINE G == {k \in 0 .. n : PointsAre(H[k], stops, k)}
  <1>7. 0 \in G
    <2>1. <<>> \in Seq(1 .. 0) /\ Len(<<>>) = 0 /\ 1 .. 0 = {} BY EmptySeq
    <2>2. PointsAre(<<>>, stops, 0) BY <2>1 DEF PointsAre
    <2> QED BY <1>a, <2>2
  <1>8. ASSUME NEW k \in 0 .. n, k < n, k \in G PROVE k + 1 \in G
    <2>1. k \in Nat /\ k + 1 \in 0 .. n BY <1>8
    <2>2. PICK p : p = H[k] OBVIOUS
    <2>3. PointsAre(p, stops, k) BY <1>8, <2>2
    <2>4. PointsAre(PointsStep(p, stops, k + 1), stops, k + 1) BY <2>1, <2>3, PointsStepOk
    <2> QED BY <1>b, <1>8, <2>1, <2>2, <2>4
  <1>9. \A k \in 0 .. n : k < n /\ k \in G => k + 1 \in G BY <1>8
  <1> HIDE DEF G
  <1>10. 0 .. n \subseteq G BY <1>7, <1>9, CountUp
  <1>11. n \in G BY <1>10
  <1> QED BY <1>1, <1>4, <1>5, <1>11 DEF G

LEMMA CoordinatesTyped ==
  ASSUME NEW stops \in Seq(Places \cup {None})
  PROVE  /\ Coordinates(stops) \in Seq(Places)
         /\ Len(Coordinates(stops)) = Len(Points(stops))
         /\ Len(Points(stops)) \in Nat
         /\ \A i \in 1 .. Len(Points(stops)) : /\ Points(stops)[i] \in 1 .. Len(stops)
                                              /\ stops[Points(stops)[i]] \in Places
                                              /\ Coordinates(stops)[i] = stops[Points(stops)[i]]
  <1>1. PICK p : p = Points(stops) OBVIOUS
  <1>2. PICK n \in Nat : n = Len(stops) OBVIOUS
  <1>3. PointsAre(p, stops, n) BY <1>1, <1>2, PointsExact
  <1>4. p \in Seq(1 .. n) BY <1>3 DEF PointsAre
  <1>5. PICK l \in Nat : l = Len(p) /\ DOMAIN p = 1 .. l BY <1>4
  <1>6. ASSUME NEW i \in 1 .. l PROVE p[i] \in 1 .. n /\ stops[p[i]] \in Places
    <2>1. p[i] \in 1 .. n BY <1>4, <1>5
    <2>2. stops[p[i]] # None BY <1>3, <1>5, <2>1 DEF PointsAre
    <2>3. stops[p[i]] \in Places \cup {None} BY <1>2, <2>1
    <2> QED BY <2>1, <2>2, <2>3
  <1>7. Coordinates(stops) = [i \in 1 .. l |-> stops[p[i]]] BY <1>1, <1>5 DEF Coordinates
  <1>8. [i \in 1 .. l |-> stops[p[i]]] \in [1 .. l -> Places] BY <1>6
  <1>9. Coordinates(stops) \in Seq(Places) /\ Len(Coordinates(stops)) = l BY <1>7, <1>8
  <1>10. \A i \in 1 .. l : Coordinates(stops)[i] = stops[p[i]] BY <1>7
  <1> QED BY <1>1, <1>2, <1>5, <1>6, <1>9, <1>10

(* The legs that _apply_leg_summaries writes are those of the stops.        *)
NextOf(stops, n) ==
    CHOOSE m \in DOMAIN stops : /\ m > n /\ stops[m] # None
                                /\ \A k \in n + 1 .. m - 1 : stops[k] = None
HasNextOf(stops, n) ==
    stops[n] # None /\ \E m \in n + 1 .. Len(stops) : stops[m] # None

LEMMA NextOfIs ==
  ASSUME NEW stops, Len(stops) \in Nat, DOMAIN stops = 1 .. Len(stops),
         NEW n \in 1 .. Len(stops), NEW m \in n + 1 .. Len(stops), stops[m] # None,
         \A k \in n + 1 .. m - 1 : stops[k] = None
  PROVE  NextOf(stops, n) = m
  <1>1. m \in DOMAIN stops /\ m > n OBVIOUS
  <1>2. ASSUME NEW l \in DOMAIN stops, l > n, stops[l] # None,
               \A k \in n + 1 .. l - 1 : stops[k] = None
        PROVE  l = m
    <2>1. ~(l < m)
      <3>1. ASSUME l < m PROVE l \in n + 1 .. m - 1 BY <1>2, <3>1
      <3> QED BY <1>2, <3>1
    <2>2. ~(m < l)
      <3>1. ASSUME m < l PROVE m \in n + 1 .. l - 1 BY <1>2, <3>1
      <3> QED BY <1>2, <3>1
    <2> QED BY <1>2, <2>1, <2>2
  <1> QED BY <1>1, <1>2 DEF NextOf

LEMMA LegsTold ==
  ASSUME NEW stops \in Seq(Places \cup {None}), NEW leg,
         \A n \in 1 .. Len(stops) : leg[n] = NoLeg,
         Len(Points(stops)) >= 2, NEW told, told.stops = stops, told.route # NoRoute,
         told.leg = LegsApplied(stops, leg, Sections(Coordinates(stops)))
  PROVE  DayTrue(told)
  <1>1. PICK p, c, s : /\ p = Points(stops) /\ c = Coordinates(stops)
                       /\ s = Sections(Coordinates(stops))
    OBVIOUS
  <1>2. PICK n \in Nat, l \in Nat : n = Len(stops) /\ l = Len(p) /\ l >= 2
    BY <1>1, CoordinatesTyped
  <1>3. PointsAre(p, stops, n) BY <1>1, <1>2, PointsExact
  <1>4. /\ c \in Seq(Places) /\ Len(c) = l
        /\ \A i \in 1 .. l : p[i] \in 1 .. n /\ c[i] = stops[p[i]]
    BY <1>1, <1>2, CoordinatesTyped
  <1>5. Len(s) = l - 1 /\ s \in Seq(Legs)
        /\ \A i \in 1 .. l - 1 : s[i] = Leg(stops[p[i]], stops[p[i + 1]])
    <2>1. Len(s) = l - 1 /\ s \in Seq(Legs)
          /\ \A i \in 1 .. l - 1 : s[i] = Leg(c[i], c[i + 1])
      BY <1>1, <1>2, <1>4, SectionsTyped
    <2> QED BY <1>4, <2>1
  <1>6. DOMAIN s = 1 .. l - 1 /\ DOMAIN stops = 1 .. n BY <1>2, <1>5
  <1>7. ASSUME NEW i \in 1 .. l, NEW k \in 1 .. l PROVE i < k <=> p[i] < p[k]
    <2>1. i < k => p[i] < p[k] BY <1>2, <1>3 DEF PointsAre
    <2>2. k < i => p[k] < p[i] BY <1>2, <1>3 DEF PointsAre
    <2>3. p[i] \in Nat /\ p[k] \in Nat BY <1>4
    <2>4. i = k => p[i] = p[k] OBVIOUS
    <2>5. i < k \/ k < i \/ i = k OBVIOUS
    <2> QED BY <2>1, <2>2, <2>3, <2>4, <2>5
  <1>8. ASSUME NEW m \in 1 .. n PROVE stops[m] # None <=> \E i \in 1 .. l : p[i] = m
    BY <1>2, <1>3 DEF PointsAre
  <1>9. ASSUME NEW m \in 1 .. n
        PROVE  told.leg[m] = IF HasNextOf(stops, m) /\ stops[m] # stops[NextOf(stops, m)]
                               THEN Leg(stops[m], stops[NextOf(stops, m)]) ELSE NoLeg
    <2>1. told.leg[m] =
            IF \E i \in 1 .. l - 1 : i < l /\ p[i] = m /\ Moves(s[i])
              THEN s[CHOOSE i \in 1 .. l - 1 : i < l /\ p[i] = m] ELSE NoLeg
      BY <1>1, <1>2, <1>6 DEF LegsApplied
    <2>2. CASE \E i \in 1 .. l - 1 : p[i] = m
      <3>1. PICK i \in 1 .. l - 1 : p[i] = m BY <2>2
      <3>2. i \in 1 .. l /\ i + 1 \in 1 .. l /\ i < l BY <3>1
      <3>3. PICK k \in m + 1 .. n : k = p[i + 1]
        <4>1. p[i] < p[i + 1] BY <1>7, <3>2
        <4> QED BY <1>4, <3>1, <3>2, <4>1
      <3>4. stops[m] # None /\ stops[k] # None BY <1>8, <3>1, <3>2, <3>3
      <3>5. \A x \in m + 1 .. k - 1 : stops[x] = None
        <4> SUFFICES ASSUME NEW x \in m + 1 .. k - 1, stops[x] # None PROVE FALSE OBVIOUS
        <4>1. PICK y \in 1 .. l : p[y] = x
          <5>1. x \in 1 .. n OBVIOUS
          <5> QED BY <1>8, <5>1
        <4>2. p[i] < p[y] /\ p[y] < p[i + 1] BY <3>1, <3>3, <4>1
        <4>3. i < y BY <1>7, <3>2, <4>2
        <4>4. y < i + 1 BY <1>7, <3>2, <4>2
        <4> QED BY <4>3, <4>4
      <3>6. NextOf(stops, m) = k BY <1>2, <1>6, <3>4, <3>5, NextOfIs
      <3>7. HasNextOf(stops, m) BY <1>2, <3>4 DEF HasNextOf
      <3>8. \A y \in 1 .. l - 1 : p[y] = m => y = i
        <4> SUFFICES ASSUME NEW y \in 1 .. l - 1, p[y] = m PROVE y = i OBVIOUS
        <4>1. y \in 1 .. l OBVIOUS
        <4>2. ~(p[y] < p[i]) /\ ~(p[i] < p[y]) BY <3>1
        <4>3. ~(y < i) /\ ~(i < y) BY <1>7, <3>2, <4>1, <4>2
        <4> QED BY <4>3
      <3>9. (CHOOSE y \in 1 .. l - 1 : y < l /\ p[y] = m) = i BY <3>1, <3>2, <3>8
      <3>10. s[i] = Leg(stops[m], stops[k]) BY <1>5, <3>1, <3>3
      <3>11. Moves(s[i]) <=> stops[m] # stops[k] BY <3>10 DEF Moves, Leg
      <3>12. told.leg[m] = IF Moves(s[i]) THEN s[i] ELSE NoLeg
        BY <2>1, <3>1, <3>2, <3>8, <3>9
      <3> QED BY <3>6, <3>7, <3>10, <3>11, <3>12
    <2>3. CASE ~ \E i \in 1 .. l - 1 : p[i] = m
      <3>1. told.leg[m] = NoLeg BY <2>1, <2>3
      <3>2. ~HasNextOf(stops, m)
        <4> SUFFICES ASSUME stops[m] # None, NEW k \in m + 1 .. n, stops[k] # None
                     PROVE  FALSE
          BY <1>2 DEF HasNextOf
        <4>1. PICK i \in 1 .. l : p[i] = m BY <1>8
        <4>2. PICK y \in 1 .. l : p[y] = k BY <1>8
        <4>3. p[i] < p[y] BY <4>1, <4>2
        <4>4. i < y BY <1>7, <4>3
        <4>5. i \in 1 .. l - 1 BY <4>4
        <4> QED BY <2>3, <4>1, <4>5
      <3> QED BY <3>1, <3>2
    <2> QED BY <2>2, <2>3
  <1>10. \A m \in DOMAIN told.stops :
           told.leg[m] = IF /\ told.route # NoRoute /\ HasNextOf(told.stops, m)
                            /\ told.stops[m] # told.stops[NextOf(told.stops, m)]
                           THEN Leg(told.stops[m], told.stops[NextOf(told.stops, m)])
                           ELSE NoLeg
    BY <1>6, <1>9
  <1> QED BY <1>10, Zenon DEF DayTrue, NextOf, HasNextOf
-----------------------------------------------------------------------------
(* What a job has when it comes to its k-th coordinate.                     *)
RouteUpTo(c, k) ==
    [segments |-> Sections(SubSeq(c, 1, k)),
     geometry |-> IF k = 1 THEN <<>> ELSE ExtendUnique(<<>>, SubSeq(c, 1, k))]

LEMMA PartSections ==
  ASSUME NEW c \in Seq(Places), NEW a \in 1 .. Len(c), NEW b \in a .. Len(c)
  PROVE  /\ Sections(SubSeq(c, a, b)) \in Seq(Legs)
         /\ Len(Sections(SubSeq(c, a, b))) = b - a
         /\ \A n \in 1 .. b - a :
              Sections(SubSeq(c, a, b))[n] = Leg(c[a + n - 1], c[a + n])
  <1>1. PICK p \in Seq(Places) : /\ p = SubSeq(c, a, b) /\ Len(p) = b - a + 1
                                 /\ \A n \in 1 .. b - a + 1 : p[n] = c[a + n - 1]
    <2>1. b \in a - 1 .. Len(c) OBVIOUS
    <2>2. /\ SubSeq(c, a, b) \in Seq(Places)
          /\ Len(SubSeq(c, a, b)) = b - a + 1
          /\ \A n \in 1 .. b - a + 1 : SubSeq(c, a, b)[n] = c[a + n - 1]
      BY <2>1, PartGrows
    <2> QED BY <2>2
  <1>2. Len(p) >= 1 /\ Len(p) - 1 = b - a BY <1>1
  <1>3. /\ Sections(p) \in Seq(Legs) /\ Len(Sections(p)) = b - a
        /\ \A n \in 1 .. b - a : Sections(p)[n] = Leg(p[n], p[n + 1])
    BY <1>2, SectionsTyped
  <1>4. ASSUME NEW n \in 1 .. b - a PROVE Leg(p[n], p[n + 1]) = Leg(c[a + n - 1], c[a + n])
    <2>1. n \in 1 .. b - a + 1 /\ n + 1 \in 1 .. b - a + 1 /\ a + (n + 1) - 1 = a + n
      OBVIOUS
    <2>2. p[n] = c[a + n - 1] /\ p[n + 1] = c[a + (n + 1) - 1] BY <1>1, <2>1
    <2> QED BY <2>1, <2>2
  <1> QED BY <1>1, <1>3, <1>4

LEMMA RouteBegins ==
  ASSUME NEW c \in Seq(Places), Len(c) >= 1
  PROVE  RouteUpTo(c, 1) = NoRoute
  <1>1. PICK s \in Seq(Legs) : s = Sections(SubSeq(c, 1, 1)) /\ Len(s) = 0
    <2>1. PICK i \in 1 .. Len(c) : i = 1 /\ i \in i .. Len(c) /\ i - i = 0 OBVIOUS
    <2>2. Sections(SubSeq(c, i, i)) \in Seq(Legs) /\ Len(Sections(SubSeq(c, i, i))) = i - i
      BY <2>1, PartSections
    <2> QED BY <2>1, <2>2
  <1>2. s = <<>> BY <1>1, EmptySeq
  <1> QED BY <1>1, <1>2 DEF RouteUpTo, NoRoute

LEMMA RouteEnds ==
  ASSUME NEW c \in Seq(Places), Len(c) >= 2
  PROVE  RouteWhole(RouteUpTo(c, Len(c)), c) /\ RouteUpTo(c, Len(c)) # NoRoute
  <1>1. SubSeq(c, 1, Len(c)) = c BY SubSeqFull
  <1>2. Len(Sections(c)) = Len(c) - 1 BY SectionsTyped
  <1>3. Sections(c) # <<>> BY <1>2
  <1>4. Len(c) # 1
    <2>1. PICK n \in Nat : n = Len(c) /\ n >= 2 OBVIOUS
    <2> QED BY <2>1
  <1> QED BY <1>1, <1>3, <1>4 DEF RouteUpTo, RouteWhole, NoRoute

LEMMA RouteGrows ==
  ASSUME NEW c \in Seq(Places), NEW a \in 1 .. Len(c), NEW b \in a + 1 .. Len(c)
  PROVE  WithChunk(RouteUpTo(c, a), Sections(SubSeq(c, a, b))) = RouteUpTo(c, b)
  <1>1. PICK i \in 1 .. Len(c) : i = 1 /\ b \in a .. Len(c) /\ a \in i .. Len(c) /\ b \in i .. Len(c)
    OBVIOUS
  <1>2. PICK r, s, t : /\ r = Sections(SubSeq(c, i, a)) /\ s = Sections(SubSeq(c, a, b))
                       /\ t = Sections(SubSeq(c, i, b))
    OBVIOUS
  <1>3. /\ r \in Seq(Legs) /\ Len(r) = a - 1
        /\ \A n \in 1 .. a - 1 : r[n] = Leg(c[n], c[n + 1])
    <2>1. /\ r \in Seq(Legs) /\ Len(r) = a - i
          /\ \A n \in 1 .. a - i : r[n] = Leg(c[i + n - 1], c[i + n])
      BY <1>1, <1>2, PartSections
    <2>2. \A n \in 1 .. a - 1 : i + n - 1 = n /\ i + n = n + 1 BY <1>1
    <2> QED BY <1>1, <2>1, <2>2
  <1>4. /\ s \in Seq(Legs) /\ Len(s) = b - a
        /\ \A n \in 1 .. b - a : s[n] = Leg(c[a + n - 1], c[a + n])
    BY <1>1, <1>2, PartSections
  <1>5. /\ t \in Seq(Legs) /\ Len(t) = b - 1
        /\ \A n \in 1 .. b - 1 : t[n] = Leg(c[n], c[n + 1])
    <2>1. /\ t \in Seq(Legs) /\ Len(t) = b - i
          /\ \A n \in 1 .. b - i : t[n] = Leg(c[i + n - 1], c[i + n])
      BY <1>1, <1>2, PartSections
    <2>2. \A n \in 1 .. b - 1 : i + n - 1 = n /\ i + n = n + 1 BY <1>1
    <2> QED BY <1>1, <2>1, <2>2
  <1>6. r \o s = t
    <2>1. PICK u \in Seq(Legs) : u = r \o s BY <1>3, <1>4, ConcatProperties
    <2>2. /\ Len(u) = b - 1
          /\ \A n \in 1 .. b - 1 : u[n] = IF n <= a - 1 THEN r[n] ELSE s[n - (a - 1)]
      <3>1. Len(u) = Len(r) + Len(s) BY <1>3, <1>4, <2>1, ConcatProperties
      <3>2. \A n \in 1 .. Len(r) + Len(s) : u[n] = IF n <= Len(r) THEN r[n] ELSE s[n - Len(r)]
        BY <1>3, <1>4, <2>1, ConcatProperties
      <3>3. Len(r) + Len(s) = b - 1 BY <1>3, <1>4
      <3> QED BY <1>3, <3>1, <3>2, <3>3
    <2>3. ASSUME NEW n \in 1 .. b - 1 PROVE u[n] = t[n]
      <3>1. CASE n <= a - 1
        <4>1. n \in 1 .. a - 1 BY <3>1
        <4> QED BY <1>3, <1>5, <2>2, <3>1, <4>1
      <3>2. CASE ~(n <= a - 1)
        <4>1. PICK m \in 1 .. b - a : m = n - (a - 1) /\ a + m - 1 = n /\ a + m = n + 1
          BY <3>2
        <4>2. s[m] = Leg(c[a + m - 1], c[a + m]) BY <1>4
        <4>3. u[n] = s[m] BY <2>2, <3>2, <4>1
        <4> QED BY <1>5, <4>1, <4>2, <4>3
      <3> QED BY <3>1, <3>2
    <2>4. u = t BY <1>5, <2>2, <2>3, SeqEqual
    <2> QED BY <2>1, <2>4
  <1>7. GeometryOf(s) = ExtendUnique(<<>>, SubSeq(c, a, b))
    <2>1. PICK p \in Seq(Places) : p = SubSeq(c, a, b) /\ Len(p) = b - a + 1
      <3>1. b \in a - 1 .. Len(c) OBVIOUS
      <3>2. SubSeq(c, a, b) \in Seq(Places) /\ Len(SubSeq(c, a, b)) = b - a + 1
        BY <3>1, PartGrows
      <3> QED BY <3>2
    <2>2. Len(p) >= 2 BY <2>1
    <2>3. GeometryOf(Sections(p)) = ExtendUnique(<<>>, p) BY <2>2, GeometryOfSections
    <2> QED BY <1>2, <2>1, <2>3
  <1> DEFINE before == IF a = 1 THEN <<>> ELSE ExtendUnique(<<>>, SubSeq(c, 1, a))
  <1>8. ExtendUnique(before, GeometryOf(s)) = ExtendUnique(<<>>, SubSeq(c, 1, b))
    <2>1. PICK p \in Seq(Places), q \in Seq(Places), e \in Seq(Places) :
            p = SubSeq(c, a, b) /\ q = SubSeq(c, 1, a) /\ e = <<>>
      <3>1. b \in a - 1 .. Len(c) /\ a \in i - 1 .. Len(c) BY <1>1
      <3>2. SubSeq(c, a, b) \in Seq(Places) BY <3>1, PartGrows
      <3>3. SubSeq(c, i, a) \in Seq(Places) BY <3>1, PartGrows
      <3> QED BY <1>1, <3>2, <3>3, EmptySeq
    <2>2. PICK g \in Seq(Places) : g = ExtendUnique(e, q) BY ExtendTyped
    <2>3. \A u \in Seq(Places) : ExtendUnique(u, ExtendUnique(<<>>, p)) = ExtendUnique(u, p)
      BY ExtendTwice
    <2>4. CASE a = 1
      <3>1. before = e BY <2>1, <2>4
      <3>2. ExtendUnique(e, GeometryOf(s)) = ExtendUnique(e, p) BY <1>7, <2>1, <2>3
      <3> QED BY <2>1, <2>4, <3>1, <3>2
    <2>5. CASE a # 1
      <3>1. before = g BY <2>1, <2>2, <2>5
      <3>2. ExtendUnique(g, GeometryOf(s)) = ExtendUnique(g, p) BY <1>7, <2>1, <2>3
      <3>3. ExtendUnique(g, p) = ExtendUnique(<<>>, SubSeq(c, 1, b))
        BY <1>1, <2>1, <2>2, ExtendJoins
      <3> QED BY <3>1, <3>2, <3>3
    <2> QED BY <2>4, <2>5
  <1>9. b # 1 OBVIOUS
  <1>10. RouteUpTo(c, a) = [segments |-> r, geometry |-> before]
    BY <1>1, <1>2 DEF RouteUpTo
  <1>11. RouteUpTo(c, b) = [segments |-> t, geometry |-> ExtendUnique(<<>>, SubSeq(c, 1, b))]
    BY <1>1, <1>2, <1>9 DEF RouteUpTo
  <1> HIDE DEF before
  <1>12. WithChunk([segments |-> r, geometry |-> before], s) =
           [segments |-> r \o s, geometry |-> ExtendUnique(before, GeometryOf(s))]
    BY DEF WithChunk
  <1> QED BY <1>2, <1>6, <1>8, <1>10, <1>11, <1>12
-----------------------------------------------------------------------------
(* The invariant: a job that got every section so far has the route up to   *)
(* its start, and its day waits untouched until it is collected.            *)
Live(j) == j.stage \in {"queued", "running", "fetched"}

JobOk(j) ==
    Live(j) =>
      /\ j = [stage |-> j.stage, coordinates |-> j.coordinates, start |-> j.start,
              route |-> j.route]
      /\ j.coordinates \in Seq(Places) /\ Len(j.coordinates) >= 2
      /\ j.start \in 1 .. Len(j.coordinates)
      /\ j.route = RouteUpTo(j.coordinates, j.start)
      /\ j.stage = "fetched" => j.start = Len(j.coordinates)

Waits(j, told) ==
    Live(j) => /\ j.coordinates = Coordinates(told.stops)
               /\ told.route = NoRoute
               /\ \A n \in 1 .. Len(told.stops) : told.leg[n] = NoLeg

Told(told) ==
    /\ told.route # NoRoute => RouteWhole(told.route, Coordinates(told.stops))
    /\ DayTrue(told)

RoutesInv ==
    /\ job = [j \in Jobs |-> job[j]]
    /\ day = [d \in Days |-> [stops |-> day[d].stops, leg |-> day[d].leg,
                              route |-> day[d].route]]
    /\ \A d \in Days : day[d].stops \in Seq(Places \cup {None})
    /\ \A j \in Jobs \ skewed : JobOk(job[j])
    /\ \A d \in Days \ skewed : Waits(job[d], day[d]) /\ Told(day[d])

(* A day that nothing was written into says nothing, and so nothing false.  *)
LEMMA Untold ==
  ASSUME NEW told, NEW S, told.stops \in Seq(S), told.route = NoRoute,
         \A n \in 1 .. Len(told.stops) : told.leg[n] = NoLeg
  PROVE  Told(told)
  <1>1. DOMAIN told.stops = 1 .. Len(told.stops) OBVIOUS
  <1> QED BY <1>1 DEF Told, DayTrue

LEMMA NoDayTold == Told(NoDay) /\ NoDay.stops \in Seq(Places \cup {None})
  <1>1. PICK told : told = NoDay OBVIOUS
  <1>2. told.stops = <<>> /\ told.route = NoRoute BY <1>1 DEF NoDay
  <1>3. <<>> \in Seq(Places \cup {None}) /\ 1 .. Len(<<>>) = {} BY EmptySeq
  <1>4. Told(told) BY <1>2, <1>3, Untold
  <1> QED BY <1>1, <1>2, <1>3, <1>4

LEMMA FetchOk ==
  ASSUME NEW c \in Seq(Places), Len(c) >= 2, NEW state \in {"queued", "running"}
  PROVE  JobOk(Fetch(state, c))
  <1>1. PICK j : j = Fetch(state, c) OBVIOUS
  <1>2. /\ j.stage = state /\ j.coordinates = c /\ j.start = 1 /\ j.route = NoRoute
        /\ j = [stage |-> j.stage, coordinates |-> j.coordinates, start |-> j.start,
                route |-> j.route]
    BY <1>1 DEF Fetch
  <1>3. NoRoute = RouteUpTo(c, 1) BY RouteBegins
  <1>4. 1 \in 1 .. Len(c) OBVIOUS
  <1> QED BY <1>1, <1>2, <1>3, <1>4 DEF JobOk

(* The three answers to a request begin with nothing told.                  *)
LEMMA ResetOk ==
  ASSUME NEW r, NEW k \in Jobs, JobOk(r), k \notin Days,
         job' = [j \in Jobs |-> IF j = k THEN r ELSE NoJob],
         day' = [d \in Days |-> NoDay]
  PROVE  RoutesInv'
  <1>1. ~Live(NoJob) BY DEF Live, NoJob
  <1>2. JobOk(NoJob) BY <1>1 DEF JobOk
  <1>3. \A d \in Days : Waits(NoJob, NoDay) BY <1>1 DEF Waits
  <1>4. \A j \in Jobs : JobOk(job'[j]) BY <1>2
  <1>5. \A d \in Days : d \in Jobs /\ job'[d] = NoJob /\ day'[d] = NoDay BY DEF Jobs
  <1>6. NoDay = [stops |-> NoDay.stops, leg |-> NoDay.leg, route |-> NoDay.route]
    BY DEF NoDay
  <1>7. job' = [j \in Jobs |-> job'[j]] OBVIOUS
  <1>8. day' = [d \in Days |-> [stops |-> day'[d].stops, leg |-> day'[d].leg,
                               route |-> day'[d].route]]
    BY <1>5, <1>6
  <1>9. \A d \in Days : /\ day'[d].stops \in Seq(Places \cup {None})
                        /\ Waits(job'[d], day'[d]) /\ Told(day'[d])
    BY <1>3, <1>5, NoDayTold
  <1> QED BY <1>4, <1>7, <1>8, <1>9 DEF RoutesInv

LEMMA InitRoutes == Init => RoutesInv
  <1> SUFFICES ASSUME Init PROVE RoutesInv OBVIOUS
  <1>1. ~Live(NoJob) BY DEF Live, NoJob
  <1>2. JobOk(NoJob) /\ Waits(NoJob, NoDay) BY <1>1 DEF JobOk, Waits
  <1>3. \A j \in Jobs : job[j] = NoJob BY DEF Init
  <1>4. \A d \in Days : d \in Jobs /\ day[d] = NoDay BY DEF Init, Jobs
  <1>5. NoDay = [stops |-> NoDay.stops, leg |-> NoDay.leg, route |-> NoDay.route]
    BY DEF NoDay
  <1>6. job = [j \in Jobs |-> job[j]] BY DEF Init
  <1>7. day = [d \in Days |-> [stops |-> day[d].stops, leg |-> day[d].leg,
                              route |-> day[d].route]]
    BY <1>4, <1>5 DEF Init
  <1> QED BY <1>2, <1>3, <1>4, <1>6, <1>7, NoDayTold DEF RoutesInv

LEMMA RecommendOk == Recommend \/ Deadline => RoutesInv'
  <1> SUFFICES ASSUME Recommend \/ Deadline PROVE RoutesInv' OBVIOUS
  <1>1. job' = [j \in Jobs |-> NoJob] /\ day' = [d \in Days |-> NoDay]
    BY DEF Recommend, Deadline
  <1>2. PICK k \in Jobs : k = Direct BY DEF Jobs
  <1>3. JobOk(NoJob) BY DEF JobOk, Live, NoJob
  <1>4. job' = [j \in Jobs |-> IF j = k THEN NoJob ELSE NoJob] BY <1>1
  <1> QED BY <1>1, <1>2, <1>3, <1>4, DaysAssumption, ResetOk

LEMMA AskRouteOk ==
  ASSUME NEW journey \in Journeys, NEW found, AskRoute(journey, found)
  PROVE  RoutesInv'
  <1>1. PICK r : r = IF found = "read" THEN Fetch("running", journey) ELSE NoJob OBVIOUS
  <1>2. PICK k \in Jobs : k = Direct BY DEF Jobs
  <1>3. JobOk(r)
    <2>1. JobOk(NoJob) BY DEF JobOk, Live, NoJob
    <2>2. journey \in Seq(Places) /\ Len(journey) >= 2
      BY JourneysAssumption, CoordinatesAssumption DEF AskRoute, ValidJourney
    <2>3. JobOk(Fetch("running", journey)) BY <2>2, FetchOk
    <2> QED BY <1>1, <2>1, <2>3
  <1>4. job' = [j \in Jobs |-> IF j = k THEN r ELSE NoJob]
    BY <1>1, <1>2 DEF AskRoute
  <1>5. day' = [d \in Days |-> NoDay] BY DEF AskRoute
  <1> QED BY <1>2, <1>3, <1>4, <1>5, DaysAssumption, ResetOk

LEMMA AgentAnswersOk ==
  ASSUME NEW itinerary \in Itineraries, NEW found, AgentAnswers(itinerary, found)
  PROVE  RoutesInv'
  <1> DEFINE told(d) == [stops |-> itinerary[d], leg |-> [n \in DOMAIN itinerary[d] |-> NoLeg],
                         route |-> NoRoute]
             r(j) == IF j # Direct /\ found = "read" /\ Len(Points(itinerary[j])) >= 2
                       THEN Fetch("queued", Coordinates(itinerary[j])) ELSE NoJob
  <1>1. job' = [j \in Jobs |-> r(j)] /\ day' = [d \in Days |-> told(d)]
    BY DEF AgentAnswers, RouteJobs
  <1>2. \A d \in Days : itinerary[d] \in Seq(Places \cup {None})
    BY ItinerariesAssumption
  <1>3. ASSUME NEW d \in Days
        PROVE  /\ told(d).stops \in Seq(Places \cup {None}) /\ Told(told(d))
               /\ JobOk(r(d)) /\ Waits(r(d), told(d))
    <2>1. PICK s \in Seq(Places \cup {None}) : s = itinerary[d] BY <1>2
    <2>2. DOMAIN s = 1 .. Len(s) OBVIOUS
    <2>3. PICK t : t = told(d) OBVIOUS
    <2>4. /\ t.stops = s /\ t.route = NoRoute
          /\ \A n \in 1 .. Len(s) : t.leg[n] = NoLeg
      BY <2>1, <2>2, <2>3
    <2>5. Told(t) BY <2>4, Untold
    <2>6. JobOk(NoJob) /\ Waits(NoJob, t) BY DEF JobOk, Waits, Live, NoJob
    <2>7. ASSUME Len(Points(s)) >= 2
          PROVE  JobOk(Fetch("queued", Coordinates(s))) /\ Waits(Fetch("queued", Coordinates(s)), t)
      <3>1. PICK c \in Seq(Places) : c = Coordinates(s) /\ Len(c) >= 2
        BY <2>7, CoordinatesTyped
      <3>2. JobOk(Fetch("queued", c)) BY <3>1, FetchOk
      <3>3. Fetch("queued", c).coordinates = c BY DEF Fetch
      <3> QED BY <2>4, <3>1, <3>2, <3>3 DEF Waits
    <2> QED BY <2>1, <2>3, <2>4, <2>5, <2>6, <2>7
  <1>4. JobOk(r(Direct)) BY DEF JobOk, Live, NoJob
  <1>5. \A d \in Days : told(d) = [stops |-> told(d).stops, leg |-> told(d).leg,
                                   route |-> told(d).route]
    OBVIOUS
  <1> HIDE DEF told, r
  <1>6. \A d \in Days : d \in Jobs /\ job'[d] = r(d) /\ day'[d] = told(d)
    BY <1>1 DEF Jobs
  <1>7. \A j \in Jobs : JobOk(job'[j])
    <2>1. \A j \in Jobs : job'[j] = r(j) /\ (j \in Days \/ j = Direct) BY <1>1 DEF Jobs
    <2> QED BY <1>3, <1>4, <2>1
  <1>8. job' = [j \in Jobs |-> job'[j]] BY <1>1
  <1>9. day' = [d \in Days |-> [stops |-> day'[d].stops, leg |-> day'[d].leg,
                               route |-> day'[d].route]]
    BY <1>1, <1>5, <1>6
  <1> QED BY <1>3, <1>6, <1>7, <1>8, <1>9 DEF RoutesInv

(* What a thread does to one job leaves the days and the other jobs alone.  *)
LEMMA OneJobOk ==
  ASSUME RoutesInv, NEW i \in Jobs, NEW r, job' = [job EXCEPT ![i] = r], day' = day,
         skewed \subseteq skewed',
         i \notin skewed' => JobOk(r) /\ (Live(r) => Live(job[i]) /\ r.coordinates = job[i].coordinates)
  PROVE  RoutesInv'
  <1>1. job' = [j \in Jobs |-> job'[j]] BY DEF RoutesInv
  <1>2. \A j \in Jobs : job'[j] = IF j = i THEN r ELSE job[j] BY DEF RoutesInv
  <1>3. \A d \in Days : d \in Jobs BY DEF Jobs
  <1>4. ASSUME NEW j \in Jobs \ skewed' PROVE JobOk(job'[j])
    BY <1>2 DEF RoutesInv
  <1>5. ASSUME NEW d \in Days \ skewed' PROVE Waits(job'[d], day[d])
    <2>1. Waits(job[d], day[d]) BY DEF RoutesInv
    <2>2. CASE d = i
      <3>1. job'[d] = r BY <1>2, <2>2
      <3>2. Waits(r, day[d]) BY <2>1, <2>2 DEF Waits
      <3> QED BY <3>1, <3>2
    <2>3. CASE d # i
      <3>1. job'[d] = job[d] BY <1>2, <1>3, <2>3
      <3> QED BY <2>1, <3>1
    <2> QED BY <2>2, <2>3
  <1>6. \A d \in Days \ skewed' : Told(day[d]) BY DEF RoutesInv
  <1>7. day' = [d \in Days |-> [stops |-> day'[d].stops, leg |-> day'[d].leg,
                               route |-> day'[d].route]]
    BY DEF RoutesInv
  <1>8. \A d \in Days : day'[d].stops \in Seq(Places \cup {None}) BY DEF RoutesInv
  <1> QED BY <1>1, <1>4, <1>5, <1>6, <1>7, <1>8 DEF RoutesInv

LEMMA StageOk ==
  ASSUME NEW j, JobOk(j), Live(j), NEW state, state = "fetched" => j.start = Len(j.coordinates)
  PROVE  LET r == [j EXCEPT !.stage = state]
         IN  JobOk(r) /\ r.stage = state /\ r.coordinates = j.coordinates
  <1>1. PICK a, b, c, d : j = [stage |-> a, coordinates |-> b, start |-> c, route |-> d]
    BY DEF JobOk
  <1>2. PICK r : r = [j EXCEPT !.stage = state] OBVIOUS
  <1>3. r = [stage |-> state, coordinates |-> b, start |-> c, route |-> d] BY <1>1, <1>2
  <1>4. /\ r.stage = state /\ r.coordinates = j.coordinates /\ r.start = j.start
        /\ r.route = j.route
        /\ r = [stage |-> r.stage, coordinates |-> r.coordinates, start |-> r.start,
                route |-> r.route]
    BY <1>1, <1>3
  <1>5. JobOk(r) BY <1>4 DEF JobOk
  <1> QED BY <1>2, <1>4, <1>5

LEMMA StartJobOk ==
  ASSUME RoutesInv, NEW d \in Days, StartJob(d)
  PROVE  RoutesInv'
  <1>1. d \in Jobs BY DEF Jobs
  <1>2. PICK r : r = [job[d] EXCEPT !.stage = "running"] OBVIOUS
  <1>3. job' = [job EXCEPT ![d] = r] BY <1>2 DEF StartJob
  <1>4. day' = day /\ skewed' = skewed /\ Live(job[d]) BY DEF StartJob, Live
  <1>5. ASSUME d \notin skewed' PROVE JobOk(r) /\ r.coordinates = job[d].coordinates
    <2>1. PICK j : j = job[d] OBVIOUS
    <2>2. JobOk(j) /\ Live(j) BY <1>1, <1>4, <1>5, <2>1 DEF RoutesInv
    <2> QED BY <1>2, <2>1, <2>2, StageOk
  <1> QED BY <1>1, <1>3, <1>4, <1>5, OneJobOk

LEMMA EndJobOk ==
  ASSUME RoutesInv, NEW i \in Jobs, NEW state, EndJob(i, state), Live(job[i]),
         state = "fetched" => job[i].start >= Len(job[i].coordinates)
  PROVE  RoutesInv'
  <1>1. PICK r : r = [job[i] EXCEPT !.stage = state] OBVIOUS
  <1>2. job' = [job EXCEPT ![i] = r] BY <1>1 DEF EndJob
  <1>3. day' = day /\ skewed' = skewed BY DEF EndJob
  <1>4. ASSUME i \notin skewed' PROVE JobOk(r) /\ r.coordinates = job[i].coordinates
    <2>1. PICK j : j = job[i] OBVIOUS
    <2>2. JobOk(j) /\ Live(j) BY <1>3, <1>4, <2>1 DEF RoutesInv
    <2>3. state = "fetched" => j.start = Len(j.coordinates)
      <3>1. PICK n \in Nat : n = Len(j.coordinates) /\ j.start \in 1 .. n
        BY <2>2 DEF JobOk
      <3> QED BY <2>1, <3>1
    <2> QED BY <1>1, <2>1, <2>2, <2>3, StageOk
  <1> QED BY <1>2, <1>3, <1>4, OneJobOk

LEMMA FetchChunkOk ==
  ASSUME RoutesInv, NEW i \in Jobs, NEW sections, FetchChunk(i, sections)
  PROVE  RoutesInv'
  <1>1. PICK j : j = job[i] OBVIOUS
  <1>2. PICK r : r = [j EXCEPT !.start = EndOf(i), !.route = WithChunk(j.route, sections)]
    OBVIOUS
  <1>3. job' = [job EXCEPT ![i] = r] BY <1>1, <1>2 DEF FetchChunk, NextStart
  <1>4. day' = day /\ skewed \subseteq skewed' /\ Live(job[i]) BY DEF FetchChunk, Live
  <1>5. ASSUME i \notin skewed' PROVE JobOk(r) /\ r.coordinates = job[i].coordinates
    <2>1. JobOk(j) /\ Live(j) BY <1>1, <1>4, <1>5 DEF RoutesInv
    <2>2. PICK c \in Seq(Places), n \in Nat, a \in Nat :
            c = j.coordinates /\ n = Len(c) /\ n >= 2 /\ a = j.start /\ a \in 1 .. n
      BY <2>1 DEF JobOk
    <2>3. j = [stage |-> "running", coordinates |-> c, start |-> a, route |-> RouteUpTo(c, a)]
      BY <1>1, <2>1, <2>2 DEF JobOk, FetchChunk
    <2>4. a < n BY <1>1, <2>2 DEF FetchChunk
    <2>5. PICK b \in a + 1 .. n : b = EndOf(i)
      BY <1>1, <2>2, <2>4, ChunkAssumption DEF EndOf
    <2>6. sections = Sections(SubSeq(c, a, b))
      BY <1>1, <1>5, <2>2, <2>5 DEF FetchChunk, Chunk
    <2>7. WithChunk(RouteUpTo(c, a), sections) = RouteUpTo(c, b)
      BY <2>2, <2>5, <2>6, RouteGrows
    <2>8. r = [stage |-> "running", coordinates |-> c, start |-> b, route |-> RouteUpTo(c, b)]
      <3>1. PICK x, y : x = RouteUpTo(c, a) /\ y = WithChunk(j.route, sections) OBVIOUS
      <3>2. j = [stage |-> "running", coordinates |-> c, start |-> a, route |-> x]
        BY <2>3, <3>1
      <3>3. r = [stage |-> "running", coordinates |-> c, start |-> b, route |-> y]
        BY <1>2, <2>5, <3>1, <3>2
      <3>4. y = RouteUpTo(c, b) BY <2>3, <2>7, <3>1
      <3> QED BY <3>3, <3>4
    <2>9. b \in 1 .. n OBVIOUS
    <2>10. PICK x : x = RouteUpTo(c, b) OBVIOUS
    <2>11. /\ r.stage = "running" /\ r.coordinates = c /\ r.start = b /\ r.route = x
           /\ r = [stage |-> r.stage, coordinates |-> r.coordinates, start |-> r.start,
                   route |-> r.route]
      BY <2>8, <2>10
    <2>12. JobOk(r) BY <2>2, <2>9, <2>10, <2>11 DEF JobOk
    <2> QED BY <1>1, <2>2, <2>11, <2>12
  <1> QED BY <1>3, <1>4, <1>5, OneJobOk

LEMMA CollectOk ==
  ASSUME RoutesInv, NEW d \in Days, Collect(d)
  PROVE  RoutesInv'
  <1>1. d \in Jobs BY DEF Jobs
  <1>2. PICK r : r = [job[d] EXCEPT !.stage = "collected"] OBVIOUS
  <1>3. job' = [job EXCEPT ![d] = r] /\ skewed' = skewed BY <1>2 DEF Collect
  <1>4. \A j \in Jobs : job'[j] = IF j = d THEN r ELSE job[j] BY <1>3 DEF RoutesInv
  <1>5. d \notin skewed => ~Live(r)
    <2>1. CASE job[d].stage = "fetched"
      <3>1. ASSUME d \notin skewed PROVE r.stage = "collected"
        <4>1. PICK j : j = job[d] OBVIOUS
        <4>2. JobOk(j) /\ Live(j) BY <1>1, <2>1, <3>1, <4>1 DEF RoutesInv, Live
        <4> QED BY <1>2, <4>1, <4>2, StageOk
      <3> QED BY <3>1 DEF Live
    <2>2. CASE job[d].stage = "failed"
      <3>1. r.stage \in {"collected", "failed"}
        BY <1>2, <2>2
      <3> QED BY <3>1 DEF Live
    <2> QED BY <2>1, <2>2 DEF Collect
  <1>6. JobOk(r) \/ d \in skewed BY <1>5 DEF JobOk
  <1>7. ASSUME NEW j \in Jobs \ skewed' PROVE JobOk(job'[j])
    BY <1>3, <1>4, <1>6 DEF RoutesInv
  <1>8. \A e \in Days : e \in Jobs BY DEF Jobs
  <1>9. PICK stops, leg, route :
          /\ stops \in Seq(Places \cup {None})
          /\ day[d] = [stops |-> stops, leg |-> leg, route |-> route]
    BY DEF RoutesInv
  <1> DEFINE s == job[d].route.segments
             told == IF job[d].stage = "failed" THEN day[d]
                     ELSE [stops |-> stops, leg |-> LegsApplied(stops, leg, s),
                           route |-> job[d].route]
  <1>10. day' = [day EXCEPT ![d] = told]
    <2>1. CASE job[d].stage = "failed"
      <3>1. day' = day BY <2>1 DEF Collect
      <3>2. day = [day EXCEPT ![d] = day[d]] BY DEF RoutesInv
      <3> QED BY <2>1, <3>1, <3>2
    <2>2. CASE job[d].stage = "fetched"
      <3>1. PICK x, y, z : x = job[d].route /\ y = s /\ z = LegsApplied(stops, leg, s) OBVIOUS
      <3>2. day' = [day EXCEPT ![d].route = x, ![d].leg = LegsApplied(day[d].stops, @, y)]
        BY <2>2, <3>1 DEF Collect
      <3>3. LegsApplied(day[d].stops, day[d].leg, y) = z BY <1>9, <3>1
      <3>4. PICK mid : mid = [day EXCEPT ![d].route = x] OBVIOUS
      <3>5. mid = [day EXCEPT ![d] = [stops |-> stops, leg |-> leg, route |-> x]]
        <4>1. PICK u : u = [day[d] EXCEPT !.route = x] OBVIOUS
        <4>2. mid = [day EXCEPT ![d] = u] BY <3>4, <4>1
        <4>3. u = [stops |-> stops, leg |-> leg, route |-> x] BY <1>9, <4>1
        <4> QED BY <4>2, <4>3
      <3>6. mid[d] = [stops |-> stops, leg |-> leg, route |-> x] BY <3>5 DEF RoutesInv
      <3>7. day' = [mid EXCEPT ![d].leg = LegsApplied(day[d].stops, mid[d].leg, y)]
        BY <3>2, <3>4
      <3>8. LegsApplied(day[d].stops, mid[d].leg, y) = z BY <3>3, <3>6, <1>9
      <3>9. day' = [mid EXCEPT ![d].leg = z] BY <3>7, <3>8
      <3>10. day' = [day EXCEPT ![d] = [stops |-> stops, leg |-> z, route |-> x]]
        <4>1. PICK u : u = [mid[d] EXCEPT !.leg = z] OBVIOUS
        <4>2. day' = [mid EXCEPT ![d] = u] BY <3>9, <4>1
        <4>3. u = [stops |-> stops, leg |-> z, route |-> x] BY <3>6, <4>1
        <4>4. PICK v : v = [stops |-> stops, leg |-> leg, route |-> x] OBVIOUS
        <4>5. mid = [day EXCEPT ![d] = v] BY <3>5, <4>4
        <4>6. [mid EXCEPT ![d] = u] = [day EXCEPT ![d] = u] BY <4>5
        <4> QED BY <4>2, <4>3, <4>6
      <3> QED BY <2>2, <3>1, <3>10
    <2> QED BY <2>1, <2>2 DEF Collect
  <1>11. told.stops = stops /\ told = [stops |-> told.stops, leg |-> told.leg, route |-> told.route]
    BY <1>9
  <1>12. ASSUME d \notin skewed PROVE Told(told)
    <2>1. CASE job[d].stage = "failed" BY <1>12, <2>1 DEF RoutesInv
    <2>2. CASE job[d].stage = "fetched"
      <3>1. PICK j : j = job[d] OBVIOUS
      <3>2. JobOk(j) /\ Live(j) /\ Waits(j, day[d])
        BY <1>1, <1>12, <2>2, <3>1 DEF RoutesInv, Live
      <3>3. PICK c \in Seq(Places) :
              c = Coordinates(stops) /\ Len(c) >= 2 /\ j.route = RouteUpTo(c, Len(c))
        BY <1>9, <2>2, <3>1, <3>2 DEF JobOk, Waits
      <3>4. RouteWhole(j.route, c) /\ j.route # NoRoute BY <3>3, RouteEnds
      <3>5. s = Sections(Coordinates(stops)) BY <3>1, <3>3, <3>4 DEF RouteWhole
      <3>6. \A n \in 1 .. Len(stops) : leg[n] = NoLeg BY <1>9, <3>2 DEF Waits
      <3>7. Len(Points(stops)) >= 2 BY <1>9, <3>3, CoordinatesTyped
      <3>8. PICK t : t = told OBVIOUS
      <3>9. /\ t.stops = stops /\ t.route = j.route
            /\ t.leg = LegsApplied(stops, leg, Sections(Coordinates(stops)))
        BY <2>2, <3>1, <3>5, <3>8
      <3>10. DayTrue(t) BY <1>9, <3>4, <3>6, <3>7, <3>9, LegsTold
      <3> QED BY <3>3, <3>4, <3>8, <3>9, <3>10 DEF Told
    <2> QED BY <2>1, <2>2 DEF Collect
  <1> HIDE DEF told
  <1>13. \A e \in Days : day'[e] = IF e = d THEN told ELSE day[e] BY <1>10 DEF RoutesInv
  <1>14. ASSUME NEW e \in Days \ skewed' PROVE Waits(job'[e], day'[e]) /\ Told(day'[e])
    <2>1. CASE e = d
      <3>1. job'[e] = r /\ day'[e] = told /\ e \notin skewed BY <1>1, <1>3, <1>4, <1>13, <2>1
      <3> QED BY <1>5, <1>12, <2>1, <3>1 DEF Waits
    <2>2. CASE e # d
      <3>1. job'[e] = job[e] /\ day'[e] = day[e] /\ e \notin skewed
        BY <1>3, <1>4, <1>8, <1>13, <2>2
      <3> QED BY <3>1 DEF RoutesInv
    <2> QED BY <2>1, <2>2
  <1>15. \A e \in Days : /\ day'[e].stops \in Seq(Places \cup {None})
                         /\ day'[e] = [stops |-> day'[e].stops, leg |-> day'[e].leg,
                                       route |-> day'[e].route]
    BY <1>9, <1>11, <1>13 DEF RoutesInv
  <1>16. day' = [e \in Days |-> day'[e]] BY <1>10 DEF RoutesInv
  <1>17. day' = [e \in Days |-> [stops |-> day'[e].stops, leg |-> day'[e].leg,
                                route |-> day'[e].route]]
    BY <1>15, <1>16
  <1>18. job' = [j \in Jobs |-> job'[j]] BY <1>3 DEF RoutesInv
  <1> QED BY <1>7, <1>14, <1>15, <1>17, <1>18 DEF RoutesInv

LEMMA NextRoutes == RoutesInv /\ [Next]_vars => RoutesInv'
  <1> SUFFICES ASSUME RoutesInv, [Next]_vars PROVE RoutesInv' OBVIOUS
  <1>1. ASSUME UNCHANGED <<day, job, skewed>> PROVE RoutesInv'
    BY <1>1 DEF RoutesInv
  <1>2. CASE Handle
    <2>1. ASSUME Recommend PROVE RoutesInv' BY <2>1, RecommendOk
    <2>2. ASSUME AgentEnds \/ Reply PROVE RoutesInv'
      <3>1. UNCHANGED <<day, job, skewed>> BY <2>2 DEF AgentEnds, Reply
      <3> QED BY <1>1, <3>1
    <2>3. ASSUME NEW itinerary \in Itineraries, NEW found, AgentAnswers(itinerary, found)
          PROVE  RoutesInv'
      BY <2>3, AgentAnswersOk
    <2>4. ASSUME NEW journey \in Journeys, NEW found, AskRoute(journey, found)
          PROVE  RoutesInv'
      BY <2>4, AskRouteOk
    <2>5. ASSUME NEW d \in Days, Collect(d) PROVE RoutesInv' BY <2>5, CollectOk
    <2> QED BY <1>2, <2>1, <2>2, <2>3, <2>4, <2>5 DEF Handle
  <1>3. ASSUME NEW d \in Days, StartJob(d) PROVE RoutesInv' BY <1>3, StartJobOk
  <1>4. ASSUME NEW j \in Jobs, Work(j) PROVE RoutesInv'
    <2>1. ASSUME NEW sections, FetchChunk(j, sections) PROVE RoutesInv'
      BY <2>1, FetchChunkOk
    <2>2. CASE FetchFails(j)
      <3>1. Live(job[j]) /\ EndJob(j, "failed") BY <2>2 DEF FetchFails, Live
      <3> QED BY <3>1, EndJobOk
    <2>3. CASE FetchDone(j)
      <3>1. Live(job[j]) /\ EndJob(j, "fetched") /\ job[j].start >= Len(job[j].coordinates)
        BY <2>3 DEF FetchDone, Live
      <3> QED BY <3>1, EndJobOk
    <2> QED BY <1>4, <2>1, <2>2, <2>3 DEF Work
  <1>5. CASE Deadline BY <1>5, RecommendOk
  <1>6. CASE UNCHANGED vars
    <2>1. UNCHANGED <<day, job, skewed>> BY <1>6 DEF vars
    <2> QED BY <1>1, <2>1
  <1> QED BY <1>2, <1>3, <1>4, <1>5, <1>6 DEF Next

LEMMA RoutesInvHolds == RoutesInv => LegsOfTheDay
  <1> SUFFICES ASSUME RoutesInv PROVE LegsOfTheDay OBVIOUS
  <1>1. ASSUME NEW i \in Jobs \ skewed, job[i].stage = "fetched"
        PROVE  RouteWhole(job[i].route, job[i].coordinates)
    <2>1. PICK j : j = job[i] OBVIOUS
    <2>2. JobOk(j) /\ Live(j) BY <1>1, <2>1 DEF RoutesInv, Live
    <2>3. PICK c \in Seq(Places) :
            c = j.coordinates /\ Len(c) >= 2 /\ j.route = RouteUpTo(c, Len(c))
      BY <1>1, <2>1, <2>2 DEF JobOk
    <2> QED BY <2>1, <2>3, RouteEnds
  <1>2. \A d \in Days \ skewed :
          /\ day[d].route # NoRoute => RouteWhole(day[d].route, Coordinates(day[d].stops))
          /\ DayTrue(day[d])
    BY DEF RoutesInv, Told
  <1> QED BY <1>1, <1>2 DEF LegsOfTheDay

(* For every itinerary, chunk length and pool, and in whatever order the    *)
(* threads' answers and failures come: a fetched route is whole, and the    *)
(* legs and the line of a day are those of its stops (LegsOfTheDay).        *)
THEOREM LegsAreTrue == Spec => []LegsOfTheDay
  <1>1. Init => RoutesInv BY InitRoutes
  <1>2. RoutesInv /\ [Next]_vars => RoutesInv' BY NextRoutes
  <1>3. RoutesInv => LegsOfTheDay BY RoutesInvHolds
  <1> QED BY <1>1, <1>2, <1>3, PTL DEF Spec
=============================================================================
