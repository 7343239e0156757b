---------------------------- MODULE BytesProofs ----------------------------
(***************************************************************************)
(* What Redactor.tla makes of a stream, for any finite set of secrets that *)
(* hold no mark and any pieces of any length, and what DnsWire.tla reads   *)
(* of a query, for any questions with any labels and any bytes after them. *)
(*                                                                         *)
(* Whole(t, S, i) is what a text becomes from a position on, if it comes   *)
(* whole.  A piece puts out a beginning of that and keeps the rest of the  *)
(* text for the next one (RedactSplits, RedactKeeps), so by induction on   *)
(* the pieces a stream becomes Whole of all of them (StreamedIsWhole); and *)
(* backwards from the end of a text, Whole has no secret in it             *)
(* (WholeClean).                                                           *)
(*                                                                         *)
(* A name on the wire is read label by label, by induction from its end    *)
(* back (NameOnWire), and the questions from the first on (QueryOnWire),   *)
(* each where the bytes put together have it (PartsAt).  What is read of   *)
(* the beginning of some bytes is what is read of them all                 *)
(* (ParsedExtends), so a query cut short, which would end within itself,   *)
(* is not read.                                                            *)
(***************************************************************************)
EXTENDS Redactor, DnsWire, SequenceTheorems, FiniteSetTheorems, WellFoundedInduction, TLAPS

-----------------------------------------------------------------------------
(* Numbers *)

\* A set of numbers that is not empty has a least one.
LEMMA Least ==
  ASSUME NEW P \in SUBSET Nat, P # {}
  PROVE  \E i \in P : \A j \in P : i <= j
<1>1. PICK i \in P : \A j \in P : ~(<<j, i>> \in OpToRel(<, Nat))
  BY NatLessThanWellFounded, WFMin, Zenon
<1>2. \A j \in P : ~(j < i)
  BY <1>1 DEF OpToRel
<1> QED BY <1>2

\* A bounded set of numbers that is not empty has a greatest one.
LEMMA Greatest ==
  ASSUME NEW n \in Nat, NEW P \in SUBSET (1 .. n), P # {}
  PROVE  \E i \in P : \A j \in P : j <= i
<1> DEFINE S == {m \in Nat : \A j \in P : j <= m}
<1>1. n \in S
  OBVIOUS
<1>2. PICK m \in S : \A k \in S : m <= k
  <2> HIDE DEF S
  <2>1. S \in SUBSET Nat
    BY DEF S
  <2> QED BY <1>1, <2>1, Least
<1>3. m \in P
  <2> SUFFICES ASSUME m \notin P PROVE FALSE
    OBVIOUS
  <2>1. PICK j \in P : TRUE
    OBVIOUS
  <2>2. m - 1 \in S
    BY <2>1
  <2> QED BY <1>2, <2>2
<1> QED BY <1>3

-----------------------------------------------------------------------------
(* Sequences put together *)

\* The parts of a sequence up to one, put together.
Flat(c) == CHOOSE f : f = [i \in 1 .. Len(c) |-> IF i = 1 THEN c[i] ELSE f[i - 1] \o c[i]]
Put(c, n) == IF n = 0 THEN << >> ELSE Flat(c)[n]

FlatTurn(c, f, i) == IF i = 1 THEN c[i] ELSE f[i - 1] \o c[i]

\* There is a function that FlattenSeq defines.
LEMMA FlatIs ==
  ASSUME NEW C, NEW c \in Seq(Seq(C))
  PROVE  \A i \in 1 .. Len(c) : Flat(c)[i] = FlatTurn(c, Flat(c), i)
<1> DEFINE N == Len(c)
           Upto(n, f) == DOMAIN f = 1 .. N /\ \A i \in 1 .. n : f[i] = FlatTurn(c, f, i)
           Bad == {n \in 0 .. N : ~\E f : Upto(n, f)}
<1>0. N \in Nat
  BY LenProperties
<1> HIDE DEF N
<1>1. \E f : Upto(0, f)
  <2>1. Upto(0, [i \in 1 .. N |-> 0])
    OBVIOUS
  <2> HIDE DEF Upto
  <2> QED BY <2>1
<1>2. ASSUME NEW n \in 1 .. N, NEW f, Upto(n - 1, f)
      PROVE  \E g : Upto(n, g)
  <2> DEFINE v == FlatTurn(c, f, n)
  <2> HIDE DEF v
  <2> DEFINE g == [i \in 1 .. N |-> IF i = n THEN v ELSE f[i]]
  <2>1. ASSUME NEW i \in 1 .. n
        PROVE  g[i] = FlatTurn(c, g, i)
    <3>1. i \in 1 .. N /\ (i # n => i \in 1 .. n - 1)
      BY <1>0
    <3>2. i # 1 => (i - 1 \in 1 .. N /\ i - 1 # n)
      BY <1>0
    <3>3. i # 1 => g[i - 1] = f[i - 1]
      BY <3>2
    <3>4. FlatTurn(c, g, i) = FlatTurn(c, f, i)
      <4> HIDE DEF g
      <4> QED BY <3>3 DEF FlatTurn
    <3>5. CASE i = n
      BY <3>1, <3>4, <3>5 DEF v
    <3>6. CASE i # n
      <4>1. g[i] = f[i]
        BY <3>1, <3>6
      <4>2. f[i] = FlatTurn(c, f, i)
        <5> HIDE DEF g
        <5> QED BY <1>2, <3>1, <3>6
      <4> QED BY <3>4, <4>1, <4>2
    <3> QED BY <3>5, <3>6
  <2>2. Upto(n, g)
    <3>1. DOMAIN g = 1 .. N
      OBVIOUS
    <3> HIDE DEF g
    <3> QED BY <2>1, <3>1
  <2> HIDE DEF Upto
  <2> QED BY <2>2
<1> HIDE DEF Upto
<1>3. Bad = {}
  <2> SUFFICES ASSUME Bad # {} PROVE FALSE
    OBVIOUS
  <2>1. PICK k \in Bad : \A j \in Bad : k <= j
    <3>1. Bad \in SUBSET Nat
      BY <1>0
    <3> HIDE DEF Bad
    <3> QED BY <3>1, Least
  <2>2. k \in 0 .. N /\ ~\E f : Upto(k, f)
    BY <2>1
  <2>3. k # 0
    BY <1>1, <2>2
  <2>4. k \in 1 .. N /\ k - 1 \in 0 .. N /\ k \in Nat
    BY <1>0, <2>2, <2>3
  <2>5. k - 1 \notin Bad
    <3> HIDE DEF Bad
    <3> QED BY <2>1, <2>4
  <2>6. \E f : Upto(k - 1, f)
    BY <2>4, <2>5
  <2> QED BY <1>2, <2>2, <2>4, <2>6
<1>4. PICK f : Upto(N, f)
  <2>1. N \in 0 .. N
    BY <1>0
  <2> QED BY <1>3, <2>1
<1> DEFINE h == [i \in 1 .. N |-> f[i]]
<1>5. ASSUME NEW i \in 1 .. N
      PROVE  f[i] = FlatTurn(c, h, i)
  <2>1. f[i] = FlatTurn(c, f, i)
    BY <1>4 DEF Upto
  <2>2. i # 1 => h[i - 1] = f[i - 1]
    <3>1. i # 1 => i - 1 \in 1 .. N
      BY <1>0
    <3> QED BY <3>1
  <2> HIDE DEF h
  <2> QED BY <2>1, <2>2 DEF FlatTurn
<1>6. h = [i \in 1 .. N |-> FlatTurn(c, h, i)]
  BY <1>5
<1>7. Flat(c) = CHOOSE e : e = [i \in 1 .. N |-> FlatTurn(c, e, i)]
  BY DEF Flat, FlatTurn, N
<1>8. Flat(c) = [i \in 1 .. N |-> FlatTurn(c, Flat(c), i)]
  <2> HIDE DEF h
  <2> QED BY <1>6, <1>7
<1>9. ASSUME NEW i \in 1 .. N
      PROVE  Flat(c)[i] = FlatTurn(c, Flat(c), i)
  BY <1>8
<1> QED BY <1>9 DEF N

\* What is put together grows by a part.
LEMMA PartsGrow ==
  ASSUME NEW C, NEW c \in Seq(Seq(C))
  PROVE  /\ Put(c, 0) = << >>
         /\ \A n \in 0 .. Len(c) : Put(c, n) \in Seq(C)
         /\ \A n \in 1 .. Len(c) : Put(c, n) = Put(c, n - 1) \o c[n]
<1>0. Len(c) \in Nat /\ \A n \in 1 .. Len(c) : c[n] \in Seq(C)
  BY LenProperties, ElementOfSeq
<1>1. Put(c, 0) = << >> /\ << >> \in Seq(C)
  BY EmptySeq DEF Put
<1>2. ASSUME NEW n \in 1 .. Len(c)
      PROVE  Put(c, n) = Put(c, n - 1) \o c[n]
  <2>1. Flat(c)[n] = FlatTurn(c, Flat(c), n) /\ n # 0
    BY <1>0, FlatIs
  <2>2. CASE n = 1
    <3> DEFINE x0 == c[1]
    <3>1. Put(c, 1) = x0 /\ Put(c, 1 - 1) = << >>
      BY <2>1, <2>2 DEF Put, FlatTurn
    <3>2. x0 \in Seq(C)
      BY <1>0, <2>2
    <3> HIDE DEF x0
    <3>3. x0 = << >> \o x0
      BY <3>2, ConcatEmptySeq
    <3>4. Put(c, 1) = Put(c, 1 - 1) \o x0
      BY <3>1, <3>3
    <3> QED BY <2>2, <3>4 DEF x0
  <2>3. CASE n # 1
    <3>1. n - 1 # 0
      BY <1>0, <2>3
    <3> QED BY <2>1, <2>3, <3>1 DEF Put, FlatTurn
  <2> QED BY <2>2, <2>3
<1> DEFINE Bad == {n \in 0 .. Len(c) : Put(c, n) \notin Seq(C)}
<1>3. Bad = {}
  <2> SUFFICES ASSUME Bad # {} PROVE FALSE
    OBVIOUS
  <2>1. PICK k \in Bad : \A j \in Bad : k <= j
    <3>1. Bad \in SUBSET Nat
      BY <1>0
    <3> HIDE DEF Bad
    <3> QED BY <3>1, Least
  <2>2. k \in 0 .. Len(c) /\ Put(c, k) \notin Seq(C)
    BY <2>1
  <2>3. k # 0
    BY <1>1, <2>2
  <2>4. k \in 1 .. Len(c) /\ k - 1 \in 0 .. Len(c) /\ k \in Nat
    BY <1>0, <2>2, <2>3
  <2>5. k - 1 \notin Bad
    <3> HIDE DEF Bad
    <3> QED BY <2>1, <2>4
  <2>6. Put(c, k - 1) \in Seq(C) /\ c[k] \in Seq(C)
    BY <1>0, <2>4, <2>5
  <2>7. Put(c, k) = Put(c, k - 1) \o c[k]
    BY <1>2, <2>4
  <2> DEFINE x0 == Put(c, k - 1)
             y == c[k]
  <2> HIDE DEF x0, y
  <2>8. x0 \o y \in Seq(C)
    BY <2>6, ConcatProperties DEF x0, y
  <2> QED BY <2>2, <2>7, <2>8 DEF x0, y
<1> QED BY <1>1, <1>2, <1>3

\* FlattenSeq is all of them.
LEMMA PartsFlatten ==
  ASSUME NEW C, NEW c \in Seq(Seq(C))
  PROVE  FlattenSeq(c) = Put(c, Len(c))
<1>0. Len(c) \in Nat
  BY LenProperties
<1>1. CASE Len(c) = 0
  <2>1. c = << >>
    BY <1>1, EmptySeq
  <2>2. FlattenSeq(c) = c
    BY <1>1 DEF FlattenSeq
  <2> QED BY <1>1, <2>1, <2>2 DEF Put
<1>2. CASE Len(c) # 0
  BY <1>2 DEF FlattenSeq, Put, Flat
<1> QED BY <1>1, <1>2

-----------------------------------------------------------------------------
(* Parts of a text, and the loop over it *)

\* JSON's own characters.
LEMMA JsonCharacters == {"quote", "\\", "newline", "n"} \subseteq Characters
BY CharactersAssumption

\* A text and secrets that are not empty.
GivenText(t, S) == t \in Seq(Characters) /\ S \subseteq Secrets /\ Accepted(S)

\* Where the next match is, and one turn of the loop.
NextAt(t, i, S) == Min(Begins(t, i, S))
After(t, i, S) == NextAt(t, i, S) + Len(LongestAt(t, NextAt(t, i, S), S).value)

Turn(t, S, f, i) ==
  LET next == Begins(t, i, S)
      j == Min(next)
      s == LongestAt(t, j, S)
      rest == f[j + Len(s.value)]
  IN  IF next = {} THEN [out |-> << >>, pos |-> i]
      ELSE [out |-> SubSeq(t, i, j - 1) \o <<s.name>> \o rest.out, pos |-> rest.pos]

Loop(t, S) == CHOOSE f : f = [i \in Nat |-> Turn(t, S, f, i)]

\* A secret is a name and a text that is not empty.
LEMMA SecretTyped ==
  ASSUME NEW t, NEW S, GivenText(t, S), NEW s \in S
  PROVE  s.name \in Characters /\ s.value \in Seq(Characters) /\ Len(s.value) \in Nat /\ Len(s.value) >= 1
<1>1. s \in [name : Characters, value : Seq(Characters)]
  BY DEF GivenText, Secrets
<1>2. s.name \in Characters /\ s.value \in Seq(Characters)
  BY <1>1
<1>3. s.value # << >>
  BY DEF GivenText, Accepted
<1> DEFINE v == s.value
<1> HIDE DEF v
<1>4. v \in Seq(Characters) /\ v # << >>
  BY <1>2, <1>3 DEF v
<1>5. Len(v) \in Nat \ {0}
  BY <1>4, EmptySeq
<1> QED BY <1>2, <1>5 DEF v

\* The next match is the first, and there is a longest one.
LEMMA NextFound ==
  ASSUME NEW t, NEW S, GivenText(t, S), NEW i \in Nat, Begins(t, i, S) # {}
  PROVE  /\ NextAt(t, i, S) \in i .. Len(t)
         /\ \A k \in i .. NextAt(t, i, S) - 1 : At(t, k, S) = {}
         /\ LongestAt(t, NextAt(t, i, S), S) \in At(t, NextAt(t, i, S), S)
         /\ LongestAt(t, NextAt(t, i, S), S) \in S
         /\ Len(LongestAt(t, NextAt(t, i, S), S).value) \in Nat \ {0}
         /\ After(t, i, S) \in NextAt(t, i, S) + 1 .. Len(t) + 1
<1> DEFINE B == Begins(t, i, S)
           j == NextAt(t, i, S)
<1>0. Len(t) \in Nat
  BY LenProperties DEF GivenText
<1>1. B = {k \in i .. Len(t) : At(t, k, S) # {}}
  BY DEF Begins
<1>2. j \in B /\ \A k \in B : j <= k
  <2>1. B \in SUBSET Nat /\ B # {}
    BY <1>0, <1>1
  <2>2. \E k \in B : \A l \in B : k <= l
    <3> HIDE DEF B
    <3> QED BY <2>1, Least
  <2>3. j = CHOOSE k \in B : \A l \in B : k <= l
    BY DEF NextAt, Min
  <2> HIDE DEF B, j
  <2> QED BY <2>2, <2>3
<1>3. j \in i .. Len(t) /\ At(t, j, S) # {}
  <2> HIDE DEF j
  <2> QED BY <1>1, <1>2
<1>4. \A k \in i .. j - 1 : At(t, k, S) = {}
  <2> HIDE DEF j
  <2> QED BY <1>0, <1>1, <1>2, <1>3
<1> DEFINE A == At(t, j, S)
           l == LongestAt(t, j, S)
<1>5. l \in A
  <2> HIDE DEF j
  <2>1. A = {s \in S : j + Len(s.value) - 1 <= Len(t) /\ SubSeq(t, j, j + Len(s.value) - 1) = s.value}
    BY DEF At
  <2> DEFINE L == {Len(s.value) : s \in A}
  <2>2. \A s \in A : s \in S /\ Len(s.value) \in 1 .. Len(t) + 1
    BY <1>0, <1>3, <2>1, SecretTyped
  <2> HIDE DEF A
  <2>3. L \in SUBSET (1 .. Len(t) + 1) /\ L # {}
    BY <1>3, <2>2 DEF A
  <2>4. PICK n \in L : \A m \in L : m <= n
    <3> HIDE DEF L
    <3>1. Len(t) + 1 \in Nat
      BY <1>0
    <3> QED BY <2>3, <3>1, Greatest
  <2>5. PICK s \in A : Len(s.value) = n
    BY <2>4
  <2>6. \A o \in A : Len(o.value) <= Len(s.value)
    BY <2>4, <2>5
  <2>7. l = CHOOSE r \in A : \A o \in A : Len(o.value) <= Len(r.value)
    BY DEF LongestAt, A
  <2> HIDE DEF l
  <2> QED BY <2>6, <2>7
<1>6. l \in S /\ j + Len(l.value) - 1 <= Len(t)
  BY <1>5 DEF At
<1>7. Len(l.value) \in Nat /\ Len(l.value) >= 1
  BY <1>6, SecretTyped
<1>8. After(t, i, S) = j + Len(l.value)
  BY DEF After
<1>9. j + Len(l.value) \in j + 1 .. Len(t) + 1
  <2> DEFINE n == Len(l.value)
  <2> HIDE DEF j, n
  <2>1. n \in Nat /\ n >= 1 /\ j + n - 1 <= Len(t)
    BY <1>6, <1>7 DEF n
  <2>2. j + n \in j + 1 .. Len(t) + 1
    BY <1>0, <1>3, <2>1
  <2> QED BY <2>2 DEF n
<1>10. Len(l.value) \in Nat \ {0}
  <2> HIDE DEF l
  <2> QED BY <1>7
<1> HIDE DEF A, l, j
<1> QED BY <1>3, <1>4, <1>5, <1>6, <1>8, <1>9, <1>10 DEF A, l, j

\* A turn looks at later positions alone.
LEMMA TurnLater ==
  ASSUME NEW t, NEW S, GivenText(t, S), NEW i \in Nat, NEW f, NEW g,
         \A k \in Nat : k > i => f[k] = g[k]
  PROVE  Turn(t, S, f, i) = Turn(t, S, g, i)
<1>1. CASE Begins(t, i, S) = {}
  BY <1>1 DEF Turn
<1>2. CASE Begins(t, i, S) # {}
  <2>1. After(t, i, S) \in Nat /\ After(t, i, S) > i
    <3> DEFINE j == NextAt(t, i, S)
               n == After(t, i, S)
    <3>1. j \in i .. Len(t) /\ n \in j + 1 .. Len(t) + 1 /\ Len(t) \in Nat
      BY <1>2, NextFound, LenProperties DEF GivenText
    <3> HIDE DEF j, n
    <3> QED BY <3>1 DEF n
  <2>2. f[After(t, i, S)] = g[After(t, i, S)]
    BY <2>1
  <2> QED BY <1>2, <2>2 DEF Turn, After, NextAt
<1> QED BY <1>1, <1>2

\* From some position on, a function is as the loop has it.
Solves(t, S, n, f) == DOMAIN f = Nat /\ \A i \in Nat : i >= n => f[i] = Turn(t, S, f, i)

\* There is a function that the loop defines.
LEMMA LoopIs ==
  ASSUME NEW t, NEW S, GivenText(t, S)
  PROVE  /\ replaced(t, S) = Loop(t, S)[1]
         /\ \A i \in Nat : Loop(t, S)[i] = Turn(t, S, Loop(t, S), i)
<1>0. Len(t) \in Nat
  BY LenProperties DEF GivenText
<1> DEFINE Bad == {n \in 1 .. Len(t) + 1 : ~\E f : Solves(t, S, n - 1, f)}
<1>1. \E f : Solves(t, S, Len(t) + 1, f)
  <2> DEFINE f == [i \in Nat |-> [out |-> << >>, pos |-> i]]
  <2>1. ASSUME NEW i \in Nat, i >= Len(t) + 1
        PROVE  f[i] = Turn(t, S, f, i)
    <3>1. i .. Len(t) = {}
      BY <1>0, <2>1
    <3>2. Begins(t, i, S) = {}
      BY <3>1 DEF Begins
    <3> QED BY <3>2 DEF Turn
  <2> QED BY <2>1 DEF Solves
<1>2. ASSUME NEW n \in Nat, NEW f, Solves(t, S, n + 1, f)
      PROVE  \E g : Solves(t, S, n, g)
  <2> DEFINE g == [i \in Nat |-> IF i = n THEN Turn(t, S, f, n) ELSE f[i]]
  <2>1. \A i \in Nat : i > n => f[i] = g[i]
    OBVIOUS
  <2>2. ASSUME NEW i \in Nat, i >= n
        PROVE  g[i] = Turn(t, S, g, i)
    <3>1. \A k \in Nat : k > i => f[k] = g[k]
      BY <2>1, <2>2
    <3>2. Turn(t, S, f, i) = Turn(t, S, g, i)
      <4> HIDE DEF g
      <4> QED BY <3>1, TurnLater
    <3>3. g[i] = Turn(t, S, f, i)
      BY <1>2, <2>2 DEF Solves
    <3> QED BY <3>2, <3>3
  <2>3. DOMAIN g = Nat
    OBVIOUS
  <2> HIDE DEF g
  <2> QED BY <2>2, <2>3 DEF Solves
<1>3. \E f : Solves(t, S, 0, f)
  <2> SUFFICES ASSUME ~\E f : Solves(t, S, 0, f) PROVE FALSE
    OBVIOUS
  <2>1. 1 \in Bad
    BY <1>0
  <2>2. PICK n \in Bad : \A m \in Bad : m <= n
    <3>1. Bad \in SUBSET (1 .. Len(t) + 1) /\ Len(t) + 1 \in Nat
      BY <1>0
    <3> HIDE DEF Bad
    <3> QED BY <2>1, <3>1, Greatest
  <2>3. n \in 1 .. Len(t) + 1 /\ n + 1 \notin Bad /\ ~\E f : Solves(t, S, n - 1, f)
    <3>1. n \in 1 .. Len(t) + 1 /\ ~\E f : Solves(t, S, n - 1, f)
      BY <2>2
    <3>2. n \in Nat
      BY <1>0, <3>1
    <3>3. n + 1 \notin Bad
      <4> HIDE DEF Bad
      <4> QED BY <2>2, <3>2
    <3> QED BY <3>1, <3>3
  <2>4. \E f : Solves(t, S, n, f)
    <3>1. CASE n = Len(t) + 1
      BY <1>1, <3>1
    <3>2. CASE n # Len(t) + 1
      <4>1. n + 1 \in 1 .. Len(t) + 1 /\ (n + 1) - 1 = n
        BY <1>0, <2>3, <3>2
      <4> QED BY <2>3, <4>1
    <3> QED BY <3>1, <3>2
  <2>5. n - 1 \in Nat /\ (n - 1) + 1 = n
    BY <1>0, <2>3
  <2> QED BY <1>2, <2>3, <2>4, <2>5
<1>4. PICK f : Solves(t, S, 0, f)
  BY <1>3
<1> DEFINE h == [i \in Nat |-> f[i]]
<1>5. h = [i \in Nat |-> Turn(t, S, h, i)]
  <2>1. ASSUME NEW i \in Nat
        PROVE  f[i] = Turn(t, S, h, i)
    <3>1. f[i] = Turn(t, S, f, i)
      BY <1>4 DEF Solves
    <3>2. \A k \in Nat : k > i => f[k] = h[k]
      OBVIOUS
    <3> HIDE DEF h
    <3>3. Turn(t, S, f, i) = Turn(t, S, h, i)
      BY <3>2, TurnLater
    <3> QED BY <3>1, <3>3
  <2> QED BY <2>1
<1>6. Loop(t, S) = [i \in Nat |-> Turn(t, S, Loop(t, S), i)]
  <2> HIDE DEF h
  <2> QED BY <1>5 DEF Loop
<1>7. replaced(t, S) = Loop(t, S)[1]
  BY DEF replaced, Loop, Turn
<1>8. ASSUME NEW i \in Nat
      PROVE  Loop(t, S)[i] = Turn(t, S, Loop(t, S), i)
  BY <1>6
<1> QED BY <1>7, <1>8

-----------------------------------------------------------------------------
\* The whole of a text from a position on, with what the loop leaves as it is.
Whole(t, S, i) == Loop(t, S)[i].out \o SubSeq(t, Loop(t, S)[i].pos, Len(t))

\* Parts of a text, and two of them put together.
LEMMA Slices ==
  ASSUME NEW C, NEW t \in Seq(C), NEW a \in 1 .. Len(t) + 1, NEW b \in a - 1 .. Len(t)
  PROVE  /\ SubSeq(t, a, b) \in Seq(C) /\ Len(SubSeq(t, a, b)) = b - a + 1
         /\ \A i \in 1 .. b - a + 1 : SubSeq(t, a, b)[i] = t[a + i - 1]
         /\ SubSeq(t, a, b) \o SubSeq(t, b + 1, Len(t)) = SubSeq(t, a, Len(t))
<1>0. Len(t) \in Nat /\ a \in Int /\ b \in Int /\ \A i \in 1 .. Len(t) : t[i] \in C
  BY LenProperties, ElementOfSeq
<1>1. \A i \in a .. b : t[i] \in C
  BY <1>0
<1>2. /\ SubSeq(t, a, b) \in Seq(C) /\ Len(SubSeq(t, a, b)) = IF a <= b THEN b - a + 1 ELSE 0
      /\ \A i \in 1 .. b - a + 1 : SubSeq(t, a, b)[i] = t[a + i - 1]
  BY <1>0, <1>1, SubSeqProperties
<1>3. SubSeq(t, a, b) \o SubSeq(t, b + 1, Len(t)) = SubSeq(t, a, Len(t))
  <2>1. Len(t) \in b .. Len(t)
    BY <1>0
  <2> QED BY <2>1, ConcatAdjacentSubSeq
<1>4. (IF a <= b THEN b - a + 1 ELSE 0) = b - a + 1
  BY <1>0
<1> QED BY <1>2, <1>3, <1>4

\* A part of a part.
LEMMA SliceOfSlice ==
  ASSUME NEW C, NEW t \in Seq(C), NEW q \in 1 .. Len(t) + 1, NEW m \in q - 1 .. Len(t),
         NEW a \in 1 .. m - q + 2, NEW b \in a - 1 .. m - q + 1
  PROVE  SubSeq(SubSeq(t, q, m), a, b) = SubSeq(t, q + a - 1, q + b - 1)
<1> DEFINE u == SubSeq(t, q, m)
<1>0. Len(t) \in Nat
  BY LenProperties
<1>1. u \in Seq(C) /\ Len(u) = m - q + 1 /\ \A i \in 1 .. m - q + 1 : u[i] = t[q + i - 1]
  BY Slices
<1>2. q + a - 1 \in 1 .. Len(t) + 1 /\ q + b - 1 \in (q + a - 1) - 1 .. Len(t) /\ (q + b - 1) - (q + a - 1) + 1 = b - a + 1
  BY <1>0
<1> DEFINE c == q + a - 1
           d == q + b - 1
<1>3. c \in 1 .. Len(t) + 1 /\ d \in c - 1 .. Len(t) /\ d - c + 1 = b - a + 1 /\ c \in Int /\ d \in Int
  BY <1>0, <1>2
<1>4. \A i \in 1 .. b - a + 1 : c + i - 1 = q + (a + i - 1) - 1 /\ a + i - 1 \in 1 .. m - q + 1
  BY <1>0
<1> HIDE DEF c, d, u
<1>5. SubSeq(t, c, d) \in Seq(C) /\ Len(SubSeq(t, c, d)) = b - a + 1
      /\ \A i \in 1 .. b - a + 1 : SubSeq(t, c, d)[i] = t[c + i - 1]
  BY <1>3, Slices
<1>6. a \in 1 .. Len(u) + 1 /\ b \in a - 1 .. Len(u)
  BY <1>0, <1>1
<1>7. SubSeq(u, a, b) \in Seq(C) /\ Len(SubSeq(u, a, b)) = b - a + 1
      /\ \A i \in 1 .. b - a + 1 : SubSeq(u, a, b)[i] = u[a + i - 1]
  BY <1>1, <1>6, Slices
<1>8. \A i \in 1 .. b - a + 1 : SubSeq(u, a, b)[i] = SubSeq(t, c, d)[i]
  BY <1>1, <1>4, <1>5, <1>7
<1>9. SubSeq(u, a, b) = SubSeq(t, c, d)
  BY <1>5, <1>7, <1>8, SeqEqual
<1> QED BY <1>9 DEF u, c, d

\* What a turn of the loop makes, when there is no match, and when there is one.
LEMMA LoopNone ==
  ASSUME NEW t, NEW S, GivenText(t, S), NEW i \in Nat, Begins(t, i, S) = {}
  PROVE  Loop(t, S)[i] = [out |-> << >>, pos |-> i]
<1>1. Loop(t, S)[i] = Turn(t, S, Loop(t, S), i)
  BY LoopIs
<1> QED BY <1>1 DEF Turn

\* Of a turn that finds a match: what is before it, the secret's name, and the rest.
LEMMA LoopNext ==
  ASSUME NEW t, NEW S, GivenText(t, S), NEW i \in Nat, Begins(t, i, S) # {}
  PROVE  Loop(t, S)[i] = [out |-> SubSeq(t, i, NextAt(t, i, S) - 1)
                                    \o <<LongestAt(t, NextAt(t, i, S), S).name>> \o Loop(t, S)[After(t, i, S)].out,
                          pos |-> Loop(t, S)[After(t, i, S)].pos]
<1>1. Loop(t, S)[i] = Turn(t, S, Loop(t, S), i)
  BY LoopIs
<1> QED BY <1>1 DEF Turn, NextAt, After

\* What the loop puts out is a text, and after the last match there is none.
Settled(t, S, i) ==
  /\ Loop(t, S)[i].out \in Seq(Characters)
  /\ Loop(t, S)[i].pos \in i .. Len(t) + 1
  /\ Begins(t, Loop(t, S)[i].pos, S) = {}

\* The loop settles wherever it starts.
LEMMA LoopSettles ==
  ASSUME NEW t, NEW S, GivenText(t, S)
  PROVE  \A i \in 1 .. Len(t) + 1 : Settled(t, S, i)
<1>0. Len(t) \in Nat /\ t \in Seq(Characters)
  BY LenProperties DEF GivenText
<1> DEFINE Bad == {i \in 1 .. Len(t) + 1 : ~Settled(t, S, i)}
<1> SUFFICES ASSUME Bad # {} PROVE FALSE
  OBVIOUS
<1>1. PICK i \in Bad : \A k \in Bad : k <= i
  <2>1. Bad \in SUBSET (1 .. Len(t) + 1) /\ Len(t) + 1 \in Nat
    BY <1>0
  <2> HIDE DEF Bad
  <2> QED BY <2>1, Greatest
<1>2. i \in 1 .. Len(t) + 1 /\ ~Settled(t, S, i) /\ i \in Nat
  BY <1>0, <1>1
<1>3. \A k \in i + 1 .. Len(t) + 1 : Settled(t, S, k)
  <2> SUFFICES ASSUME NEW k \in i + 1 .. Len(t) + 1, ~Settled(t, S, k) PROVE FALSE
    OBVIOUS
  <2>1. k \in Bad /\ k \in Nat /\ k > i
    BY <1>0, <1>2
  <2> HIDE DEF Bad
  <2> QED BY <1>1, <1>2, <2>1
<1>4. CASE Begins(t, i, S) = {}
  <2>1. Loop(t, S)[i] = [out |-> << >>, pos |-> i]
    BY <1>2, <1>4, LoopNone
  <2>2. << >> \in Seq(Characters)
    BY EmptySeq
  <2> QED BY <1>0, <1>2, <1>4, <2>1, <2>2 DEF Settled
<1>5. CASE Begins(t, i, S) # {}
  <2> DEFINE j == NextAt(t, i, S)
             n == After(t, i, S)
             l == LongestAt(t, j, S)
  <2>1. j \in i .. Len(t) /\ n \in j + 1 .. Len(t) + 1 /\ l \in S
    BY <1>2, <1>5, NextFound
  <2>2. Loop(t, S)[i] = [out |-> SubSeq(t, i, j - 1) \o <<l.name>> \o Loop(t, S)[n].out, pos |-> Loop(t, S)[n].pos]
    BY <1>2, <1>5, LoopNext
  <2>3. l.name \in Characters
    BY <2>1, SecretTyped
  <2> HIDE DEF j, n, l
  <2>4. Settled(t, S, n) /\ n \in Nat /\ n > i
    BY <1>0, <1>2, <1>3, <2>1
  <2>5. SubSeq(t, i, j - 1) \in Seq(Characters)
    <3>1. i \in 1 .. Len(t) + 1 /\ j - 1 \in i - 1 .. Len(t)
      BY <1>0, <1>2, <2>1
    <3> QED BY <1>0, <3>1, Slices
  <2>6. <<l.name>> \in Seq(Characters)
    BY <2>3
  <2>7. (SubSeq(t, i, j - 1) \o <<l.name>>) \o Loop(t, S)[n].out \in Seq(Characters)
    BY <2>4, <2>5, <2>6, ConcatProperties DEF Settled
  <2>8. Loop(t, S)[i].out \in Seq(Characters) /\ Loop(t, S)[i].pos = Loop(t, S)[n].pos
    BY <2>2, <2>7
  <2>9. Loop(t, S)[n].pos \in n .. Len(t) + 1 /\ Begins(t, Loop(t, S)[n].pos, S) = {}
    BY <2>4 DEF Settled
  <2> DEFINE p == Loop(t, S)[n].pos
  <2> HIDE DEF p
  <2>10. p \in i .. Len(t) + 1
    <3>1. p \in n .. Len(t) + 1
      BY <2>9 DEF p
    <3> QED BY <1>0, <1>2, <2>4, <3>1
  <2> QED BY <1>2, <2>8, <2>9, <2>10 DEF Settled, p
<1> QED BY <1>2, <1>4, <1>5

\* Three texts one after the other.
LEMMA Joined ==
  ASSUME NEW C, NEW a \in Seq(C), NEW b \in Seq(C), NEW c \in Seq(C)
  PROVE  (a \o b) \o c = a \o (b \o c) /\ a \o b \in Seq(C) /\ b \o c \in Seq(C)
BY ConcatAssociative, ConcatProperties, SMTT(60)

\* From a position with no match on, the whole is the text; from one before a match, what
\* is before it, its name and the rest; and what has no match is left as it is.
LEMMA WholeNone ==
  ASSUME NEW t, NEW S, GivenText(t, S), NEW i \in 1 .. Len(t) + 1, Begins(t, i, S) = {}
  PROVE  Whole(t, S, i) = SubSeq(t, i, Len(t))
<1>0. Len(t) \in Nat /\ t \in Seq(Characters)
  BY LenProperties DEF GivenText
<1>1. i \in Nat
  BY <1>0
<1>2. Loop(t, S)[i] = [out |-> << >>, pos |-> i]
  BY <1>1, LoopNone
<1>3. SubSeq(t, i, Len(t)) \in Seq(Characters)
  <2>1. Len(t) \in i - 1 .. Len(t)
    BY <1>0
  <2> QED BY <1>0, <2>1, Slices
<1> DEFINE v == SubSeq(t, i, Len(t))
<1>4. Whole(t, S, i) = << >> \o v
  BY <1>2 DEF Whole
<1>5. << >> \o v = v
  <2> HIDE DEF v
  <2> QED BY <1>3, ConcatEmptySeq DEF v
<1> QED BY <1>4, <1>5

\* The whole is a text.
LEMMA WholeTyped ==
  ASSUME NEW t, NEW S, GivenText(t, S), NEW i \in 1 .. Len(t) + 1
  PROVE  /\ Whole(t, S, i) \in Seq(Characters)
         /\ SubSeq(t, Loop(t, S)[i].pos, Len(t)) \in Seq(Characters)
<1>0. Len(t) \in Nat /\ t \in Seq(Characters)
  BY LenProperties DEF GivenText
<1>1. Settled(t, S, i)
  BY LoopSettles
<1> DEFINE p == Loop(t, S)[i].pos
           o == Loop(t, S)[i].out
<1>2. p \in i .. Len(t) + 1 /\ o \in Seq(Characters)
  BY <1>1 DEF Settled
<1> HIDE DEF p, o
<1>3. p \in 1 .. Len(t) + 1 /\ Len(t) \in p - 1 .. Len(t)
  BY <1>0, <1>2
<1>4. SubSeq(t, p, Len(t)) \in Seq(Characters)
  BY <1>0, <1>3, Slices
<1>5. o \o SubSeq(t, p, Len(t)) \in Seq(Characters)
  BY <1>2, <1>4, ConcatProperties
<1> QED BY <1>4, <1>5 DEF Whole, p, o

\* Before a match: what lies before it, the secret's name, and the whole after it.
LEMMA WholeNext ==
  ASSUME NEW t, NEW S, GivenText(t, S), NEW i \in 1 .. Len(t) + 1, Begins(t, i, S) # {}
  PROVE  /\ After(t, i, S) \in i + 1 .. Len(t) + 1 /\ NextAt(t, i, S) \in i .. Len(t)
         /\ SubSeq(t, i, NextAt(t, i, S) - 1) \in Seq(Characters)
         /\ Len(SubSeq(t, i, NextAt(t, i, S) - 1)) = NextAt(t, i, S) - i
         /\ LongestAt(t, NextAt(t, i, S), S).name \in Characters
         /\ Whole(t, S, i) = (SubSeq(t, i, NextAt(t, i, S) - 1) \o <<LongestAt(t, NextAt(t, i, S), S).name>>)
                               \o Whole(t, S, After(t, i, S))
<1>0. Len(t) \in Nat /\ t \in Seq(Characters)
  BY LenProperties DEF GivenText
<1>1. i \in Nat
  BY <1>0
<1> DEFINE j == NextAt(t, i, S)
           n == After(t, i, S)
           l == LongestAt(t, j, S)
           f == Loop(t, S)
<1>2. j \in i .. Len(t) /\ n \in j + 1 .. Len(t) + 1 /\ l \in S
  BY <1>1, NextFound
<1>3. f[i] = [out |-> SubSeq(t, i, j - 1) \o <<l.name>> \o f[n].out, pos |-> f[n].pos]
  BY <1>1, LoopNext
<1>4. l.name \in Characters
  BY <1>2, SecretTyped
<1> HIDE DEF j, n, l
<1>5. n \in i + 1 .. Len(t) + 1 /\ n \in 1 .. Len(t) + 1
  BY <1>0, <1>1, <1>2
<1>6. f[n].out \in Seq(Characters) /\ SubSeq(t, f[n].pos, Len(t)) \in Seq(Characters)
  BY <1>5, LoopSettles, WholeTyped DEF Settled
<1>7. SubSeq(t, i, j - 1) \in Seq(Characters) /\ Len(SubSeq(t, i, j - 1)) = j - i
  <2>1. j - 1 \in i - 1 .. Len(t) /\ (j - 1) - i + 1 = j - i
    BY <1>0, <1>1, <1>2
  <2> QED BY <1>0, <2>1, Slices
<1>8. <<l.name>> \in Seq(Characters)
  BY <1>4
<1> DEFINE a == SubSeq(t, i, j - 1) \o <<l.name>>
           b == f[n].out
           c == SubSeq(t, f[n].pos, Len(t))
<1>9. a \in Seq(Characters)
  BY <1>7, <1>8, ConcatProperties
<1>10. Whole(t, S, i) = (a \o b) \o c
  <2>1. f[i].out = a \o b /\ f[i].pos = f[n].pos
    <3>1. f[i] = [out |-> a \o b, pos |-> f[n].pos]
      BY <1>3
    <3> DEFINE u == a \o b
               p == f[n].pos
               g == f[i]
    <3>2. g = [out |-> u, pos |-> p]
      BY <3>1
    <3> HIDE DEF u, p, g
    <3>3. g.out = u /\ g.pos = p
      BY <3>2
    <3> QED BY <3>3 DEF u, p, g
  <2> HIDE DEF a, b
  <2> QED BY <2>1 DEF Whole
<1>11. Whole(t, S, n) = b \o c
  BY DEF Whole
<1>12. (a \o b) \o c = a \o (b \o c)
  <2>1. a \in Seq(Characters) /\ b \in Seq(Characters) /\ c \in Seq(Characters)
    BY <1>6, <1>9
  <2> HIDE DEF a, b, c
  <2> QED BY <2>1, Joined, SMTT(60)
<1>13. Whole(t, S, i) = a \o Whole(t, S, n)
  BY <1>10, <1>11, <1>12, Zenon
<1> QED BY <1>2, <1>4, <1>5, <1>7, <1>13 DEF j, n, l

\* What has no match is left as it is.
LEMMA WholeSkip ==
  ASSUME NEW t, NEW S, GivenText(t, S), NEW i \in 1 .. Len(t) + 1, NEW k \in i .. Len(t) + 1,
         \A p \in i .. k - 1 : At(t, p, S) = {}
  PROVE  Whole(t, S, i) = SubSeq(t, i, k - 1) \o Whole(t, S, k)
<1>0. Len(t) \in Nat /\ t \in Seq(Characters)
  BY LenProperties DEF GivenText
<1>1. i \in Nat /\ k \in Nat /\ k \in 1 .. Len(t) + 1 /\ k - 1 \in i - 1 .. Len(t)
  BY <1>0
<1>2. Begins(t, i, S) = Begins(t, k, S)
  <2>1. ASSUME NEW p \in i .. Len(t), At(t, p, S) # {}
        PROVE  p \in k .. Len(t)
    <3>1. p \notin i .. k - 1
      BY <2>1
    <3> QED BY <1>0, <1>1, <3>1
  <2>2. ASSUME NEW p \in k .. Len(t)
        PROVE  p \in i .. Len(t)
    BY <1>0, <1>1
  <2> QED BY <2>1, <2>2 DEF Begins
<1> DEFINE a == SubSeq(t, i, k - 1)
<1>3. a \in Seq(Characters) /\ a \o SubSeq(t, (k - 1) + 1, Len(t)) = SubSeq(t, i, Len(t))
  BY <1>0, <1>1, Slices
<1>4. (k - 1) + 1 = k
  BY <1>1
<1>5. CASE Begins(t, i, S) = {}
  <2>1. Whole(t, S, i) = SubSeq(t, i, Len(t)) /\ Whole(t, S, k) = SubSeq(t, k, Len(t))
    BY <1>1, <1>2, <1>5, WholeNone
  <2> QED BY <1>3, <1>4, <2>1
<1>6. CASE Begins(t, i, S) # {}
  <2> DEFINE j == NextAt(t, i, S)
             n == After(t, i, S)
             w == <<LongestAt(t, j, S).name>>
             b == SubSeq(t, k, j - 1)
             W == Whole(t, S, n)
  <2>1. NextAt(t, k, S) = j /\ After(t, k, S) = n
    BY <1>2 DEF NextAt, After
  <2>2. /\ Whole(t, S, i) = (SubSeq(t, i, j - 1) \o w) \o W
        /\ n \in i + 1 .. Len(t) + 1 /\ w \in Seq(Characters)
    <3>1. /\ Whole(t, S, i) = (SubSeq(t, i, j - 1) \o w) \o W
          /\ n \in i + 1 .. Len(t) + 1 /\ LongestAt(t, j, S).name \in Characters
      BY <1>6, WholeNext
    <3> QED BY <3>1
  <2>3. /\ Whole(t, S, k) = (b \o w) \o W
        /\ j \in k .. Len(t) /\ b \in Seq(Characters)
    BY <1>1, <1>2, <1>6, <2>1, WholeNext
  <2>4. W \in Seq(Characters)
    <3>1. n \in 1 .. Len(t) + 1
      <4> HIDE DEF n
      <4> QED BY <1>0, <1>1, <2>2
    <3> QED BY <3>1, WholeTyped
  <2>5. SubSeq(t, i, j - 1) = a \o b
    <3> HIDE DEF j
    <3>1. i \in 1 .. Len(t) + 1 /\ k - 1 \in i - 1 .. Len(t) /\ j - 1 \in k - 1 .. Len(t)
      BY <1>0, <1>1, <2>3
    <3>2. SubSeq(t, i, k - 1) \o SubSeq(t, (k - 1) + 1, j - 1) = SubSeq(t, i, j - 1)
      BY <1>0, <3>1, ConcatAdjacentSubSeq
    <3> QED BY <1>4, <3>2
  <2>6. ((a \o b) \o w) \o W = a \o ((b \o w) \o W)
    <3>1. a \in Seq(Characters) /\ b \in Seq(Characters) /\ w \in Seq(Characters)
      BY <1>3, <2>2, <2>3
    <3> HIDE DEF a, b, w, W
    <3>2. (a \o b) \o w = a \o (b \o w)
      BY <3>1, Joined, SMTT(60)
    <3> DEFINE d == b \o w
    <3>3. d \in Seq(Characters)
      BY <3>1, Joined
    <3>4. (a \o d) \o W = a \o (d \o W)
      <4> HIDE DEF d
      <4> QED BY <2>4, <3>1, <3>3, Joined, SMTT(60)
    <3> QED BY <3>2, <3>4
  <2> QED BY <2>2, <2>3, <2>5, <2>6
<1> QED BY <1>5, <1>6

-----------------------------------------------------------------------------
(* The loop over a part of a text *)

\* No secret lies within another.
Free(S) == \A s, o \in S : s # o => ~Within(s.value, o.value)

\* Places in a text, counted from elsewhere.
LEMMA Shift ==
  ASSUME NEW q \in Int, NEW k \in Int, NEW j \in Int, NEW a \in Nat, NEW b \in Nat, k + b > j + a
  PROVE  (q + j - 1) + a <= (q + k - 1) + b
OBVIOUS

\* A secret at a position is the text there.
LEMMA Occurs ==
  ASSUME NEW t, NEW S, GivenText(t, S), NEW p \in 1 .. Len(t) + 1, NEW s
  PROVE  s \in At(t, p, S) <=>
           s \in S /\ p + Len(s.value) - 1 <= Len(t) /\ SubSeq(t, p, p + Len(s.value) - 1) = s.value
BY DEF At

\* A secret that occurs within another's occurrence lies within it.
LEMMA Nested ==
  ASSUME NEW t, NEW S, GivenText(t, S), NEW p \in 1 .. Len(t), NEW r \in p .. Len(t),
         NEW s \in At(t, p, S), NEW o \in At(t, r, S), r + Len(o.value) <= p + Len(s.value)
  PROVE  Within(s.value, o.value)
<1>0. Len(t) \in Nat /\ t \in Seq(Characters)
  BY LenProperties DEF GivenText
<1>1. /\ s \in S /\ p + Len(s.value) - 1 <= Len(t) /\ SubSeq(t, p, p + Len(s.value) - 1) = s.value
      /\ o \in S /\ r + Len(o.value) - 1 <= Len(t) /\ SubSeq(t, r, r + Len(o.value) - 1) = o.value
  BY DEF At
<1>2. Len(s.value) \in Nat /\ Len(s.value) >= 1 /\ Len(o.value) \in Nat /\ Len(o.value) >= 1
  BY <1>1, SecretTyped
<1> DEFINE v == s.value
           w == o.value
           a == Len(v)
           b == Len(w)
           i == r - p + 1
<1>3. /\ p + a - 1 <= Len(t) /\ SubSeq(t, p, p + a - 1) = v
      /\ r + b - 1 <= Len(t) /\ SubSeq(t, r, r + b - 1) = w
      /\ a \in Nat /\ a >= 1 /\ b \in Nat /\ b >= 1 /\ r + b <= p + a
  BY <1>1, <1>2
<1> HIDE DEF v, w, a, b
<1>4. /\ i \in 1 .. a - b + 1 /\ i + b - 1 \in i - 1 .. (p + a - 1) - p + 1
      /\ p \in 1 .. Len(t) + 1 /\ p + a - 1 \in p - 1 .. Len(t)
      /\ i \in 1 .. (p + a - 1) - p + 2 /\ p + i - 1 = r /\ p + (i + b - 1) - 1 = r + b - 1
  BY <1>0, <1>3
<1>5. SubSeq(SubSeq(t, p, p + a - 1), i, i + b - 1) = SubSeq(t, p + i - 1, p + (i + b - 1) - 1)
  <2> DEFINE e == p + a - 1
             d == i + b - 1
  <2>1. p \in 1 .. Len(t) + 1 /\ e \in p - 1 .. Len(t) /\ i \in 1 .. e - p + 2 /\ d \in i - 1 .. e - p + 1
    BY <1>4
  <2> HIDE DEF e, d, i
  <2>2. SubSeq(SubSeq(t, p, e), i, d) = SubSeq(t, p + i - 1, p + d - 1)
    BY <1>0, <2>1, SliceOfSlice
  <2> QED BY <2>2 DEF e, d, i
<1>6. SubSeq(v, i, i + b - 1) = w
  BY <1>3, <1>4, <1>5
<1> HIDE DEF i
<1> QED BY <1>4, <1>6 DEF Within, v, w, a, b

\* What begins at a position of a part of a text begins there in the text and ends in the part.
LEMMA AtSlice ==
  ASSUME NEW t, NEW S, GivenText(t, S), NEW q \in 1 .. Len(t) + 1, NEW m \in q - 1 .. Len(t),
         NEW k \in 1 .. m - q + 1, NEW s
  PROVE  s \in At(SubSeq(t, q, m), k, S) <=>
           s \in At(t, q + k - 1, S) /\ k + Len(s.value) - 1 <= m - q + 1
<1> DEFINE u == SubSeq(t, q, m)
<1>0. Len(t) \in Nat /\ t \in Seq(Characters)
  BY LenProperties DEF GivenText
<1>1. Len(u) = m - q + 1
  BY <1>0, Slices
<1>2. s \in At(u, k, S) <=> s \in S /\ k + Len(s.value) - 1 <= Len(u) /\ SubSeq(u, k, k + Len(s.value) - 1) = s.value
  BY DEF At
<1>3. s \in At(t, q + k - 1, S) <=>
        s \in S /\ (q + k - 1) + Len(s.value) - 1 <= Len(t) /\ SubSeq(t, q + k - 1, (q + k - 1) + Len(s.value) - 1) = s.value
  BY DEF At
<1>4. ASSUME s \in S, k + Len(s.value) - 1 <= m - q + 1
      PROVE  /\ (q + k - 1) + Len(s.value) - 1 <= Len(t)
             /\ SubSeq(u, k, k + Len(s.value) - 1) = SubSeq(t, q + k - 1, (q + k - 1) + Len(s.value) - 1)
  <2> DEFINE a == Len(s.value)
             b == k + a - 1
  <2>1. a \in Nat /\ a >= 1
    BY <1>4, SecretTyped
  <2> HIDE DEF a
  <2>0. k + a - 1 <= m - q + 1
    BY <1>4 DEF a
  <2>2. /\ k \in 1 .. m - q + 2 /\ b \in k - 1 .. m - q + 1 /\ q + b - 1 = (q + k - 1) + a - 1
        /\ (q + k - 1) + a - 1 <= Len(t)
    BY <1>0, <2>0, <2>1
  <2>3. SubSeq(u, k, b) = SubSeq(t, q + k - 1, q + b - 1)
    <3> HIDE DEF b
    <3> QED BY <1>0, <2>2, SliceOfSlice
  <2> QED BY <2>2, <2>3 DEF a
<1> HIDE DEF u
<1> QED BY <1>1, <1>2, <1>3, <1>4 DEF u

-----------------------------------------------------------------------------
\* From a position of a part of the text on, the loop over the part does what the loop over
\* the text does, up to the position where it stops.
Follows(t, S, q, m, i) ==
  Whole(t, S, q + i - 1) =
    Loop(SubSeq(t, q, m), S)[i].out \o Whole(t, S, q + Loop(SubSeq(t, q, m), S)[i].pos - 1)

\* The match that the loop over a part finds is the one that the loop over the text finds.
LEMMA SameMatch ==
  ASSUME NEW t, NEW S, GivenText(t, S), Free(S), NEW q \in 1 .. Len(t) + 1, NEW m \in q - 1 .. Len(t),
         NEW i \in 1 .. m - q + 2, Begins(SubSeq(t, q, m), i, S) # {},
         NEW j, j = NextAt(SubSeq(t, q, m), i, S)
  PROVE  /\ \A p \in q + i - 1 .. q + j - 2 : At(t, p, S) = {}
         /\ Begins(t, q + j - 1, S) # {}
         /\ NextAt(t, q + j - 1, S) = q + j - 1
         /\ LongestAt(t, q + j - 1, S) = LongestAt(SubSeq(t, q, m), j, S)
         /\ j \in i .. m - q + 1
<1> DEFINE u == SubSeq(t, q, m)
           l == LongestAt(u, j, S)
           r == LongestAt(t, q + j - 1, S)
<1>0. Len(t) \in Nat /\ t \in Seq(Characters)
  BY LenProperties DEF GivenText
<1>1. u \in Seq(Characters) /\ Len(u) = m - q + 1 /\ GivenText(u, S)
  BY <1>0, Slices DEF GivenText
<1>2. i \in Nat /\ i >= 1
  BY <1>0
<1>3. /\ j \in i .. m - q + 1 /\ l \in At(u, j, S) /\ l \in S
      /\ \A k \in i .. j - 1 : At(u, k, S) = {}
  BY <1>1, <1>2, NextFound
<1>4. j \in 1 .. m - q + 1 /\ j \in Nat
  BY <1>0, <1>2, <1>3
<1>5. l \in At(t, q + j - 1, S) /\ j + Len(l.value) - 1 <= m - q + 1
  BY <1>3, <1>4, AtSlice
<1>6. Len(l.value) \in Nat /\ Len(l.value) >= 1
  BY <1>3, SecretTyped
<1>7. q + j - 1 \in 1 .. Len(t)
  BY <1>0, <1>4
<1> HIDE DEF u, l
<1>8. ASSUME NEW p \in q + i - 1 .. q + j - 2, At(t, p, S) # {}
      PROVE  FALSE
  <2>1. PICK o \in At(t, p, S) : TRUE
    BY <1>8
  <2> DEFINE k == p - q + 1
  <2>2. k \in i .. j - 1 /\ k \in 1 .. m - q + 1 /\ q + k - 1 = p /\ p \in 1 .. Len(t) /\ q + j - 1 \in p .. Len(t)
    BY <1>0, <1>2, <1>3, <1>4, <1>7, SMTT(60)
  <2>3. o \in S /\ Len(o.value) \in Nat /\ Len(o.value) >= 1
    <3>1. o \in S
      BY <2>1 DEF At
    <3> QED BY <3>1, SecretTyped
  <2> HIDE DEF k
  <2>4. o \notin At(u, k, S)
    BY <1>3, <2>2
  <2>5. ~(k + Len(o.value) - 1 <= m - q + 1)
    BY <2>1, <2>2, <2>4, AtSlice DEF u
  <2> DEFINE a == Len(l.value)
             b == Len(o.value)
  <2>6. (q + j - 1) + a <= p + b /\ k + b > j + a
    <3>1. j + a - 1 <= m - q + 1 /\ ~(k + b - 1 <= m - q + 1) /\ a \in Nat /\ b \in Nat
      BY <1>5, <1>6, <2>3, <2>5
    <3>2. k \in Int /\ p \in Int /\ q \in Int /\ j \in Int /\ m \in Int /\ k < j
      BY <1>0, <1>4, <2>2
    <3> HIDE DEF a, b
    <3>3. k + b > j + a
      BY <3>1, <3>2
    <3>4. q + k - 1 = p
      BY <2>2
    <3>5. (q + j - 1) + a <= p + b
      <4>1. (q + j - 1) + a <= (q + k - 1) + b
        BY <3>1, <3>2, <3>3, Shift
      <4> QED BY <3>4, <4>1
    <3> QED BY <3>3, <3>5
  <2>7. Within(o.value, l.value)
    <3> HIDE DEF l
    <3> QED BY <1>5, <2>1, <2>2, <2>6, Nested
  <2>8. o # l
    <3>1. k < j /\ a \in Nat /\ k \in Int
      BY <1>4, <1>6, <2>2
    <3>2. a # b
      <4>1. b \in Nat
        BY <2>3
      <4> HIDE DEF a, b
      <4> QED BY <1>4, <2>6, <3>1, <4>1, SMTT(60)
    <3> QED BY <3>2
  <2> QED BY <1>3, <2>3, <2>7, <2>8 DEF Free
<1>9. Begins(t, q + j - 1, S) # {} /\ NextAt(t, q + j - 1, S) = q + j - 1
  <2> DEFINE c == q + j - 1
             n == NextAt(t, c, S)
  <2>1. c \in 1 .. Len(t) /\ c \in c .. Len(t) /\ c \in Nat /\ At(t, c, S) # {}
    BY <1>0, <1>5, <1>7
  <2> HIDE DEF c
  <2>2. Begins(t, c, S) # {}
    BY <2>1 DEF Begins
  <2>3. n \in c .. Len(t) /\ \A k \in c .. n - 1 : At(t, k, S) = {}
    BY <2>1, <2>2, NextFound
  <2> HIDE DEF n
  <2>4. n = c
    BY <1>0, <2>1, <2>3
  <2> QED BY <2>2, <2>4 DEF c, n
<1>10. r = l
  <2> DEFINE c == q + j - 1
  <2>1. c \in 1 .. Len(t) /\ c \in c .. Len(t) /\ l \in At(t, c, S)
    BY <1>0, <1>5, <1>7
  <2>2. r \in At(t, c, S) /\ r \in S
    <3>1. c \in Nat
      BY <1>0, <1>7
    <3> QED BY <1>9, <3>1, NextFound
  <2>3. Len(r.value) \in Nat /\ Len(l.value) \in Nat /\ c \in Int
    BY <1>0, <1>6, <1>7, <2>2, SecretTyped
  <2> HIDE DEF c, r
  <2> DEFINE a == Len(l.value)
             b == Len(r.value)
  <2>4. c + a <= c + b \/ c + b <= c + a
    <3>1. a \in Nat /\ b \in Nat /\ c \in Int
      BY <2>3
    <3> HIDE DEF a, b
    <3> QED BY <3>1
  <2>5. Within(l.value, r.value) \/ Within(r.value, l.value)
    BY <2>1, <2>2, <2>4, Nested
  <2> QED BY <1>3, <2>2, <2>5 DEF Free
<1> QED BY <1>3, <1>8, <1>9, <1>10 DEF u, l

\* Texts one after the other, however they are put together.
LEMMA FourJoined ==
  ASSUME NEW C, NEW a \in Seq(C), NEW w \in Seq(C), NEW b \in Seq(C), NEW d \in Seq(C)
  PROVE  a \o (w \o (b \o d)) = ((a \o w) \o b) \o d
<1>1. PICK x0 \in Seq(C) : x0 = b \o d
  BY Joined
<1>2. PICK y \in Seq(C) : y = a \o w
  BY Joined
<1>3. y \o x0 = a \o (w \o x0)
  BY <1>2, Joined, SMTT(60)
<1>4. (y \o b) \o d = y \o x0
  BY <1>1, Joined, SMTT(60)
<1> QED BY <1>1, <1>2, <1>3, <1>4

\* The same, of texts, where nothing but the order of putting together matters.
Cat(a, b) == a \o b

\* Of four texts.
LEMMA FourCats ==
  ASSUME NEW a \in Seq(Characters), NEW w \in Seq(Characters), NEW b \in Seq(Characters), NEW d \in Seq(Characters)
  PROVE  Cat(a, Cat(w, Cat(b, d))) = Cat(Cat(Cat(a, w), b), d)
<1>1. a \o (w \o (b \o d)) = ((a \o w) \o b) \o d
  BY FourJoined, SMTT(30)
<1> QED BY <1>1 DEF Cat

\* Of three texts.
LEMMA ThreeCats ==
  ASSUME NEW a \in Seq(Characters), NEW b \in Seq(Characters), NEW c \in Seq(Characters)
  PROVE  Cat(a, Cat(b, c)) = Cat(Cat(a, b), c) /\ Cat(a, b) \in Seq(Characters)
<1>1. a \o (b \o c) = (a \o b) \o c /\ a \o b \in Seq(Characters)
  BY Joined, SMTT(60)
<1> QED BY <1>1 DEF Cat

\* Follows at a position with no match behind it.
LEMMA FollowsNone ==
  ASSUME NEW t, NEW S, GivenText(t, S), NEW q \in 1 .. Len(t) + 1, NEW m \in q - 1 .. Len(t),
         NEW i \in 1 .. m - q + 2, Begins(SubSeq(t, q, m), i, S) = {}
  PROVE  Follows(t, S, q, m, i)
<1> DEFINE u == SubSeq(t, q, m)
           W == Whole(t, S, q + i - 1)
<1>0. Len(t) \in Nat /\ t \in Seq(Characters)
  BY LenProperties DEF GivenText
<1>1. u \in Seq(Characters) /\ Len(u) = m - q + 1 /\ GivenText(u, S)
  BY <1>0, Slices DEF GivenText
<1>2. i \in Nat /\ q + i - 1 \in 1 .. Len(t) + 1
  BY <1>0
<1>3. W \in Seq(Characters)
  BY <1>2, WholeTyped
<1>4. Loop(u, S)[i] = [out |-> << >>, pos |-> i]
  <2> HIDE DEF W
  <2>1. Begins(u, i, S) = {}
    OBVIOUS
  <2> HIDE DEF u
  <2> QED BY <1>1, <1>2, <2>1, LoopNone
<1> DEFINE g == Loop(u, S)[i]
<1> HIDE DEF W
<1>5. << >> \o W = W
  BY <1>3, ConcatEmptySeq
<1>6. g.out = << >> /\ g.pos = i
  <2>1. g = [out |-> << >>, pos |-> i]
    BY <1>4
  <2> HIDE DEF g
  <2> QED BY <2>1
<1>7. W = << >> \o Whole(t, S, q + i - 1)
  BY <1>5 DEF W
<1> QED BY <1>6, <1>7 DEF Follows, W

\* Follows before a match, from Follows behind it.
LEMMA FollowsNext ==
  ASSUME NEW t, NEW S, GivenText(t, S), Free(S), NEW q \in 1 .. Len(t) + 1, NEW m \in q - 1 .. Len(t),
         NEW i \in 1 .. m - q + 2, Begins(SubSeq(t, q, m), i, S) # {},
         Follows(t, S, q, m, After(SubSeq(t, q, m), i, S))
  PROVE  Follows(t, S, q, m, i)
<1> DEFINE u == SubSeq(t, q, m)
           j == NextAt(u, i, S)
           l == LongestAt(u, j, S)
           n == After(u, i, S)
           c == q + j - 1
<1>0. Len(t) \in Nat /\ t \in Seq(Characters)
  BY LenProperties DEF GivenText
<1>1. u \in Seq(Characters) /\ Len(u) = m - q + 1 /\ GivenText(u, S)
  BY <1>0, Slices DEF GivenText
<1>2. i \in Nat /\ i \in 1 .. Len(u) + 1
  BY <1>0, <1>1
<1>3. Begins(u, i, S) # {}
  OBVIOUS
<1>4. /\ \A p \in q + i - 1 .. q + j - 2 : At(t, p, S) = {}
      /\ Begins(t, c, S) # {}
      /\ NextAt(t, c, S) = c
      /\ LongestAt(t, c, S) = l
      /\ j \in i .. m - q + 1
  BY SameMatch
<1> DEFINE f == Loop(u, S)
<1>5. /\ n \in i + 1 .. Len(u) + 1 /\ n \in j + 1 .. Len(u) + 1 /\ l \in S /\ n = j + Len(l.value)
      /\ SubSeq(u, i, j - 1) \in Seq(Characters)
  <2> HIDE DEF u
  <2>1. /\ After(u, i, S) \in i + 1 .. Len(u) + 1 /\ SubSeq(u, i, NextAt(u, i, S) - 1) \in Seq(Characters)
    BY <1>1, <1>2, <1>3, WholeNext
  <2>2. /\ After(u, i, S) \in NextAt(u, i, S) + 1 .. Len(u) + 1 /\ LongestAt(u, NextAt(u, i, S), S) \in S
    BY <1>1, <1>2, <1>3, NextFound
  <2>3. n = j + Len(l.value)
    BY DEF After
  <2> QED BY <2>1, <2>2, <2>3
<1>6. f[i] = [out |-> SubSeq(u, i, j - 1) \o <<l.name>> \o f[n].out, pos |-> f[n].pos]
  <2> HIDE DEF u
  <2> QED BY <1>1, <1>2, <1>3, LoopNext
<1>7. Len(l.value) \in Nat /\ Len(l.value) >= 1 /\ l.name \in Characters
  <2>1. l \in S
    BY <1>5
  <2> HIDE DEF l
  <2> QED BY <2>1, SecretTyped
<1>8. After(t, c, S) = c + Len(l.value)
  <2> HIDE DEF c, l
  <2> QED BY <1>4 DEF After
<1> DEFINE w == <<l.name>>
           a == SubSeq(t, q + i - 1, q + j - 2)
           b == f[n].out
           W == Whole(t, S, q + f[n].pos - 1)
           N == Whole(t, S, q + n - 1)
<1>9. c \in 1 .. Len(t) + 1 /\ q + i - 1 \in 1 .. Len(t) + 1 /\ c \in q + i - 1 .. Len(t) + 1
      /\ c - 1 = q + j - 2 /\ c + Len(l.value) = q + n - 1
  <2>1. n = j + Len(l.value) /\ Len(l.value) \in Nat /\ j \in i .. m - q + 1
    BY <1>4, <1>5, <1>7
  <2> DEFINE v == Len(l.value)
  <2>2. n = j + v /\ v \in Nat /\ j \in i .. m - q + 1 /\ j \in Int /\ q \in Int /\ i \in Int
    BY <1>0, <2>1
  <2> HIDE DEF n, j, v
  <2>3. (q + j - 1) + v = q + n - 1
    BY <2>2
  <2>4. c \in 1 .. Len(t) + 1 /\ q + i - 1 \in 1 .. Len(t) + 1 /\ c \in q + i - 1 .. Len(t) + 1 /\ c - 1 = q + j - 2
    BY <1>0, <2>2
  <2> QED BY <2>3, <2>4 DEF v
<1>10. Whole(t, S, q + i - 1) = a \o Whole(t, S, c)
  <2>1. \A p \in q + i - 1 .. c - 1 : At(t, p, S) = {}
    BY <1>4, <1>9
  <2>2. Whole(t, S, q + i - 1) = SubSeq(t, q + i - 1, c - 1) \o Whole(t, S, c)
    <3> DEFINE e == q + i - 1
    <3>1. e \in 1 .. Len(t) + 1 /\ c \in e .. Len(t) + 1 /\ \A p \in e .. c - 1 : At(t, p, S) = {}
      BY <1>9, <2>1
    <3> HIDE DEF c, e
    <3>2. Whole(t, S, e) = SubSeq(t, e, c - 1) \o Whole(t, S, c)
      BY <3>1, WholeSkip
    <3> QED BY <3>2 DEF e
  <2>3. c - 1 = q + j - 2
    BY <1>9
  <2> HIDE DEF c, j
  <2> QED BY <2>2, <2>3
<1>11. Whole(t, S, c) = w \o N
  <2> DEFINE k == After(t, c, S)
  <2>1. Whole(t, S, c) = (SubSeq(t, c, c - 1) \o w) \o Whole(t, S, k)
    <3>1. c \in 1 .. Len(t) + 1 /\ Begins(t, c, S) # {} /\ NextAt(t, c, S) = c /\ LongestAt(t, c, S) = l
      BY <1>4, <1>9
    <3> HIDE DEF c, l
    <3>2. Whole(t, S, c) = (SubSeq(t, c, NextAt(t, c, S) - 1) \o <<LongestAt(t, NextAt(t, c, S), S).name>>)
                             \o Whole(t, S, After(t, c, S))
      BY <3>1, WholeNext
    <3> QED BY <3>1, <3>2
  <2>2. SubSeq(t, c, c - 1) = << >>
    <3>1. c \in Int
      BY <1>0, <1>9
    <3> HIDE DEF c
    <3> QED BY <3>1, SubSeqEmpty
  <2>3. << >> \o w = w
    <3>1. w \in Seq(Characters)
      BY <1>7
    <3> HIDE DEF w
    <3> QED BY <3>1, ConcatEmptySeq
  <2>4. Whole(t, S, k) = N
    BY <1>8, <1>9
  <2> HIDE DEF c, w, N, k
  <2> QED BY <2>1, <2>2, <2>3, <2>4
<1>12. N = b \o W
  BY DEF Follows
<1>13. SubSeq(u, i, j - 1) = a /\ a \in Seq(Characters)
  <2>1. i \in 1 .. m - q + 2 /\ j - 1 \in i - 1 .. m - q + 1 /\ q + (j - 1) - 1 = q + j - 2
    <3> HIDE DEF j
    <3> QED BY <1>0, <1>4
  <2>2. SubSeq(SubSeq(t, q, m), i, j - 1) = SubSeq(t, q + i - 1, q + (j - 1) - 1)
    <3> DEFINE e == j - 1
    <3>1. e \in i - 1 .. m - q + 1
      BY <2>1
    <3> HIDE DEF e
    <3>2. SubSeq(SubSeq(t, q, m), i, e) = SubSeq(t, q + i - 1, q + e - 1)
      BY <1>0, <3>1, SliceOfSlice
    <3> QED BY <3>2 DEF e
  <2>3. SubSeq(u, i, j - 1) = a
    BY <2>1, <2>2
  <2>4. SubSeq(u, i, j - 1) \in Seq(Characters)
    BY <1>5
  <2> QED BY <2>3, <2>4
<1>14. b \in Seq(Characters) /\ W \in Seq(Characters)
  <2>1. n \in 1 .. Len(u) + 1
    <3> HIDE DEF n, u
    <3> QED BY <1>1, <1>2, <1>5
  <2>2. Settled(u, S, n)
    <3> HIDE DEF n, u
    <3> QED BY <1>1, <2>1, LoopSettles
  <2>3. b \in Seq(Characters) /\ f[n].pos \in n .. Len(u) + 1
    BY <2>2 DEF Settled
  <2> DEFINE p == f[n].pos
  <2>4. q + p - 1 \in 1 .. Len(t) + 1
    <3>1. p \in n .. m - q + 2 /\ n \in 1 .. m - q + 2
      <4>1. Len(u) + 1 = m - q + 2
        BY <1>0, <1>1
      <4> HIDE DEF n, u, f
      <4> QED BY <2>1, <2>3, <4>1
    <3> HIDE DEF p, n
    <3> QED BY <1>0, <3>1
  <2>5. W \in Seq(Characters)
    <3> HIDE DEF p
    <3> QED BY <2>4, WholeTyped DEF p
  <2> QED BY <2>3, <2>5
<1>15. w \in Seq(Characters)
  BY <1>7
<1> DEFINE g == f[i]
           p == f[n].pos
           o == SubSeq(u, i, j - 1) \o <<l.name>> \o f[n].out
<1>16. g.out = (a \o w) \o b /\ g.pos = p
  <2>1. g = [out |-> o, pos |-> p]
    BY <1>6
  <2>2. o = (a \o w) \o b
    BY <1>13
  <2> HIDE DEF g, p, o
  <2>3. g.out = o /\ g.pos = p
    BY <2>1
  <2> QED BY <2>2, <2>3
<1>17. Whole(t, S, q + i - 1) = ((a \o w) \o b) \o W
  <2>1. a \o (w \o (b \o W)) = ((a \o w) \o b) \o W
    <3>1. a \in Seq(Characters) /\ w \in Seq(Characters) /\ b \in Seq(Characters) /\ W \in Seq(Characters)
      BY <1>13, <1>14, <1>15
    <3> HIDE DEF a, w, b, W
    <3>2. Cat(a, Cat(w, Cat(b, W))) = Cat(Cat(Cat(a, w), b), W)
      BY <3>1, FourCats
    <3> QED BY <3>2 DEF Cat
  <2> DEFINE X == Whole(t, S, q + i - 1)
             Y == Whole(t, S, c)
  <2>2. X = a \o Y /\ Y = w \o N /\ N = b \o W
    BY <1>10, <1>11, <1>12
  <2> HIDE DEF a, w, b, W, N, X, Y
  <2>3. X = ((a \o w) \o b) \o W
    BY <2>1, <2>2
  <2> QED BY <2>3 DEF X
<1>18. Whole(t, S, q + i - 1) = g.out \o Whole(t, S, q + g.pos - 1)
  BY <1>16, <1>17
<1> QED BY <1>18 DEF Follows

\* It follows from every position of a part.
LEMMA LoopFollows ==
  ASSUME NEW t, NEW S, GivenText(t, S), Free(S), NEW q \in 1 .. Len(t) + 1, NEW m \in q - 1 .. Len(t)
  PROVE  \A i \in 1 .. m - q + 2 : Follows(t, S, q, m, i)
<1> DEFINE u == SubSeq(t, q, m)
           e == m - q + 2
           Bad == {i \in 1 .. e : ~Follows(t, S, q, m, i)}
<1>0. Len(t) \in Nat /\ t \in Seq(Characters) /\ e \in Nat
  BY LenProperties DEF GivenText
<1>1. u \in Seq(Characters) /\ Len(u) = m - q + 1 /\ GivenText(u, S)
  BY <1>0, Slices DEF GivenText
<1> SUFFICES ASSUME Bad # {} PROVE FALSE
  OBVIOUS
<1>2. PICK i \in Bad : \A k \in Bad : k <= i
  <2>1. Bad \in SUBSET (1 .. e)
    OBVIOUS
  <2> HIDE DEF Bad, e
  <2> QED BY <1>0, <2>1, Greatest
<1>3. i \in 1 .. m - q + 2 /\ ~Follows(t, S, q, m, i) /\ i \in Nat
  BY <1>0, <1>2
<1>4. Begins(SubSeq(t, q, m), i, S) # {}
  BY <1>3, FollowsNone
<1> DEFINE n == After(SubSeq(t, q, m), i, S)
<1>5. n \in i + 1 .. Len(u) + 1
  <2>1. i \in 1 .. Len(u) + 1 /\ Begins(u, i, S) # {}
    BY <1>0, <1>1, <1>3, <1>4
  <2> HIDE DEF u
  <2>2. After(u, i, S) \in i + 1 .. Len(u) + 1
    BY <1>1, <2>1, WholeNext
  <2> QED BY <2>2 DEF u
<1>6. n \in 1 .. e /\ n > i
  <2>1. Len(u) + 1 = e
    BY <1>0, <1>1
  <2> HIDE DEF n, u
  <2> QED BY <1>0, <1>3, <1>5, <2>1
<1>7. Follows(t, S, q, m, n)
  <2> HIDE DEF n
  <2> SUFFICES ASSUME ~Follows(t, S, q, m, n) PROVE FALSE
    OBVIOUS
  <2>1. n \in Bad /\ n \in Nat
    BY <1>0, <1>6
  <2> HIDE DEF Bad
  <2>2. n <= i
    BY <1>2, <2>1
  <2> QED BY <1>3, <1>6, <2>1, <2>2
<1>8. Follows(t, S, q, m, i)
  BY <1>3, <1>4, <1>7, FollowsNext
<1> QED BY <1>3, <1>8

-----------------------------------------------------------------------------
(* One piece *)

\* No secret is longer than the longest.
Bounded(S) == Longest(S) \in Nat /\ \A s \in S : Len(s.value) <= Longest(S)

\* There are finitely many secrets, so there is a longest.
LEMMA LongestBounds ==
  ASSUME NEW t, NEW S, GivenText(t, S), IsFiniteSet(S)
  PROVE  Bounded(S)
<1>1. CASE S = {}
  BY <1>1 DEF Bounded, Longest
<1>2. CASE S # {}
  <2>1. PICK n \in Nat : ExistsBijection(1 .. n, S)
    BY FS_NatBijection
  <2>2. PICK f \in [1 .. n -> S] : \A s \in S : \E i \in 1 .. n : f[i] = s
    BY <2>1 DEF ExistsBijection, Bijection, Injection, Surjection
  <2> DEFINE Below(k, M) == \A i \in 1 .. k : Len(f[i].value) <= M
             Bad == {k \in 0 .. n : ~\E M \in Nat : Below(k, M)}
  <2>3. Bad = {}
    <3> SUFFICES ASSUME Bad # {} PROVE FALSE
      OBVIOUS
    <3>1. PICK k \in Bad : \A j \in Bad : k <= j
      <4>1. Bad \in SUBSET Nat
        OBVIOUS
      <4> HIDE DEF Bad
      <4> QED BY <4>1, Least
    <3>2. k \in 0 .. n /\ ~\E M \in Nat : Below(k, M)
      BY <3>1
    <3>3. k # 0
      <4>1. Below(0, 0)
        OBVIOUS
      <4> HIDE DEF Below
      <4> QED BY <3>2, <4>1
    <3>4. k - 1 \in 0 .. n /\ k \in 1 .. n /\ k \in Nat
      BY <3>2, <3>3
    <3>5. \E M \in Nat : Below(k - 1, M)
      <4> HIDE DEF Below
      <4> SUFFICES ASSUME ~\E M \in Nat : Below(k - 1, M) PROVE FALSE
        OBVIOUS
      <4>1. k - 1 \in Bad
        BY <3>4
      <4> HIDE DEF Bad
      <4> QED BY <3>1, <3>4, <4>1
    <3>6. PICK M \in Nat : Below(k - 1, M)
      BY <3>5
    <3> DEFINE l == Len(f[k].value)
    <3>7. l \in Nat
      <4>1. f[k] \in S
        BY <3>4
      <4> QED BY <4>1, SecretTyped
    <3> DEFINE N == IF l <= M THEN M ELSE l
    <3>8. N \in Nat /\ M <= N /\ l <= N
      <4> HIDE DEF l
      <4> QED BY <3>7
    <3>9. ASSUME NEW i \in 1 .. k
          PROVE  Len(f[i].value) <= N
      <4>1. CASE i = k
        BY <3>8, <4>1
      <4>2. CASE i # k
        <5>1. i \in 1 .. k - 1 /\ i \in 1 .. n
          BY <3>4, <4>2
        <5>2. f[i] \in S
          BY <5>1
        <5> DEFINE b == Len(f[i].value)
        <5>3. b \in Nat
          BY <5>2, SecretTyped
        <5>4. b <= M
          BY <3>6, <5>1
        <5> HIDE DEF b, N
        <5>5. b <= N
          BY <3>8, <5>3, <5>4
        <5> QED BY <5>5 DEF b, N
      <4> QED BY <4>1, <4>2
    <3> HIDE DEF N
    <3> QED BY <3>2, <3>8, <3>9
  <2>4. PICK M \in Nat : Below(n, M)
    <3>1. n \in 0 .. n
      OBVIOUS
    <3> HIDE DEF Below
    <3> QED BY <2>3, <3>1
  <2> DEFINE N == {Len(s.value) : s \in S}
  <2>5. N \in SUBSET (1 .. M) /\ N # {}
    <3>1. ASSUME NEW s \in S
          PROVE  Len(s.value) \in 1 .. M
      <4> DEFINE b == Len(s.value)
      <4>1. b \in Nat /\ b >= 1
        BY SecretTyped
      <4>2. PICK i \in 1 .. n : f[i] = s
        BY <2>2
      <4>3. b <= M
        BY <2>4, <4>2
      <4> HIDE DEF b
      <4>4. b \in 1 .. M
        BY <4>1, <4>3
      <4> QED BY <4>4 DEF b
    <3> QED BY <1>2, <3>1
  <2>6. PICK b \in N : \A x0 \in N : x0 <= b
    <3> HIDE DEF N
    <3> QED BY <2>5, Greatest
  <2>7. Longest(S) = CHOOSE x0 \in N : \A y \in N : x0 >= y
    BY <1>2 DEF Longest, Max
  <2> DEFINE L == Longest(S)
  <2>8. L \in N /\ \A y \in N : L >= y
    <3>1. \A y \in N : b >= y
      <4>1. b \in Int /\ \A y \in N : y \in Int
        BY <2>5
      <4> HIDE DEF N
      <4> QED BY <2>6, <4>1
    <3> HIDE DEF N, L
    <3> QED BY <2>7, <3>1 DEF L
  <2>9. L \in Nat
    <3> HIDE DEF N, L
    <3> QED BY <2>5, <2>8
  <2>10. ASSUME NEW s \in S
         PROVE  Len(s.value) <= L
    <3> DEFINE y == Len(s.value)
    <3>1. y \in N /\ y \in Nat
      BY SecretTyped
    <3> HIDE DEF y, N, L
    <3>2. y <= L
      BY <2>8, <2>9, <3>1
    <3> QED BY <3>2 DEF y
  <2> QED BY <2>9, <2>10 DEF Bounded
<1> QED BY <1>1, <1>2

\* How many characters go out: never more than there are, and none that may begin a secret.
LEMMA SafeLen ==
  ASSUME NEW tail, Len(tail) \in Nat, NEW L \in Nat, L >= 1
  PROVE  /\ safe_len(tail, L) \in 0 .. Len(tail)
         /\ safe_len(tail, L) > 0 => safe_len(tail, L) = Len(tail) - (L - 1)
<1> DEFINE n == Len(tail)
           k == n - (L - 1)
           z == safe_len(tail, L)
<1>1. z = CHOOSE x0 \in {0, k} : \A y \in {0, k} : x0 >= y
  BY DEF safe_len, Max
<1>2. n \in Nat /\ k \in Int /\ k <= n
  <2>1. n \in Nat
    OBVIOUS
  <2> HIDE DEF n
  <2> QED BY <2>1
<1> HIDE DEF k, z
<1>3. \E x0 \in {0, k} : \A y \in {0, k} : x0 >= y
  <2>1. CASE k >= 0
    BY <1>2, <2>1
  <2>2. CASE ~(k >= 0)
    BY <1>2, <2>2
  <2> QED BY <2>1, <2>2
<1>4. z \in {0, k} /\ z >= 0 /\ z >= k
  BY <1>1, <1>3
<1>5. z \in 0 .. n /\ (z > 0 => z = k)
  <2> HIDE DEF n
  <2> QED BY <1>2, <1>4
<1> QED BY <1>5 DEF z, k

\* What one call of redact puts out and keeps: what the loop makes of the text, and of what
\* is left, the part in which no secret can have begun to arrive.
LEMMA RedactSplits ==
  ASSUME NEW pending, NEW input, NEW u, u = pending \o input, NEW S, GivenText(u, S), S # {}, Bounded(S)
  PROVE  \E e \in Loop(u, S)[1].pos - 1 .. Len(u) :
           /\ redact(pending, input, S) =
                [out |-> Loop(u, S)[1].out \o SubSeq(u, Loop(u, S)[1].pos, e),
                 pending |-> SubSeq(u, e + 1, Len(u))]
           /\ \A k \in Loop(u, S)[1].pos .. e : \A s \in S : k + Len(s.value) - 1 <= Len(u)
<1> DEFINE g == Loop(u, S)[1]
           p == g.pos
           L == Longest(S)
           tail == SubSeq(u, p, Len(u))
           safe == safe_len(tail, L)
           e == p + safe - 1
<1>0. Len(u) \in Nat /\ u \in Seq(Characters) /\ GivenText(u, S)
  BY LenProperties DEF GivenText
<1>1. p \in 1 .. Len(u) + 1
  <2>1. 1 \in 1 .. Len(u) + 1
    BY <1>0
  <2>2. Settled(u, S, 1)
    BY <1>0, <2>1, LoopSettles
  <2> QED BY <2>2 DEF Settled
<1>2. tail \in Seq(Characters) /\ Len(tail) = Len(u) - p + 1 /\ Len(tail) \in Nat
  <2> HIDE DEF p
  <2>1. p \in 1 .. Len(u) + 1 /\ Len(u) \in p - 1 .. Len(u) /\ Len(u) - p + 1 \in Nat
    BY <1>0, <1>1
  <2>2. tail \in Seq(Characters) /\ Len(tail) = Len(u) - p + 1
    BY <1>0, <2>1, Slices, ZenonT(60)
  <2> QED BY <2>1, <2>2
<1>3. L \in Nat /\ L >= 1 /\ \A s \in S : Len(s.value) <= L
  <2>1. L \in Nat /\ \A s \in S : Len(s.value) <= L
    BY DEF Bounded
  <2>2. PICK s \in S : TRUE
    OBVIOUS
  <2> DEFINE b == Len(s.value)
  <2>3. b \in Nat /\ b >= 1 /\ b <= L
    BY <2>1, SecretTyped
  <2> HIDE DEF b, L
  <2>4. L >= 1
    BY <2>1, <2>3
  <2> QED BY <2>1, <2>4
<1>4. safe \in 0 .. Len(tail) /\ (safe > 0 => safe = Len(tail) - (L - 1))
  <2> HIDE DEF tail, L
  <2> QED BY <1>2, <1>3, SafeLen
<1>5. e \in p - 1 .. Len(u) /\ e + 1 = p + safe /\ safe \in 0 .. Len(u) - p + 1
  <2> DEFINE y == Len(u)
  <2>1. safe \in 0 .. y - p + 1 /\ p \in 1 .. y + 1 /\ y \in Nat
    BY <1>0, <1>1, <1>2, <1>4
  <2> HIDE DEF safe, p, y
  <2>2. e \in p - 1 .. y /\ e + 1 = p + safe
    BY <2>1
  <2> QED BY <2>1, <2>2 DEF y
<1>6. SubSeq(tail, 1, safe) = SubSeq(u, p, e) /\ SubSeq(tail, safe + 1, Len(tail)) = SubSeq(u, e + 1, Len(u))
  <2> DEFINE y == Len(u)
             h == Len(u) - p + 1
  <2>1. /\ p \in 1 .. y + 1 /\ y \in p - 1 .. y /\ safe \in 0 .. h /\ h = y - p + 1 /\ y \in Nat /\ h = Len(tail)
    BY <1>0, <1>1, <1>2, <1>5
  <2> HIDE DEF safe, p, h
  <2>2. /\ 1 \in 1 .. y - p + 2 /\ safe \in 1 - 1 .. y - p + 1 /\ p + 1 - 1 = p
        /\ safe + 1 \in 1 .. y - p + 2 /\ h \in (safe + 1) - 1 .. y - p + 1
        /\ p + (safe + 1) - 1 = e + 1 /\ p + h - 1 = y
    <3> HIDE DEF y
    <3> QED BY <2>1
  <2>3. SubSeq(SubSeq(u, p, y), 1, safe) = SubSeq(u, p + 1 - 1, p + safe - 1)
    BY <1>0, <2>1, <2>2, SliceOfSlice
  <2> DEFINE a == safe + 1
  <2>4. a \in 1 .. y - p + 2 /\ h \in a - 1 .. y - p + 1
    BY <2>2
  <2>5. SubSeq(SubSeq(u, p, y), a, h) = SubSeq(u, p + a - 1, p + h - 1)
    <3> HIDE DEF a
    <3> QED BY <1>0, <2>1, <2>4, SliceOfSlice
  <2> QED BY <2>1, <2>2, <2>3, <2>5
<1>7. redact(pending, input, S) =
        [out |-> g.out \o SubSeq(tail, 1, safe), pending |-> SubSeq(tail, safe + 1, Len(tail))]
  <2>1. replaced(u, S) = g
    BY <1>0, LoopIs
  <2> QED BY <2>1 DEF redact
<1>8. ASSUME NEW k \in p .. e, NEW s \in S
      PROVE  k + Len(s.value) - 1 <= Len(u)
  <2> DEFINE y == Len(u)
             b == Len(s.value)
  <2>1. b \in Nat /\ b <= L /\ L \in Nat
    BY <1>0, <1>3, SecretTyped
  <2>2. safe \in 0 .. y - p + 1 /\ (safe > 0 => safe = (y - p + 1) - (L - 1)) /\ y \in Nat /\ p \in 1 .. y + 1
    BY <1>0, <1>1, <1>2, <1>4, <1>5
  <2>3. k \in p .. p + safe - 1
    OBVIOUS
  <2> HIDE DEF y, b, L, safe, p
  <2>4. safe > 0
    BY <2>2, <2>3
  <2>5. safe = (y - p + 1) - (L - 1)
    BY <2>2, <2>4
  <2>6. k <= y - L + 1
    BY <2>1, <2>2, <2>3, <2>5
  <2>7. k + b - 1 <= y
    BY <2>1, <2>2, <2>3, <2>6
  <2> QED BY <2>7 DEF y, b
<1>9. redact(pending, input, S) = [out |-> g.out \o SubSeq(u, p, e), pending |-> SubSeq(u, e + 1, Len(u))]
  <2> HIDE DEF safe, tail, p, g
  <2> QED BY <1>6, <1>7
<1> HIDE DEF e
<1> QED BY <1>5, <1>8, <1>9

\* What redact puts out and keeps of a text that has arrived up to h and was put out up to q.
Keeps(t, S, q, h, p, d) ==
  /\ d.out \in Seq(Characters) /\ d.pending = SubSeq(t, p, h)
  /\ Whole(t, S, q) = d.out \o Whole(t, S, p)
  /\ Begins(SubSeq(t, p, h), 1, S) = {}
  /\ S = {} => p = h + 1

\* There are no matches in the last part of a text that has none from some position on.
LEMMA NoneInPart ==
  ASSUME NEW u, NEW S, GivenText(u, S), NEW p \in 1 .. Len(u) + 1, Begins(u, p, S) = {},
         NEW a \in p .. Len(u) + 1
  PROVE  Begins(SubSeq(u, a, Len(u)), 1, S) = {}
<1> DEFINE v == SubSeq(u, a, Len(u))
<1>0. Len(u) \in Nat /\ u \in Seq(Characters)
  BY LenProperties DEF GivenText
<1>1. a \in 1 .. Len(u) + 1 /\ Len(u) \in a - 1 .. Len(u)
  BY <1>0
<1>2. Len(v) = Len(u) - a + 1
  BY <1>0, <1>1, Slices
<1>3. ASSUME NEW k \in 1 .. Len(u) - a + 1, NEW s \in At(v, k, S)
      PROVE  FALSE
  <2>1. s \in At(u, a + k - 1, S)
    BY <1>1, AtSlice
  <2>2. a + k - 1 \in p .. Len(u)
    BY <1>0, <1>1
  <2> QED BY <2>1, <2>2 DEF Begins
<1> QED BY <1>2, <1>3 DEF Begins

\* With no secrets, everything goes out.
LEMMA RedactPasses ==
  ASSUME NEW t, NEW S, GivenText(t, S), S = {}, NEW m \in 0 .. Len(t), NEW h \in m .. Len(t)
  PROVE  Keeps(t, S, m + 1, h, h + 1, redact(SubSeq(t, m + 1, m), SubSeq(t, m + 1, h), S))
<1> DEFINE d == redact(SubSeq(t, m + 1, m), SubSeq(t, m + 1, h), S)
           a == SubSeq(t, m + 1, h)
<1>0. Len(t) \in Nat /\ t \in Seq(Characters) /\ m \in Int /\ h \in Int
  BY LenProperties DEF GivenText
<1>1. d = [out |-> a, pending |-> SubSeq(t, m + 1, m)]
  BY DEF redact
<1>2. SubSeq(t, m + 1, m) = << >> /\ SubSeq(t, h + 1, h) = << >>
  BY <1>0, SubSeqEmpty
<1>3. m + 1 \in 1 .. Len(t) + 1 /\ h + 1 \in m + 1 .. Len(t) + 1 /\ (h + 1) - 1 = h /\ h \in (m + 1) - 1 .. Len(t)
  BY <1>0
<1>4. a \in Seq(Characters)
  BY <1>0, <1>3, Slices
<1>5. Whole(t, S, m + 1) = a \o Whole(t, S, h + 1)
  <2>1. \A p \in m + 1 .. (h + 1) - 1 : At(t, p, S) = {}
    BY DEF At
  <2> DEFINE i == m + 1
             k == h + 1
  <2>2. i \in 1 .. Len(t) + 1 /\ k \in i .. Len(t) + 1 /\ \A p \in i .. k - 1 : At(t, p, S) = {}
    BY <1>3, <2>1
  <2>3. Whole(t, S, i) = SubSeq(t, i, k - 1) \o Whole(t, S, k)
    <3> HIDE DEF i, k
    <3> QED BY <2>2, WholeSkip
  <2> QED BY <1>3, <2>3
<1>6. Begins(SubSeq(t, h + 1, h), 1, S) = {}
  BY DEF Begins, At
<1>7. d.out = a /\ d.pending = SubSeq(t, h + 1, h)
  <2> DEFINE e == SubSeq(t, m + 1, m)
  <2>1. d = [out |-> a, pending |-> e] /\ e = SubSeq(t, h + 1, h)
    BY <1>1, <1>2
  <2> HIDE DEF d, a, e
  <2> QED BY <2>1
<1> HIDE DEF d
<1>8. Keeps(t, S, m + 1, h, h + 1, d)
  BY <1>4, <1>5, <1>6, <1>7 DEF Keeps
<1> QED BY <1>8 DEF d

\* With secrets, what may be the beginning of one is kept.
LEMMA RedactKeeps ==
  ASSUME NEW t, NEW S, GivenText(t, S), Free(S), Bounded(S), S # {},
         NEW q \in 1 .. Len(t) + 1, NEW m \in q - 1 .. Len(t), NEW h \in m .. Len(t)
  PROVE  \E p \in q .. h + 1 :
           Keeps(t, S, q, h, p, redact(SubSeq(t, q, m), SubSeq(t, m + 1, h), S))
<1> DEFINE d == redact(SubSeq(t, q, m), SubSeq(t, m + 1, h), S)
           u == SubSeq(t, q, h)
           g == Loop(u, S)[1]
           i == g.pos
<1>0. Len(t) \in Nat /\ t \in Seq(Characters) /\ q \in Int /\ m \in Int /\ h \in q - 1 .. Len(t) /\ h \in Int
  BY LenProperties DEF GivenText
<1>1. u \in Seq(Characters) /\ Len(u) = h - q + 1 /\ GivenText(u, S)
  BY <1>0, Slices DEF GivenText
<1>2. SubSeq(t, q, m) \o SubSeq(t, m + 1, h) = u
  BY <1>0, ConcatAdjacentSubSeq
<1>3. i \in 1 .. Len(u) + 1 /\ g.out \in Seq(Characters) /\ Begins(u, i, S) = {}
  <2>1. 1 \in 1 .. Len(u) + 1
    BY <1>0, <1>1
  <2>2. Settled(u, S, 1)
    <3> HIDE DEF u
    <3> QED BY <1>1, <2>1, LoopSettles
  <2> QED BY <2>2 DEF Settled
<1>4. PICK e \in i - 1 .. Len(u) :
        /\ d = [out |-> g.out \o SubSeq(u, i, e), pending |-> SubSeq(u, e + 1, Len(u))]
        /\ \A k \in i .. e : \A s \in S : k + Len(s.value) - 1 <= Len(u)
  <2> DEFINE v == SubSeq(t, q, m)
             w == SubSeq(t, m + 1, h)
  <2>1. u = v \o w /\ GivenText(u, S)
    BY <1>1, <1>2
  <2> HIDE DEF v, w, u
  <2>2. \E e \in Loop(u, S)[1].pos - 1 .. Len(u) :
           /\ redact(v, w, S) =
                [out |-> Loop(u, S)[1].out \o SubSeq(u, Loop(u, S)[1].pos, e),
                 pending |-> SubSeq(u, e + 1, Len(u))]
           /\ \A k \in Loop(u, S)[1].pos .. e : \A s \in S : k + Len(s.value) - 1 <= Len(u)
    BY <2>1, RedactSplits, ZenonT(60)
  <2> QED BY <2>2 DEF v, w
<1> DEFINE p == q + e
           c == q + i - 1
           a == SubSeq(u, i, e)
<1>5. /\ e \in Int /\ i \in Int /\ e + 1 \in i .. Len(u) + 1 /\ e + 1 \in 1 .. Len(u) + 1
      /\ p \in q .. h + 1 /\ c \in 1 .. Len(t) + 1 /\ p \in c .. Len(t) + 1 /\ p \in 1 .. Len(t) + 1
      /\ p - 1 = q + e - 1 /\ q + (e + 1) - 1 = p
  <2> DEFINE y == Len(u)
  <2>1. y = h - q + 1 /\ i \in 1 .. y + 1 /\ e \in i - 1 .. y
    BY <1>1, <1>3
  <2> HIDE DEF y, i
  <2>2. e \in Int /\ i \in Int /\ e + 1 \in i .. y + 1 /\ e + 1 \in 1 .. y + 1
    BY <1>0, <2>1
  <2>3. p \in q .. h + 1 /\ c \in 1 .. Len(t) + 1 /\ p \in c .. Len(t) + 1 /\ p \in 1 .. Len(t) + 1
    BY <1>0, <2>1
  <2>4. p - 1 = q + e - 1 /\ q + (e + 1) - 1 = p
    BY <1>0, <2>2
  <2> QED BY <2>2, <2>3, <2>4 DEF y
<1>6. a = SubSeq(t, c, p - 1) /\ a \in Seq(Characters)
  <2>1. i \in 1 .. h - q + 2 /\ e \in i - 1 .. h - q + 1
    <3>1. Len(u) + 1 = h - q + 2
      BY <1>0, <1>1
    <3> HIDE DEF i, u
    <3> QED BY <1>1, <1>3, <3>1
  <2>2. SubSeq(SubSeq(t, q, h), i, e) = SubSeq(t, q + i - 1, q + e - 1)
    <3> HIDE DEF i
    <3> QED BY <1>0, <2>1, SliceOfSlice
  <2>3. a \in Seq(Characters)
    <3> HIDE DEF u, i
    <3> QED BY <1>1, <1>3, Slices
  <2> QED BY <1>5, <2>2, <2>3
<1>7. SubSeq(u, e + 1, Len(u)) = SubSeq(t, p, h)
  <2> DEFINE x0 == e + 1
             y == Len(u)
  <2>1. x0 \in 1 .. h - q + 2 /\ y \in x0 - 1 .. h - q + 1 /\ q + x0 - 1 = p /\ q + y - 1 = h
    <3>1. y = h - q + 1 /\ x0 \in 1 .. y + 1 /\ q + x0 - 1 = p
      BY <1>1, <1>5
    <3> HIDE DEF x0, y, p
    <3> QED BY <1>0, <3>1
  <2>2. SubSeq(SubSeq(t, q, h), x0, y) = SubSeq(t, q + x0 - 1, q + y - 1)
    <3> HIDE DEF x0, y, p, c, i, u
    <3> QED BY <1>0, <2>1, SliceOfSlice
  <2>3. SubSeq(u, x0, y) = SubSeq(t, p, h)
    <3> HIDE DEF x0, y, p, c, i
    <3> QED BY <2>1, <2>2
  <2> QED BY <2>3
<1>8. Whole(t, S, q) = g.out \o Whole(t, S, c)
  <2>1. Follows(t, S, q, h, 1)
    <3>1. 1 \in 1 .. h - q + 2
      BY <1>0
    <3> QED BY <1>0, <3>1, LoopFollows
  <2>2. q + 1 - 1 = q
    BY <1>0
  <2> QED BY <2>1, <2>2 DEF Follows
<1>9. ASSUME NEW k \in c .. p - 1, NEW s \in At(t, k, S)
      PROVE  FALSE
  <2> DEFINE x0 == k - q + 1
             y == Len(u)
             b == Len(s.value)
  <2>1. x0 \in i .. e /\ x0 \in i .. y /\ x0 \in 1 .. h - q + 1 /\ q + x0 - 1 = k
    <3>1. y = h - q + 1 /\ i \in 1 .. y + 1 /\ e \in i - 1 .. y /\ e \in Int
      BY <1>1, <1>3, <1>5
    <3>2. k \in q + i - 1 .. q + e - 1
      OBVIOUS
    <3> HIDE DEF y, i
    <3> QED BY <1>0, <3>1, <3>2
  <2>2. s \in S
    BY DEF At
  <2>3. x0 + b - 1 <= h - q + 1
    <3>1. x0 + b - 1 <= y
      <4> HIDE DEF x0
      <4> QED BY <1>4, <2>1, <2>2
    <3> QED BY <1>1, <3>1
  <2>4. s \in At(u, x0, S)
    <3>1. x0 + Len(s.value) - 1 <= h - q + 1 /\ s \in At(t, q + x0 - 1, S)
      BY <2>1, <2>3
    <3> HIDE DEF x0
    <3> QED BY <1>0, <2>1, <3>1, AtSlice
  <2> QED BY <1>3, <2>1, <2>4 DEF Begins
<1>10. Whole(t, S, c) = a \o Whole(t, S, p)
  <2> HIDE DEF c, p
  <2>1. \A k \in c .. p - 1 : At(t, k, S) = {}
    BY <1>9
  <2>2. Whole(t, S, c) = SubSeq(t, c, p - 1) \o Whole(t, S, p)
    BY <1>5, <2>1, WholeSkip
  <2> QED BY <1>6, <2>2
<1> DEFINE o == g.out
           P == Whole(t, S, p)
<1>11. o \o (a \o P) = (o \o a) \o P /\ o \o a \in Seq(Characters)
  <2>1. o \in Seq(Characters) /\ a \in Seq(Characters) /\ P \in Seq(Characters)
    BY <1>3, <1>5, <1>6, WholeTyped
  <2> HIDE DEF o, a, P
  <2>2. Cat(o, Cat(a, P)) = Cat(Cat(o, a), P) /\ Cat(o, a) \in Seq(Characters)
    BY <2>1, ThreeCats
  <2> QED BY <2>2 DEF Cat
<1>12. Begins(SubSeq(t, p, h), 1, S) = {}
  <2>1. e + 1 \in i .. Len(u) + 1
    BY <1>5
  <2> DEFINE x0 == e + 1
  <2>2. Begins(SubSeq(u, x0, Len(u)), 1, S) = {}
    <3> HIDE DEF u, i, x0
    <3> QED BY <1>1, <1>3, <2>1, NoneInPart DEF x0
  <2> QED BY <1>7, <2>2
<1>13. d.out = o \o a /\ d.pending = SubSeq(t, p, h)
  <2> DEFINE x0 == o \o a
             y == SubSeq(t, p, h)
  <2>1. d = [out |-> x0, pending |-> y]
    BY <1>4, <1>7
  <2> HIDE DEF d, x0, y
  <2>2. d.out = x0 /\ d.pending = y
    BY <2>1
  <2> QED BY <2>2 DEF x0, y
<1>14. Whole(t, S, q) = (o \o a) \o P
  <2> HIDE DEF o, a, P, c
  <2> QED BY <1>8, <1>10, <1>11 DEF o, P
<1> HIDE DEF d, o, a, p, u
<1>15. Keeps(t, S, q, h, p, d)
  BY <1>11, <1>12, <1>13, <1>14 DEF Keeps, P
<1> QED BY <1>5, <1>15 DEF d

-----------------------------------------------------------------------------
(* Piece by piece *)

\* The pieces of a stream.
Pieces(c) == c \in Seq(Seq(Characters))

\* What has arrived grows by a piece.
LEMMA PutGrows ==
  ASSUME NEW c, Pieces(c)
  PROVE  /\ Put(c, 0) = << >>
         /\ \A n \in 0 .. Len(c) : Put(c, n) \in Seq(Characters)
         /\ \A n \in 1 .. Len(c) : Put(c, n) = Put(c, n - 1) \o c[n]
BY PartsGrow DEF Pieces

\* The stream is all of them.
LEMMA FlattenIsPut ==
  ASSUME NEW c, Pieces(c)
  PROVE  FlattenSeq(c) = Put(c, Len(c))
BY PartsFlatten DEF Pieces

\* What has arrived is the beginning of the stream, and a piece is what comes after it.
Begun(c, n) ==
  /\ Len(Put(c, n)) \in 0 .. Len(Put(c, Len(c)))
  /\ SubSeq(Put(c, Len(c)), 1, Len(Put(c, n))) = Put(c, n)

\* Two texts put together have the two in them.
LEMMA CatParts ==
  ASSUME NEW a \in Seq(Characters), NEW b \in Seq(Characters)
  PROVE  /\ Cat(a, b) \in Seq(Characters) /\ Len(Cat(a, b)) = Len(a) + Len(b)
         /\ SubSeq(Cat(a, b), 1, Len(a)) = a
         /\ SubSeq(Cat(a, b), Len(a) + 1, Len(a) + Len(b)) = b
<1> DEFINE d == a \o b
           x0 == Len(a)
           y == Len(b)
<1>1. x0 \in Nat /\ y \in Nat
  BY LenProperties
<1>2. d \in Seq(Characters) /\ Len(d) = x0 + y /\ \A i \in 1 .. x0 + y : d[i] = IF i <= x0 THEN a[i] ELSE b[i - x0]
  BY ConcatProperties
<1>3. 1 \in 1 .. Len(d) + 1 /\ x0 \in 1 - 1 .. Len(d) /\ x0 + 1 \in 1 .. Len(d) + 1 /\ x0 + y \in (x0 + 1) - 1 .. Len(d)
  <2>1. Len(d) = x0 + y
    BY <1>2
  <2> HIDE DEF d, x0, y
  <2> QED BY <1>1, <2>1
<1> HIDE DEF d
<1>4. SubSeq(d, 1, x0) = a
  <2> DEFINE v == SubSeq(d, 1, x0)
  <2>1. v \in Seq(Characters) /\ Len(v) = x0 - 1 + 1 /\ \A i \in 1 .. x0 - 1 + 1 : v[i] = d[1 + i - 1]
    <3> HIDE DEF x0, y
    <3> QED BY <1>2, <1>3, Slices
  <2> HIDE DEF v
  <2>2. Len(v) = Len(a)
    BY <1>1, <2>1
  <2>3. ASSUME NEW i \in 1 .. Len(v)
        PROVE  v[i] = a[i]
    <3>1. i \in 1 .. x0 - 1 + 1 /\ 1 + i - 1 = i /\ i \in 1 .. x0 + y /\ i <= x0
      BY <1>1, <2>2
    <3>2. v[i] = d[i] /\ d[i] = a[i]
      <4> HIDE DEF x0, y
      <4> QED BY <1>2, <2>1, <3>1
    <3> QED BY <3>2
  <2>4. v = a
    BY <2>1, <2>2, <2>3, SeqEqual
  <2> QED BY <2>4 DEF v
<1>5. SubSeq(d, x0 + 1, x0 + y) = b
  <2> DEFINE v == SubSeq(d, x0 + 1, x0 + y)
  <2>1. v \in Seq(Characters) /\ Len(v) = (x0 + y) - (x0 + 1) + 1 /\ \A i \in 1 .. (x0 + y) - (x0 + 1) + 1 : v[i] = d[(x0 + 1) + i - 1]
    <3> DEFINE e == x0 + 1
               h == x0 + y
    <3>1. e \in 1 .. Len(d) + 1 /\ h \in e - 1 .. Len(d)
      BY <1>3
    <3>2. SubSeq(d, e, h) \in Seq(Characters) /\ Len(SubSeq(d, e, h)) = h - e + 1
          /\ \A i \in 1 .. h - e + 1 : SubSeq(d, e, h)[i] = d[e + i - 1]
      <4> HIDE DEF e, h
      <4> QED BY <1>2, <3>1, Slices
    <3> QED BY <3>2
  <2> HIDE DEF v
  <2>2. (x0 + y) - (x0 + 1) + 1 = y
    <3> HIDE DEF x0, y
    <3> QED BY <1>1
  <2>3. Len(v) = Len(b)
    BY <2>1, <2>2
  <2>4. ASSUME NEW i \in 1 .. Len(v)
        PROVE  v[i] = b[i]
    <3>1. i \in 1 .. (x0 + y) - (x0 + 1) + 1 /\ (x0 + 1) + i - 1 = x0 + i /\ x0 + i \in 1 .. x0 + y /\ ~(x0 + i <= x0) /\ (x0 + i) - x0 = i
      <4>1. i \in 1 .. y
        BY <2>3
      <4> HIDE DEF x0, y
      <4> QED BY <1>1, <2>2, <4>1
    <3>2. v[i] = d[x0 + i] /\ d[x0 + i] = b[(x0 + i) - x0]
      <4> HIDE DEF x0, y
      <4> QED BY <1>2, <2>1, <3>1
    <3> QED BY <3>1, <3>2
  <2>5. v = b
    BY <2>1, <2>3, <2>4, SeqEqual
  <2> QED BY <2>5 DEF v
<1> QED BY <1>2, <1>4, <1>5 DEF d, Cat

\* Every piece is where it is in the stream, all pieces before it put together.
LEMMA BegunAll ==
  ASSUME NEW c, Pieces(c)
  PROVE  /\ \A n \in 0 .. Len(c) : Begun(c, n)
         /\ \A n \in 1 .. Len(c) :
              /\ Len(Put(c, n - 1)) \in 0 .. Len(Put(c, n))
              /\ c[n] = SubSeq(Put(c, Len(c)), Len(Put(c, n - 1)) + 1, Len(Put(c, n)))
<1> DEFINE N == Len(c)
           t == Put(c, N)
           Bad == {n \in 1 .. N + 1 : ~Begun(c, n - 1)}
<1>0. N \in Nat /\ \A n \in 1 .. N : c[n] \in Seq(Characters)
  BY LenProperties, ElementOfSeq DEF Pieces
<1>1. t \in Seq(Characters) /\ Len(t) \in Nat
  <2>1. N \in 0 .. N
    BY <1>0
  <2>2. t \in Seq(Characters)
    BY <2>1, PutGrows
  <2> QED BY <2>2, LenProperties
<1>2. Begun(c, N)
  <2>1. SubSeq(t, 1, Len(t)) = t
    <3> HIDE DEF t
    <3> QED BY <1>1, SubSeqFull
  <2>2. Len(t) \in 0 .. Len(t)
    <3> HIDE DEF t
    <3> QED BY <1>1
  <2> QED BY <2>1, <2>2 DEF Begun
<1>3. ASSUME NEW n \in 1 .. N
      PROVE  /\ Put(c, n) = Cat(Put(c, n - 1), c[n]) /\ Put(c, n) \in Seq(Characters) /\ Put(c, n - 1) \in Seq(Characters)
             /\ SubSeq(Put(c, n), 1, Len(Put(c, n - 1))) = Put(c, n - 1)
             /\ SubSeq(Put(c, n), Len(Put(c, n - 1)) + 1, Len(Put(c, n))) = c[n]
             /\ Len(Put(c, n - 1)) \in Nat /\ Len(Put(c, n)) \in Nat /\ Len(Put(c, n - 1)) <= Len(Put(c, n))
  <2> DEFINE a == Put(c, n - 1)
             b == c[n]
             d == Put(c, n)
  <2>1. n \in 0 .. N /\ n - 1 \in 0 .. N
    BY <1>0
  <2>2. a \in Seq(Characters) /\ b \in Seq(Characters) /\ d \in Seq(Characters) /\ d = Cat(a, b)
    BY <1>0, <2>1, PutGrows DEF Cat
  <2> HIDE DEF a, b, d
  <2>3. Len(d) = Len(a) + Len(b) /\ SubSeq(d, 1, Len(a)) = a /\ SubSeq(d, Len(a) + 1, Len(d)) = b
    <3>1. /\ Len(Cat(a, b)) = Len(a) + Len(b)
          /\ SubSeq(Cat(a, b), 1, Len(a)) = a
          /\ SubSeq(Cat(a, b), Len(a) + 1, Len(a) + Len(b)) = b
      BY <2>2, CatParts
    <3> QED BY <2>2, <3>1
  <2>4. Len(a) \in Nat /\ Len(b) \in Nat /\ Len(d) \in Nat /\ Len(a) <= Len(d)
    <3>1. Len(a) \in Nat /\ Len(b) \in Nat
      BY <2>2, LenProperties
    <3> QED BY <2>3, <3>1
  <2> QED BY <2>2, <2>3, <2>4 DEF a, b, d
<1>4. ASSUME NEW n \in 1 .. N, Begun(c, n)
      PROVE  Begun(c, n - 1)
  <2> DEFINE a == Put(c, n - 1)
             d == Put(c, n)
             x0 == Len(a)
             y == Len(d)
  <2>1. y \in 0 .. Len(t) /\ SubSeq(t, 1, y) = d
    BY <1>4 DEF Begun
  <2>2. x0 \in Nat /\ y \in Nat /\ x0 <= y /\ SubSeq(d, 1, x0) = a
    BY <1>3
  <2> HIDE DEF a, d, x0, y, t
  <2>3. x0 \in 0 .. Len(t)
    BY <1>1, <2>1, <2>2
  <2>4. SubSeq(SubSeq(t, 1, y), 1, x0) = SubSeq(t, 1 + 1 - 1, 1 + x0 - 1)
    <3>1. 1 \in 1 .. Len(t) + 1 /\ y \in 1 - 1 .. Len(t) /\ 1 \in 1 .. y - 1 + 2 /\ x0 \in 1 - 1 .. y - 1 + 1
      BY <1>1, <2>1, <2>2
    <3> QED BY <1>1, <3>1, SliceOfSlice
  <2>5. 1 + 1 - 1 = 1 /\ 1 + x0 - 1 = x0
    BY <2>2
  <2>6. SubSeq(t, 1, x0) = a
    BY <2>1, <2>2, <2>4, <2>5
  <2> QED BY <2>3, <2>6 DEF Begun, a, x0, t
<1>5. Bad = {}
  <2> SUFFICES ASSUME Bad # {} PROVE FALSE
    OBVIOUS
  <2>1. PICK k \in Bad : \A j \in Bad : j <= k
    <3>1. Bad \in SUBSET (1 .. N + 1) /\ N + 1 \in Nat
      BY <1>0
    <3> HIDE DEF Bad
    <3> QED BY <3>1, Greatest
  <2>2. k \in 1 .. N + 1 /\ ~Begun(c, k - 1) /\ k \in Nat
    BY <1>0, <2>1
  <2>3. k # N + 1
    <3>1. (N + 1) - 1 = N
      BY <1>0
    <3> QED BY <1>2, <2>2, <3>1
  <2>4. k \in 1 .. N /\ k + 1 \in 1 .. N + 1 /\ (k + 1) - 1 = k
    BY <1>0, <2>2, <2>3
  <2>5. k + 1 \notin Bad
    <3> HIDE DEF Bad
    <3> QED BY <2>1, <2>2
  <2>6. Begun(c, k)
    BY <2>4, <2>5
  <2> QED BY <1>4, <2>2, <2>4, <2>6
<1>6. ASSUME NEW n \in 0 .. N
      PROVE  Begun(c, n)
  <2>1. n + 1 \in 1 .. N + 1 /\ (n + 1) - 1 = n
    BY <1>0
  <2> QED BY <1>5, <2>1
<1>7. ASSUME NEW n \in 1 .. N
      PROVE  /\ Len(Put(c, n - 1)) \in 0 .. Len(Put(c, n))
             /\ c[n] = SubSeq(t, Len(Put(c, n - 1)) + 1, Len(Put(c, n)))
  <2> DEFINE a == Put(c, n - 1)
             d == Put(c, n)
             x0 == Len(a)
             y == Len(d)
  <2>1. y \in 0 .. Len(t) /\ SubSeq(t, 1, y) = d
    <3>1. n \in 0 .. N
      BY <1>0
    <3> QED BY <1>6, <3>1 DEF Begun
  <2>2. x0 \in Nat /\ y \in Nat /\ x0 <= y /\ SubSeq(d, x0 + 1, y) = c[n]
    BY <1>3
  <2> HIDE DEF a, d, x0, y, t
  <2> DEFINE e == x0 + 1
  <2>3. SubSeq(SubSeq(t, 1, y), e, y) = SubSeq(t, 1 + e - 1, 1 + y - 1)
    <3>1. 1 \in 1 .. Len(t) + 1 /\ y \in 1 - 1 .. Len(t) /\ e \in 1 .. y - 1 + 2 /\ y \in e - 1 .. y - 1 + 1
      BY <1>1, <2>1, <2>2
    <3> HIDE DEF e
    <3> QED BY <1>1, <3>1, SliceOfSlice
  <2>4. 1 + e - 1 = x0 + 1 /\ 1 + y - 1 = y /\ x0 \in 0 .. y
    BY <2>2
  <2>5. SubSeq(t, x0 + 1, y) = c[n]
    BY <2>1, <2>2, <2>3, <2>4
  <2> QED BY <2>4, <2>5 DEF a, d, x0, y
<1> QED BY <1>6, <1>7

\* The stream after a piece.
Fed(S, d, x0) ==
  LET e == redact(d.pending, x0, S) IN [out |-> d.out \o e.out, pending |-> e.pending]

StreamTurn(c, S, f, n) ==
  IF n = 0 THEN [out |-> << >>, pending |-> << >>] ELSE Fed(S, f[n - 1], c[n])

Stream(c, S) == CHOOSE f : f = [n \in 0 .. Len(c) |-> StreamTurn(c, S, f, n)]

\* There is a function that the stream defines.
LEMMA StreamIs ==
  ASSUME NEW c, Pieces(c), NEW S
  PROVE  /\ Streamed(c, S) = Stream(c, S)[Len(c)].out \o Stream(c, S)[Len(c)].pending
         /\ \A n \in 0 .. Len(c) : Stream(c, S)[n] = StreamTurn(c, S, Stream(c, S), n)
<1> DEFINE N == Len(c)
           Upto(n, f) == DOMAIN f = 0 .. N /\ \A i \in 0 .. n : f[i] = StreamTurn(c, S, f, i)
           Bad == {n \in 0 .. N : ~\E f : Upto(n, f)}
<1>0. N \in Nat
  BY LenProperties DEF Pieces
<1>a. Streamed(c, S) = Stream(c, S)[N].out \o Stream(c, S)[N].pending
  BY DEF Streamed, Stream, StreamTurn, Fed
<1> HIDE DEF N
<1>1. \E f : Upto(0, f)
  <2> DEFINE v == StreamTurn(c, S, [i \in 0 .. N |-> 0], 0)
  <2>1. \A f : StreamTurn(c, S, f, 0) = v
    BY DEF StreamTurn
  <2> HIDE DEF v
  <2> DEFINE g == [i \in 0 .. N |-> v]
  <2>2. Upto(0, g)
    <3>1. DOMAIN g = 0 .. N /\ g[0] = v
      BY <1>0
    <3> HIDE DEF g
    <3>2. g[0] = StreamTurn(c, S, g, 0)
      BY <2>1, <3>1
    <3>3. \A i \in 0 .. 0 : i = 0
      OBVIOUS
    <3> QED BY <3>1, <3>2, <3>3
  <2> HIDE DEF Upto
  <2> QED BY <2>2
<1>2. ASSUME NEW n \in 1 .. N, NEW f, Upto(n - 1, f)
      PROVE  \E g : Upto(n, g)
  <2> DEFINE v == StreamTurn(c, S, f, n)
  <2> HIDE DEF v
  <2> DEFINE g == [i \in 0 .. N |-> IF i = n THEN v ELSE f[i]]
  <2>1. ASSUME NEW i \in 0 .. n
        PROVE  g[i] = StreamTurn(c, S, g, i)
    <3>1. i \in 0 .. N /\ (i # n => i \in 0 .. n - 1)
      BY <1>0
    <3>2. i # 0 => (i - 1 \in 0 .. N /\ i - 1 # n)
      BY <1>0
    <3>3. i # 0 => g[i - 1] = f[i - 1]
      BY <3>2
    <3>4. StreamTurn(c, S, g, i) = StreamTurn(c, S, f, i)
      <4> HIDE DEF g
      <4> QED BY <3>3 DEF StreamTurn
    <3>5. CASE i = n
      BY <3>1, <3>4, <3>5 DEF v
    <3>6. CASE i # n
      <4>1. g[i] = f[i]
        BY <3>1, <3>6
      <4>2. f[i] = StreamTurn(c, S, f, i)
        <5> HIDE DEF g
        <5> QED BY <1>2, <3>1, <3>6
      <4> QED BY <3>4, <4>1, <4>2
    <3> QED BY <3>5, <3>6
  <2>2. Upto(n, g)
    <3>1. DOMAIN g = 0 .. N
      OBVIOUS
    <3> HIDE DEF g
    <3> QED BY <2>1, <3>1
  <2> HIDE DEF Upto
  <2> QED BY <2>2
<1> HIDE DEF Upto
<1>3. Bad = {}
  <2> SUFFICES ASSUME Bad # {} PROVE FALSE
    OBVIOUS
  <2>1. PICK k \in Bad : \A j \in Bad : k <= j
    <3>1. Bad \in SUBSET Nat
      BY <1>0
    <3> HIDE DEF Bad
    <3> QED BY <3>1, Least
  <2>2. k \in 0 .. N /\ ~\E f : Upto(k, f)
    BY <2>1
  <2>3. k # 0
    BY <1>1, <2>2
  <2>4. k \in 1 .. N /\ k - 1 \in 0 .. N /\ k \in Nat
    BY <1>0, <2>2, <2>3
  <2>5. k - 1 \notin Bad
    <3> HIDE DEF Bad
    <3> QED BY <2>1, <2>4
  <2>6. \E f : Upto(k - 1, f)
    BY <2>4, <2>5
  <2> QED BY <1>2, <2>2, <2>4, <2>6
<1>4. PICK f : Upto(N, f)
  <2>1. N \in 0 .. N
    BY <1>0
  <2> QED BY <1>3, <2>1
<1> DEFINE h == [i \in 0 .. N |-> f[i]]
<1>5. ASSUME NEW i \in 0 .. N
      PROVE  f[i] = StreamTurn(c, S, h, i)
  <2>1. f[i] = StreamTurn(c, S, f, i)
    BY <1>4 DEF Upto
  <2>2. i # 0 => h[i - 1] = f[i - 1]
    <3>1. i # 0 => i - 1 \in 0 .. N
      BY <1>0
    <3> QED BY <3>1
  <2> HIDE DEF h
  <2> QED BY <2>1, <2>2 DEF StreamTurn
<1>6. h = [i \in 0 .. N |-> StreamTurn(c, S, h, i)]
  BY <1>5
<1>7. Stream(c, S) = CHOOSE e : e = [i \in 0 .. N |-> StreamTurn(c, S, e, i)]
  BY DEF Stream, N
<1>8. Stream(c, S) = [i \in 0 .. N |-> StreamTurn(c, S, Stream(c, S), i)]
  <2> HIDE DEF h
  <2> QED BY <1>6, <1>7
<1>9. ASSUME NEW i \in 0 .. N
      PROVE  Stream(c, S)[i] = StreamTurn(c, S, Stream(c, S), i)
  BY <1>8
<1> QED BY <1>a, <1>9 DEF N

\* What goes out of one piece and what goes out of the next are what goes out of both.
LEMMA KeepsBoth ==
  ASSUME NEW t, NEW S, GivenText(t, S), NEW q \in 1 .. Len(t) + 1, NEW p \in 1 .. Len(t) + 1, NEW r \in 1 .. Len(t) + 1,
         NEW m, NEW h, NEW d, NEW e,
         Keeps(t, S, q, m, p, d), Keeps(t, S, p, h, r, e)
  PROVE  Keeps(t, S, q, h, r, [out |-> d.out \o e.out, pending |-> e.pending])
<1> DEFINE a == d.out
           b == e.out
           W == Whole(t, S, r)
           y == e.pending
           x0 == a \o b
           f == [out |-> x0, pending |-> y]
<1>1. a \in Seq(Characters) /\ b \in Seq(Characters) /\ W \in Seq(Characters)
  BY WholeTyped DEF Keeps
<1>2. Cat(a, Cat(b, W)) = Cat(Cat(a, b), W) /\ Cat(a, b) \in Seq(Characters)
  <2> HIDE DEF a, b, W
  <2> QED BY <1>1, ThreeCats
<1>3. Whole(t, S, q) = a \o Whole(t, S, p) /\ Whole(t, S, p) = b \o W
  BY DEF Keeps
<1>4. Whole(t, S, q) = x0 \o W /\ x0 \in Seq(Characters)
  <2> HIDE DEF a, b, W
  <2> QED BY <1>2, <1>3 DEF Cat
<1>5. f.out = x0 /\ f.pending = y
  <2> HIDE DEF x0, y
  <2> QED OBVIOUS
<1>6. y = SubSeq(t, r, h) /\ Begins(SubSeq(t, r, h), 1, S) = {} /\ (S = {} => r = h + 1)
  BY DEF Keeps
<1> HIDE DEF f, x0, y
<1>7. Keeps(t, S, q, h, r, f)
  BY <1>4, <1>5, <1>6 DEF Keeps, W
<1> QED BY <1>7 DEF f, x0, y

\* After every piece, what has gone out is the whole up to some place, and what has arrived
\* after it is kept.
InStep(c, S, n) ==
  \E q \in 1 .. Len(Put(c, n)) + 1 :
    Keeps(Put(c, Len(c)), S, 1, Len(Put(c, n)), q, Stream(c, S)[n])

\* Before the first piece nothing has gone out and nothing is kept.
LEMMA KeptFirst ==
  ASSUME NEW c, Pieces(c), NEW S, GivenText(Put(c, Len(c)), S)
  PROVE  InStep(c, S, 0)
<1> DEFINE t == Put(c, Len(c))
           d == Stream(c, S)[0]
           W == Whole(t, S, 1)
<1>0. Len(c) \in Nat /\ Len(t) \in Nat /\ t \in Seq(Characters)
  BY LenProperties DEF GivenText, Pieces
<1>1. Put(c, 0) = << >> /\ Len(Put(c, 0)) = 0
  BY EmptySeq, PutGrows
<1>2. d.out = << >> /\ d.pending = << >>
  <2>1. 0 \in 0 .. Len(c)
    BY <1>0
  <2>2. d = [out |-> << >>, pending |-> << >>]
    BY <2>1, StreamIs DEF StreamTurn
  <2> HIDE DEF d
  <2> QED BY <2>2
<1> HIDE DEF t, d
<1>3. SubSeq(t, 1, 0) = << >> /\ << >> \in Seq(Characters)
  BY SubSeqEmpty, EmptySeq
<1>4. W = << >> \o W
  <2>1. 1 \in 1 .. Len(t) + 1
    BY <1>0
  <2>2. W \in Seq(Characters)
    BY <2>1, WholeTyped DEF t
  <2> HIDE DEF W
  <2> QED BY <2>2, ConcatEmptySeq
<1>5. Begins(<< >>, 1, S) = {}
  <2>1. 1 .. Len(<< >>) = {}
    BY EmptySeq
  <2> QED BY <2>1 DEF Begins
<1>6. Keeps(t, S, 1, 0, 1, d)
  <2> DEFINE o == d.out
             y == d.pending
  <2>1. o \in Seq(Characters) /\ y = SubSeq(t, 1, 0)
    BY <1>2, <1>3
  <2>2. Whole(t, S, 1) = o \o Whole(t, S, 1)
    BY <1>2, <1>4
  <2>3. Begins(SubSeq(t, 1, 0), 1, S) = {}
    BY <1>3, <1>5
  <2>4. S = {} => 1 = 0 + 1
    OBVIOUS
  <2> QED BY <2>1, <2>2, <2>3, <2>4 DEF Keeps
<1>7. 1 \in 1 .. 0 + 1
  OBVIOUS
<1> QED BY <1>1, <1>6, <1>7 DEF InStep, t, d

\* A piece more, with what was kept of those before it.
LEMMA KeptNext ==
  ASSUME NEW c, Pieces(c), NEW S, GivenText(Put(c, Len(c)), S), Free(S), Bounded(S),
         NEW n \in 1 .. Len(c), InStep(c, S, n - 1)
  PROVE  InStep(c, S, n)
<1> DEFINE t == Put(c, Len(c))
           m == Len(Put(c, n - 1))
           h == Len(Put(c, n))
           d == Stream(c, S)[n - 1]
<1>0. Len(c) \in Nat /\ Len(t) \in Nat /\ t \in Seq(Characters)
  BY LenProperties DEF GivenText, Pieces
<1>1. m \in 0 .. h /\ h \in 0 .. Len(t) /\ c[n] = SubSeq(t, m + 1, h)
  <2>1. n \in 0 .. Len(c)
    BY <1>0
  <2> QED BY <2>1, BegunAll DEF Begun
<1>2. PICK q \in 1 .. m + 1 : Keeps(t, S, 1, m, q, d)
  BY DEF InStep
<1> DEFINE e == redact(SubSeq(t, q, m), SubSeq(t, m + 1, h), S)
<1>3. Stream(c, S)[n] = [out |-> d.out \o e.out, pending |-> e.pending]
  <2>1. n \in 0 .. Len(c) /\ n # 0
    BY <1>0
  <2>2. Stream(c, S)[n] = Fed(S, d, c[n])
    BY <2>1, StreamIs DEF StreamTurn
  <2>3. d.pending = SubSeq(t, q, m)
    BY <1>2 DEF Keeps
  <2> HIDE DEF d, t, m, h
  <2> QED BY <1>1, <2>2, <2>3 DEF Fed
<1> HIDE DEF t, m, h, d
<1>4. q \in 1 .. Len(t) + 1 /\ m \in q - 1 .. Len(t) /\ h \in m .. Len(t) /\ m \in 0 .. Len(t) /\ q \in Int /\ h \in Nat
  BY <1>0, <1>1, <1>2
<1>5. \E p \in q .. h + 1 : Keeps(t, S, q, h, p, e)
  <2>1. CASE S = {}
    <3>1. q = m + 1
      BY <1>2, <2>1 DEF Keeps
    <3> DEFINE y == redact(SubSeq(t, m + 1, m), SubSeq(t, m + 1, h), S)
    <3>2. Keeps(t, S, m + 1, h, h + 1, y)
      BY <1>4, <2>1, RedactPasses DEF t
    <3>3. h + 1 \in m + 1 .. h + 1
      BY <1>1, <1>4
    <3>4. Keeps(t, S, q, h, h + 1, e) /\ h + 1 \in q .. h + 1
      BY <3>1, <3>2, <3>3
    <3> HIDE DEF e
    <3> QED BY <3>4
  <2>2. CASE S # {}
    <3>1. GivenText(t, S)
      BY DEF t
    <3> QED BY <1>4, <2>2, <3>1, RedactKeeps
  <2> QED BY <2>1, <2>2
<1> HIDE DEF e
<1>6. PICK p \in q .. h + 1 : Keeps(t, S, q, h, p, e)
  BY <1>5
<1>7. p \in 1 .. h + 1 /\ p \in 1 .. Len(t) + 1 /\ 1 \in 1 .. Len(t) + 1
  BY <1>0, <1>1, <1>2, <1>4, <1>6
<1> DEFINE f == [out |-> d.out \o e.out, pending |-> e.pending]
<1>8. Keeps(t, S, 1, h, p, f)
  <2>1. GivenText(t, S)
    BY DEF t
  <2> QED BY <1>2, <1>4, <1>6, <1>7, <2>1, KeepsBoth
<1>9. Stream(c, S)[n] = f
  BY <1>3
<1> HIDE DEF f
<1> QED BY <1>7, <1>8, <1>9 DEF InStep, t, h

\* However a stream is cut, it becomes the whole.
LEMMA StreamedIsWhole ==
  ASSUME NEW c, Pieces(c), NEW S, GivenText(Put(c, Len(c)), S), Free(S), Bounded(S)
  PROVE  Streamed(c, S) = Whole(Put(c, Len(c)), S, 1)
<1> DEFINE N == Len(c)
           t == Put(c, N)
           d == Stream(c, S)[N]
           Bad == {n \in 0 .. N : ~InStep(c, S, n)}
<1>0. N \in Nat /\ Len(t) \in Nat /\ t \in Seq(Characters)
  BY LenProperties DEF GivenText, Pieces
<1>1. Bad = {}
  <2> SUFFICES ASSUME Bad # {} PROVE FALSE
    OBVIOUS
  <2>1. PICK k \in Bad : \A j \in Bad : k <= j
    <3>1. Bad \in SUBSET Nat
      BY <1>0
    <3> HIDE DEF Bad
    <3> QED BY <3>1, Least
  <2>2. k \in 0 .. N /\ ~InStep(c, S, k)
    BY <2>1
  <2>3. k # 0
    BY <2>2, KeptFirst
  <2>4. k \in 1 .. N /\ k - 1 \in 0 .. N /\ k \in Nat
    BY <1>0, <2>2, <2>3
  <2>5. k - 1 \notin Bad
    <3> HIDE DEF Bad
    <3> QED BY <2>1, <2>4
  <2>6. InStep(c, S, k - 1)
    BY <2>4, <2>5
  <2> QED BY <2>2, <2>4, <2>6, KeptNext
<1>2. N \in 0 .. N
  BY <1>0
<1>3. PICK q \in 1 .. Len(t) + 1 : Keeps(t, S, 1, Len(t), q, d)
  BY <1>1, <1>2 DEF InStep
<1>4. d.pending = SubSeq(t, q, Len(t)) /\ Begins(SubSeq(t, q, Len(t)), 1, S) = {} /\ Whole(t, S, 1) = d.out \o Whole(t, S, q)
  BY <1>3 DEF Keeps
<1>5. Begins(t, q, S) = {}
  <2> DEFINE u == SubSeq(t, q, Len(t))
  <2>1. Len(t) \in q - 1 .. Len(t) /\ q \in Int
    <3> HIDE DEF t
    <3> QED BY <1>0
  <2>2. Len(u) = Len(t) - q + 1
    <3> HIDE DEF t
    <3> QED BY <1>0, <2>1, Slices
  <2>3. ASSUME NEW p \in q .. Len(t), NEW s \in At(t, p, S)
        PROVE  FALSE
    <3> DEFINE k == p - q + 1
    <3>1. k \in 1 .. Len(t) - q + 1 /\ q + k - 1 = p /\ p \in 1 .. Len(t)
      <4> HIDE DEF t
      <4> QED BY <1>0, <2>1
    <3>2. s \in S /\ p + Len(s.value) - 1 <= Len(t)
      BY DEF At
    <3> DEFINE b == Len(s.value)
    <3>3. b \in Nat
      BY <3>2, SecretTyped
    <3>4. k + b - 1 <= Len(t) - q + 1
      <4>1. p + b - 1 <= Len(t)
        BY <3>2
      <4> HIDE DEF t, b
      <4> QED BY <1>0, <2>1, <3>3, <4>1
    <3>5. s \in At(u, k, S)
      <4>1. s \in At(t, q + k - 1, S) /\ k + Len(s.value) - 1 <= Len(t) - q + 1
        BY <3>1, <3>4
      <4>2. GivenText(t, S)
        OBVIOUS
      <4> HIDE DEF k, t
      <4> QED BY <2>1, <3>1, <4>1, <4>2, AtSlice
    <3> QED BY <1>4, <2>2, <3>1, <3>5 DEF Begins
  <2> QED BY <2>3 DEF Begins
<1>6. Whole(t, S, q) = SubSeq(t, q, Len(t))
  BY <1>5, WholeNone
<1>7. Streamed(c, S) = d.out \o d.pending
  BY StreamIs
<1> HIDE DEF d
<1> QED BY <1>4, <1>6, <1>7

\* A stream of one piece.
LEMMA OnePiece ==
  ASSUME NEW t \in Seq(Characters)
  PROVE  Pieces(<<t>>) /\ Len(<<t>>) = 1 /\ Put(<<t>>, Len(<<t>>)) = t
<1> DEFINE c == <<t>>
<1>1. Pieces(c) /\ Len(c) = 1 /\ c[1] = t
  BY DEF Pieces
<1> HIDE DEF c
<1>2. Flat(c)[1] = FlatTurn(c, Flat(c), 1)
  <2>1. 1 \in 1 .. Len(c)
    BY <1>1
  <2> QED BY <1>1, <2>1, FlatIs DEF Pieces
<1>3. Put(c, Len(c)) = t
  BY <1>1, <1>2 DEF Put, FlatTurn
<1> QED BY <1>1, <1>3 DEF c

\* So it becomes what it becomes in one piece.
LEMMA StreamsAlike ==
  ASSUME NEW c, Pieces(c), NEW S, S \subseteq Secrets, Accepted(S), IsFiniteSet(S), Free(S)
  PROVE  Streamed(c, S) = Streamed(<<FlattenSeq(c)>>, S) /\ FlattenSeq(c) \in Seq(Characters)
<1> DEFINE t == Put(c, Len(c))
<1>1. t \in Seq(Characters) /\ FlattenSeq(c) = t
  <2>1. Len(c) \in Nat
    BY LenProperties DEF Pieces
  <2>2. Len(c) \in 0 .. Len(c)
    BY <2>1
  <2> QED BY <2>2, PutGrows, FlattenIsPut
<1>2. GivenText(t, S)
  BY <1>1 DEF GivenText
<1>3. Bounded(S)
  BY <1>2, LongestBounds
<1>4. Streamed(c, S) = Whole(t, S, 1)
  BY <1>2, <1>3, StreamedIsWhole
<1> DEFINE o == <<t>>
<1>5. Pieces(o) /\ Put(o, Len(o)) = t
  <2> HIDE DEF t
  <2> QED BY <1>1, OnePiece
<1>6. Streamed(o, S) = Whole(t, S, 1)
  <2> HIDE DEF o, t
  <2> QED BY <1>2, <1>3, <1>5, StreamedIsWhole
<1> QED BY <1>1, <1>4, <1>6

-----------------------------------------------------------------------------
(* No secret comes out *)

\* Texts of one and of two characters.
LEMMA Single ==
  ASSUME NEW x0 \in Characters
  PROVE  <<x0>> \in Seq(Characters) /\ Len(<<x0>>) = 1 /\ <<x0>>[1] = x0
OBVIOUS

\* A text of two characters.
LEMMA Double ==
  ASSUME NEW x0 \in Characters, NEW y \in Characters
  PROVE  <<x0, y>> \in Seq(Characters)
OBVIOUS

\* A text has a value in it when it has its characters, one after the other.
Matches(w, v, k) == \A i \in 1 .. Len(v) : w[k + i - 1] = v[i]

\* That is Within.
LEMMA WithinAt ==
  ASSUME NEW w \in Seq(Characters), NEW v \in Seq(Characters)
  PROVE  Within(w, v) <=> \E k \in 1 .. Len(w) - Len(v) + 1 : Matches(w, v, k)
<1> DEFINE x0 == Len(w)
           y == Len(v)
<1>0. x0 \in Nat /\ y \in Nat
  BY LenProperties
<1>1. ASSUME NEW k \in 1 .. x0 - y + 1
      PROVE  SubSeq(w, k, k + y - 1) = v <=> Matches(w, v, k)
  <2> DEFINE e == k + y - 1
             u == SubSeq(w, k, e)
  <2>1. k \in 1 .. x0 + 1 /\ e \in k - 1 .. x0 /\ e - k + 1 = y /\ k \in Int
    <3> HIDE DEF x0, y
    <3> QED BY <1>0
  <2>2. u \in Seq(Characters) /\ Len(u) = e - k + 1 /\ \A i \in 1 .. e - k + 1 : u[i] = w[k + i - 1]
    <3> HIDE DEF e
    <3> QED BY <2>1, Slices
  <2>3. Len(u) = Len(v) /\ \A i \in 1 .. Len(v) : u[i] = w[k + i - 1]
    <3> HIDE DEF e, u
    <3> QED BY <2>1, <2>2
  <2> HIDE DEF u
  <2>4. Matches(w, v, k) => u = v
    <3> SUFFICES ASSUME Matches(w, v, k) PROVE u = v
      OBVIOUS
    <3>1. \A i \in 1 .. Len(u) : u[i] = v[i]
      BY <2>3 DEF Matches
    <3> QED BY <2>2, <2>3, <3>1, SeqEqual
  <2>5. u = v => Matches(w, v, k)
    BY <2>3 DEF Matches
  <2> QED BY <2>4, <2>5 DEF u, e
<1> QED BY <1>1 DEF Within

\* A value with a character that it does not have between two texts is in one of them.
LEMMA NotAcross ==
  ASSUME NEW a \in Seq(Characters), NEW x0 \in Characters, NEW b \in Seq(Characters),
         NEW v \in Seq(Characters), Len(v) >= 1, \A i \in 1 .. Len(v) : v[i] # x0,
         Within((a \o <<x0>>) \o b, v)
  PROVE  Within(a, v) \/ Within(b, v)
<1> DEFINE m == a \o <<x0>>
           w == m \o b
           A == Len(a)
           B == Len(b)
           V == Len(v)
<1>0. A \in Nat /\ B \in Nat /\ V \in Nat
  BY LenProperties
<1>1. <<x0>> \in Seq(Characters) /\ Len(<<x0>>) = 1 /\ <<x0>>[1] = x0
  BY Single
<1>2. m \in Seq(Characters) /\ Len(m) = A + 1 /\ \A i \in 1 .. A + 1 : m[i] = IF i <= A THEN a[i] ELSE x0
  <2> DEFINE o == <<x0>>
  <2>1. o \in Seq(Characters) /\ Len(o) = 1 /\ o[1] = x0
    BY <1>1
  <2> HIDE DEF o
  <2>2. a \o o \in Seq(Characters) /\ Len(a \o o) = A + Len(o)
        /\ \A i \in 1 .. A + Len(o) : (a \o o)[i] = IF i <= A THEN a[i] ELSE o[i - A]
    BY <2>1, ConcatProperties, ZenonT(60)
  <2> DEFINE z == a \o o
  <2>3. z \in Seq(Characters) /\ Len(z) = A + 1 /\ \A i \in 1 .. A + 1 : z[i] = IF i <= A THEN a[i] ELSE o[i - A]
    BY <2>1, <2>2
  <2> HIDE DEF z, A
  <2>4. ASSUME NEW i \in 1 .. A + 1
        PROVE  z[i] = IF i <= A THEN a[i] ELSE x0
    <3>1. CASE i <= A
      BY <2>3, <3>1
    <3>2. CASE ~(i <= A)
      <4>1. i - A = 1
        BY <1>0, <3>2
      <4> QED BY <2>1, <2>3, <3>2, <4>1
    <3> QED BY <3>1, <3>2
  <2> QED BY <2>3, <2>4 DEF z, o
<1> HIDE DEF m
<1>3. w \in Seq(Characters) /\ Len(w) = A + 1 + B /\ \A i \in 1 .. A + 1 + B : w[i] = IF i <= A + 1 THEN m[i] ELSE b[i - (A + 1)]
  <2>1. w \in Seq(Characters) /\ Len(w) = Len(m) + B /\ \A i \in 1 .. Len(m) + B : w[i] = IF i <= Len(m) THEN m[i] ELSE b[i - Len(m)]
    BY <1>2, ConcatProperties, ZenonT(60)
  <2> HIDE DEF w, A, B
  <2> QED BY <1>2, <2>1
<1> HIDE DEF w
<1>4. PICK k \in 1 .. Len(w) - Len(v) + 1 : Matches(w, v, k)
  <2>1. Within(w, v)
    BY DEF w, m
  <2> QED BY <1>3, <2>1, WithinAt
<1>5. k \in 1 .. A + 1 + B - V + 1 /\ k \in Int /\ V >= 1
  BY <1>0, <1>3
<1>6. \A i \in 1 .. V : w[k + i - 1] = v[i]
  BY <1>4 DEF Matches
<1>7. CASE k + V - 1 <= A
  <2>1. k \in 1 .. A - V + 1
    <3> HIDE DEF A, B, V
    <3> QED BY <1>0, <1>5, <1>7
  <2>2. ASSUME NEW i \in 1 .. V
        PROVE  a[k + i - 1] = v[i]
    <3> HIDE DEF A, B, V
    <3>1. k + i - 1 \in 1 .. A + 1 + B /\ k + i - 1 <= A + 1 /\ k + i - 1 <= A /\ k + i - 1 \in 1 .. A + 1
      BY <1>0, <1>5, <1>7
    <3>2. w[k + i - 1] = m[k + i - 1] /\ m[k + i - 1] = a[k + i - 1]
      BY <1>2, <1>3, <3>1
    <3> QED BY <1>6, <3>2
  <2>3. Matches(a, v, k)
    BY <2>2 DEF Matches
  <2>4. Within(a, v)
    BY <2>1, <2>3, WithinAt
  <2> QED BY <2>4
<1>8. CASE k >= A + 2
  <2> DEFINE l == k - (A + 1)
  <2>1. l \in 1 .. B - V + 1
    <3> HIDE DEF A, B, V
    <3> QED BY <1>0, <1>5, <1>8
  <2>2. ASSUME NEW i \in 1 .. V
        PROVE  b[l + i - 1] = v[i]
    <3> HIDE DEF A, B, V
    <3>1. k + i - 1 \in 1 .. A + 1 + B /\ ~(k + i - 1 <= A + 1) /\ (k + i - 1) - (A + 1) = l + i - 1
      BY <1>0, <1>5, <1>8
    <3>2. w[k + i - 1] = b[l + i - 1]
      <4> HIDE DEF l
      <4> QED BY <1>3, <3>1
    <3> QED BY <1>6, <3>2
  <2>3. Matches(b, v, l)
    BY <2>2 DEF Matches
  <2> HIDE DEF l
  <2>4. Within(b, v)
    BY <2>1, <2>3, WithinAt
  <2> QED BY <2>4
<1>9. CASE ~(k + V - 1 <= A) /\ ~(k >= A + 2)
  <2> DEFINE i == A + 2 - k
  <2>1. i \in 1 .. V /\ k + i - 1 = A + 1 /\ A + 1 \in 1 .. A + 1 + B /\ A + 1 \in 1 .. A + 1 /\ ~(A + 1 <= A)
    <3> HIDE DEF A, B, V
    <3> QED BY <1>0, <1>5, <1>9
  <2>2. w[A + 1] = x0
    <3> HIDE DEF A, B, V
    <3> DEFINE e == A + 1
    <3>1. e \in 1 .. A + 1 + B /\ e \in 1 .. A + 1 /\ ~(e <= A) /\ e <= A + 1
      BY <1>0, <2>1
    <3> HIDE DEF e
    <3>2. w[e] = m[e]
      BY <1>3, <3>1
    <3>3. m[e] = x0
      BY <1>2, <3>1
    <3> QED BY <3>2, <3>3 DEF e
  <2>3. v[i] = x0
    <3> HIDE DEF A, B, V, i
    <3> QED BY <1>6, <2>1, <2>2
  <2>4. v[i] # x0
    <3> HIDE DEF i
    <3> QED BY <2>1
  <2> QED BY <2>3, <2>4
<1> QED BY <1>7, <1>8, <1>9

\* A part of a text where no secret begins has no secret in it.
LEMMA SliceClean ==
  ASSUME NEW t, NEW S, GivenText(t, S), NEW q \in 1 .. Len(t) + 1, NEW m \in q - 1 .. Len(t),
         \A p \in q .. m : At(t, p, S) = {}, NEW s \in S
  PROVE  ~Within(SubSeq(t, q, m), s.value)
<1> DEFINE u == SubSeq(t, q, m)
           b == Len(s.value)
<1>0. Len(t) \in Nat /\ t \in Seq(Characters) /\ q \in Int /\ m \in Int /\ b \in Nat /\ b >= 1
  BY LenProperties, SecretTyped DEF GivenText
<1>1. Len(u) = m - q + 1
  BY <1>0, Slices
<1> SUFFICES ASSUME NEW k \in 1 .. Len(u) - b + 1, SubSeq(u, k, k + b - 1) = s.value PROVE FALSE
  BY DEF Within
<1>2. k \in 1 .. m - q + 1 /\ k + b - 1 <= m - q + 1 /\ q + k - 1 \in q .. m
  <2> HIDE DEF b, u
  <2> QED BY <1>0, <1>1
<1>3. k + b - 1 <= Len(u)
  <2> HIDE DEF b, u
  <2> QED BY <1>1, <1>2
<1>4. s \in At(u, k, S)
  BY <1>3 DEF At
<1>5. s \in At(t, q + k - 1, S)
  BY <1>2, <1>4, AtSlice
<1> QED BY <1>2, <1>5

\* The whole has no secret in it.
Clean(t, S, i) == \A s \in S : ~Within(Whole(t, S, i), s.value)

\* No secret is in the whole, from any place on: what is left as it is has none, and none
\* reaches over a name.
LEMMA WholeClean ==
  ASSUME NEW t, NEW S, GivenText(t, S), Apart(S)
  PROVE  \A i \in 1 .. Len(t) + 1 : Clean(t, S, i)
<1> DEFINE Bad == {i \in 1 .. Len(t) + 1 : ~Clean(t, S, i)}
<1>0. Len(t) \in Nat /\ t \in Seq(Characters)
  BY LenProperties DEF GivenText
<1> SUFFICES ASSUME Bad # {} PROVE FALSE
  OBVIOUS
<1>1. PICK i \in Bad : \A k \in Bad : k <= i
  <2>1. Bad \in SUBSET (1 .. Len(t) + 1) /\ Len(t) + 1 \in Nat
    BY <1>0
  <2> HIDE DEF Bad
  <2> QED BY <2>1, Greatest
<1>2. i \in 1 .. Len(t) + 1 /\ ~Clean(t, S, i) /\ i \in Nat
  BY <1>0, <1>1
<1>3. PICK s \in S : Within(Whole(t, S, i), s.value)
  BY <1>2 DEF Clean
<1>4. s.value \in Seq(Characters) /\ Len(s.value) >= 1
  BY SecretTyped
<1>5. CASE Begins(t, i, S) = {}
  <2>1. Whole(t, S, i) = SubSeq(t, i, Len(t))
    BY <1>2, <1>5, WholeNone
  <2>2. \A p \in i .. Len(t) : At(t, p, S) = {}
    BY <1>5 DEF Begins
  <2>3. Len(t) \in i - 1 .. Len(t)
    BY <1>0, <1>2
  <2>4. ~Within(SubSeq(t, i, Len(t)), s.value)
    BY <1>2, <2>2, <2>3, SliceClean
  <2> QED BY <1>3, <2>1, <2>4
<1>6. CASE Begins(t, i, S) # {}
  <2> DEFINE j == NextAt(t, i, S)
             n == After(t, i, S)
             l == LongestAt(t, j, S)
             a == SubSeq(t, i, j - 1)
             b == Whole(t, S, n)
             x0 == l.name
             v == s.value
  <2>1. /\ n \in i + 1 .. Len(t) + 1 /\ j \in i .. Len(t) /\ a \in Seq(Characters) /\ x0 \in Characters
        /\ Whole(t, S, i) = (a \o <<x0>>) \o b
    BY <1>2, <1>6, WholeNext
  <2>2. (\A p \in i .. j - 1 : At(t, p, S) = {}) /\ l \in S
    BY <1>2, <1>6, NextFound
  <2>3. \A k \in 1 .. Len(v) : v[k] # x0
    <3>1. DOMAIN v = 1 .. Len(v)
      BY <1>4, LenProperties
    <3> QED BY <2>2, <3>1 DEF Apart
  <2> HIDE DEF j, n, l
  <2>4. n \in 1 .. Len(t) + 1 /\ n > i /\ n \in Nat /\ j - 1 \in i - 1 .. Len(t)
    BY <1>0, <1>2, <2>1
  <2>5. b \in Seq(Characters)
    BY <2>4, WholeTyped
  <2>6. Within(a, v) \/ Within(b, v)
    <3>1. Within((a \o <<x0>>) \o b, v)
      BY <1>3, <2>1
    <3>2. v \in Seq(Characters) /\ Len(v) >= 1
      BY <1>4
    <3> HIDE DEF a, b, v, x0
    <3> QED BY <2>1, <2>3, <2>5, <3>1, <3>2, NotAcross
  <2>7. ~Within(a, v)
    BY <1>2, <2>2, <2>4, SliceClean
  <2>8. Clean(t, S, n)
    <3>1. n \notin Bad
      <4> HIDE DEF Bad
      <4> QED BY <1>1, <1>2, <2>4
    <3> QED BY <2>4, <3>1
  <2> QED BY <2>6, <2>7, <2>8 DEF Clean
<1> QED BY <1>5, <1>6

\* A line comes whole, whatever the secrets.
LEMMA LineIsWhole ==
  ASSUME NEW t, NEW S, GivenText(t, S), Bounded(S), S # {}
  PROVE  Streamed(<<t>>, S) = Whole(t, S, 1)
<1> DEFINE c == <<t>>
           g == Loop(t, S)[1]
           i == g.pos
           d == redact(<< >>, t, S)
<1>0. Len(t) \in Nat /\ t \in Seq(Characters)
  BY LenProperties DEF GivenText
<1>1. Pieces(c) /\ Len(c) = 1 /\ c[1] = t
  BY <1>0, OnePiece
<1> HIDE DEF c
<1>2. Streamed(c, S) = Stream(c, S)[1].out \o Stream(c, S)[1].pending
  BY <1>1, StreamIs
<1>3. Stream(c, S)[1] = [out |-> << >> \o d.out, pending |-> d.pending]
  <2>1. 0 \in 0 .. Len(c) /\ 1 \in 0 .. Len(c)
    BY <1>1
  <2> DEFINE f == Stream(c, S)
             z == [out |-> << >>, pending |-> << >>]
  <2>2. f[0] = z /\ f[1] = Fed(S, f[1 - 1], t)
    <3>1. f[0] = StreamTurn(c, S, f, 0) /\ f[1] = StreamTurn(c, S, f, 1)
      BY <1>1, <2>1, StreamIs, ZenonT(60)
    <3>2. StreamTurn(c, S, f, 0) = z
      BY DEF StreamTurn
    <3>3. StreamTurn(c, S, f, 1) = Fed(S, f[1 - 1], t)
      BY <1>1 DEF StreamTurn
    <3> QED BY <3>1, <3>2, <3>3
  <2>3. z.out = << >> /\ z.pending = << >>
    OBVIOUS
  <2> HIDE DEF f, z
  <2>4. f[1] = Fed(S, z, t)
    BY <2>2
  <2>5. Fed(S, z, t) = [out |-> << >> \o d.out, pending |-> d.pending]
    BY <2>3 DEF Fed
  <2> QED BY <2>4, <2>5 DEF f
<1>4. PICK e \in i - 1 .. Len(t) : d = [out |-> g.out \o SubSeq(t, i, e), pending |-> SubSeq(t, e + 1, Len(t))]
  <2> DEFINE z == << >>
  <2>1. z \in Seq(Characters) /\ t = z \o t
    BY <1>0, EmptySeq, ConcatEmptySeq
  <2> HIDE DEF z
  <2>2. \E e \in Loop(t, S)[1].pos - 1 .. Len(t) :
           /\ redact(z, t, S) =
                [out |-> Loop(t, S)[1].out \o SubSeq(t, Loop(t, S)[1].pos, e),
                 pending |-> SubSeq(t, e + 1, Len(t))]
           /\ \A k \in Loop(t, S)[1].pos .. e : \A s \in S : k + Len(s.value) - 1 <= Len(t)
    BY <2>1, RedactSplits, ZenonT(60)
  <2> QED BY <2>2 DEF z
<1>5. i \in 1 .. Len(t) + 1 /\ g.out \in Seq(Characters)
  <2>1. 1 \in 1 .. Len(t) + 1
    BY <1>0
  <2>2. Settled(t, S, 1)
    BY <2>1, LoopSettles
  <2> QED BY <2>2 DEF Settled
<1> DEFINE o == g.out
           a == SubSeq(t, i, e)
           b == SubSeq(t, e + 1, Len(t))
<1>6. /\ a \in Seq(Characters) /\ b \in Seq(Characters) /\ Cat(a, b) = SubSeq(t, i, Len(t))
  <2> HIDE DEF i
  <2>1. a \in Seq(Characters) /\ a \o b = SubSeq(t, i, Len(t))
    BY <1>0, <1>5, Slices
  <2>2. e + 1 \in 1 .. Len(t) + 1 /\ Len(t) \in (e + 1) - 1 .. Len(t)
    BY <1>0, <1>5
  <2> DEFINE k == e + 1
  <2>3. SubSeq(t, k, Len(t)) \in Seq(Characters)
    <3>1. k \in 1 .. Len(t) + 1 /\ Len(t) \in k - 1 .. Len(t)
      BY <2>2
    <3> HIDE DEF k
    <3> QED BY <1>0, <3>1, Slices
  <2> QED BY <2>1, <2>3 DEF Cat
<1>7. Cat(o, Cat(a, b)) = Cat(Cat(o, a), b) /\ Cat(o, a) \in Seq(Characters)
  <2>1. o \in Seq(Characters)
    BY <1>5
  <2> HIDE DEF o, a, b
  <2> QED BY <1>6, <2>1, ThreeCats
<1>8. d.out = Cat(o, a) /\ d.pending = b
  <2>1. d = [out |-> Cat(o, a), pending |-> b]
    BY <1>4 DEF Cat
  <2> DEFINE x0 == Cat(o, a)
  <2> HIDE DEF d, x0, b
  <2>2. d.out = x0 /\ d.pending = b
    BY <2>1 DEF x0
  <2> QED BY <2>2 DEF x0
<1>9. << >> \o d.out = d.out
  <2> DEFINE x0 == d.out
  <2>1. x0 \in Seq(Characters)
    BY <1>7, <1>8
  <2> HIDE DEF x0
  <2>2. << >> \o x0 = x0
    BY <2>1, ConcatEmptySeq
  <2> QED BY <2>2 DEF x0
<1>10. Streamed(c, S) = Cat(Cat(o, a), b)
  <2> DEFINE f == Stream(c, S)[1]
             x0 == << >> \o d.out
             y == d.pending
  <2>1. f = [out |-> x0, pending |-> y] /\ Streamed(c, S) = f.out \o f.pending
    BY <1>2, <1>3
  <2>2. x0 = Cat(o, a) /\ y = b
    BY <1>8, <1>9
  <2> HIDE DEF f, x0, y, o, a, b
  <2>3. f.out = x0 /\ f.pending = y
    BY <2>1
  <2> QED BY <2>1, <2>2, <2>3 DEF Cat
<1>11. Whole(t, S, 1) = Cat(o, Cat(a, b))
  BY <1>6 DEF Whole, Cat
<1> QED BY <1>7, <1>10, <1>11 DEF c

\* JSON makes a text of a text.
LEMMA EscapedTyped ==
  ASSUME NEW t \in Seq(Characters)
  PROVE  Escaped(t) \in Seq(Characters)
<1> DEFINE c == [i \in DOMAIN t |-> InJson(t[i])]
<1>0. DOMAIN t = 1 .. Len(t) /\ Len(t) \in Nat /\ \A i \in 1 .. Len(t) : t[i] \in Characters
  BY LenProperties, ElementOfSeq
<1>1. Pieces(c)
  <2>1. ASSUME NEW i \in 1 .. Len(t)
        PROVE  InJson(t[i]) \in Seq(Characters)
    <3>1. {"\\", "quote", "n"} \subseteq Characters
      BY JsonCharacters
    <3>2. t[i] \in {"quote", "\\"} => <<"\\", t[i]>> \in Seq(Characters)
      BY <3>1, Double
    <3>3. <<"\\", "n">> \in Seq(Characters)
      BY <3>1, Double
    <3>4. <<t[i]>> \in Seq(Characters)
      BY <1>0
    <3> QED BY <3>2, <3>3, <3>4 DEF InJson
  <2>2. c \in [1 .. Len(t) -> Seq(Characters)]
    BY <1>0, <2>1
  <2> HIDE DEF c
  <2>3. c \in Seq(Seq(Characters))
    BY <1>0, <2>2, SeqDef
  <2> QED BY <2>3 DEF Pieces
<1>2. Escaped(t) = FlattenSeq(c)
  BY DEF Escaped
<1> HIDE DEF c
<1>3. Len(c) \in 0 .. Len(c)
  <2>1. Len(c) \in Nat
    BY <1>1, LenProperties DEF Pieces
  <2> QED BY <2>1
<1>4. FlattenSeq(c) \in Seq(Characters)
  BY <1>1, <1>3, PutGrows, FlattenIsPut
<1> QED BY <1>2, <1>4

\* Whatever the pieces and the secrets, the stream is redacted as if it came whole, and a
\* line has no secret in it.
LEMMA StreamsAreRedacted ==
  ASSUME NEW c, Pieces(c), NEW S, S \subseteq Secrets, IsFiniteSet(S), Apart(S)
  PROVE  RedactedWhole(c, S)
<1> SUFFICES ASSUME Accepted(S)
             PROVE  /\ Free(S) => Streamed(c, S) = Streamed(<<FlattenSeq(c)>>, S)
                    /\ \A s \in S : ~Within(emit(FlattenSeq(c), S), s.value)
  BY DEF RedactedWhole, Free
<1>1. Free(S) => Streamed(c, S) = Streamed(<<FlattenSeq(c)>>, S)
  BY StreamsAlike
<1>2. ASSUME NEW s \in S
      PROVE  ~Within(emit(FlattenSeq(c), S), s.value)
  <2> DEFINE x0 == FlattenSeq(c)
             y == Escaped(x0)
             t == y \o <<"newline">>
  <2>1. x0 \in Seq(Characters)
    <3>1. Len(c) \in Nat
      BY LenProperties DEF Pieces
    <3>2. Len(c) \in 0 .. Len(c)
      BY <3>1
    <3> QED BY <3>2, PutGrows, FlattenIsPut
  <2>2. y \in Seq(Characters)
    BY <2>1, EscapedTyped
  <2>3. t \in Seq(Characters)
    <3>1. <<"newline">> \in Seq(Characters)
      <4>1. "newline" \in Characters
        BY JsonCharacters
      <4> QED BY <4>1, Single
    <3> DEFINE o == <<"newline">>
    <3> HIDE DEF y, o
    <3>2. y \o o \in Seq(Characters)
      BY <2>2, <3>1, ConcatProperties DEF o
    <3> QED BY <3>2 DEF o
  <2>4. emit(x0, S) = Streamed(<<t>>, S)
    BY DEF emit
  <2> HIDE DEF t, x0
  <2>5. GivenText(t, S) /\ S # {}
    BY <2>3 DEF GivenText
  <2>6. Bounded(S)
    BY <2>5, LongestBounds
  <2>7. emit(x0, S) = Whole(t, S, 1)
    BY <2>4, <2>5, <2>6, LineIsWhole
  <2>8. Clean(t, S, 1)
    <3>1. Len(t) \in Nat
      BY <2>3, LenProperties
    <3>2. 1 \in 1 .. Len(t) + 1
      BY <3>1
    <3> QED BY <2>5, <3>2, WholeClean
  <2> QED BY <2>7, <2>8 DEF Clean, x0
<1> QED BY <1>1, <1>2

-----------------------------------------------------------------------------
(* Names *)

\* One turn of the loop over a name's labels, and the loop.
NameTurn(b, f, o) ==
  LET end == o + b[o]
      rest == f[end + 1]
  IN  IF o > Len(b) \/ b[o] > 63 THEN Fail
      ELSE IF b[o] = 0 THEN [ok |-> TRUE, labels |-> << >>, next |-> o + 1]
      ELSE IF end > Len(b) THEN Fail
      ELSE [ok |-> rest.ok, labels |-> <<Lower(SubSeq(b, o + 1, end))>> \o rest.labels, next |-> rest.next]

NameLoop(b) == CHOOSE f : f = [o \in 1 .. Len(b) + 1 |-> NameTurn(b, f, o)]

\* What is read from an offset on.
ReadAt(b, o) == NameLoop(b)[o]

\* A turn looks only at what comes after.
LEMMA NameTurnLater ==
  ASSUME NEW b \in Seq(Nat), NEW f, NEW g, NEW o \in 1 .. Len(b) + 1,
         \A k \in o + 1 .. Len(b) + 1 : f[k] = g[k]
  PROVE  NameTurn(b, f, o) = NameTurn(b, g, o)
<1>0. Len(b) \in Nat
  BY LenProperties
<1>1. CASE o > Len(b) \/ b[o] > 63 \/ b[o] = 0 \/ o + b[o] > Len(b)
  BY <1>1 DEF NameTurn
<1>2. CASE ~(o > Len(b) \/ b[o] > 63 \/ b[o] = 0 \/ o + b[o] > Len(b))
  <2>1. b[o] \in Nat
    <3>1. o \in 1 .. Len(b)
      BY <1>0, <1>2
    <3> QED BY <3>1, ElementOfSeq
  <2>2. (o + b[o]) + 1 \in o + 1 .. Len(b) + 1
    BY <1>0, <1>2, <2>1
  <2>3. f[(o + b[o]) + 1] = g[(o + b[o]) + 1]
    BY <2>2
  <2> QED BY <2>3, Zenon DEF NameTurn
<1> QED BY <1>1, <1>2

\* From some offset on, a function is as the loop has it.
ReadsFrom(b, n, f) == /\ DOMAIN f = 1 .. Len(b) + 1
                  /\ \A o \in 1 .. Len(b) + 1 : o >= n => f[o] = NameTurn(b, f, o)

\* There is a function that the loop defines.
LEMMA NameIs ==
  ASSUME NEW b \in Seq(Nat)
  PROVE  \A o \in 1 .. Len(b) + 1 : ReadAt(b, o) = NameTurn(b, NameLoop(b), o)
<1> DEFINE N == Len(b) + 1
           Bad == {n \in 1 .. N : ~\E f : ReadsFrom(b, n, f)}
<1>0. Len(b) \in Nat /\ N \in Nat \ {0}
  BY LenProperties
<1>1. \E f : ReadsFrom(b, N + 1, f)
  <2> DEFINE f == [o \in 1 .. N |-> Fail]
  <2>1. DOMAIN f = 1 .. N
    OBVIOUS
  <2>2. \A o \in 1 .. N : ~(o >= N + 1)
    BY <1>0
  <2> HIDE DEF f
  <2>3. ReadsFrom(b, N + 1, f)
    BY <2>1, <2>2 DEF ReadsFrom
  <2> QED BY <2>3
<1>2. ASSUME NEW n \in 1 .. N, NEW f, ReadsFrom(b, n + 1, f)
      PROVE  \E g : ReadsFrom(b, n, g)
  <2> DEFINE v == NameTurn(b, f, n)
  <2> HIDE DEF v
  <2> DEFINE g == [o \in 1 .. N |-> IF o = n THEN v ELSE f[o]]
  <2>1. \A o \in 1 .. N : o > n => f[o] = g[o]
    BY <1>0
  <2>2. ASSUME NEW o \in 1 .. N, o >= n
        PROVE  g[o] = NameTurn(b, g, o)
    <3>1. \A k \in o + 1 .. N : f[k] = g[k]
      BY <1>0, <2>1, <2>2
    <3>2. NameTurn(b, f, o) = NameTurn(b, g, o)
      <4> HIDE DEF g
      <4> QED BY <3>1, NameTurnLater
    <3>3. g[o] = NameTurn(b, f, o)
      <4>1. CASE o = n
        BY <4>1 DEF v
      <4>2. CASE o # n
        <5>1. o >= n + 1 /\ g[o] = f[o]
          BY <1>0, <2>2, <4>2
        <5> HIDE DEF g
        <5> QED BY <1>2, <5>1 DEF ReadsFrom
      <4> QED BY <4>1, <4>2
    <3> QED BY <3>2, <3>3
  <2>3. DOMAIN g = 1 .. N
    OBVIOUS
  <2> HIDE DEF g
  <2>4. ReadsFrom(b, n, g)
    BY <2>2, <2>3 DEF ReadsFrom
  <2> QED BY <2>4
<1>3. \E f : ReadsFrom(b, 1, f)
  <2> SUFFICES ASSUME ~\E f : ReadsFrom(b, 1, f) PROVE FALSE
    OBVIOUS
  <2>1. 1 \in Bad
    BY <1>0
  <2>2. PICK n \in Bad : \A m \in Bad : m <= n
    <3>1. Bad \in SUBSET (1 .. N) /\ N \in Nat
      BY <1>0
    <3> HIDE DEF Bad, N
    <3> QED BY <2>1, <3>1, Greatest
  <2>3. n \in 1 .. N /\ ~\E f : ReadsFrom(b, n, f)
    BY <2>2
  <2>4. \E f : ReadsFrom(b, n + 1, f)
    <3>1. CASE n = N
      BY <1>1, <3>1
    <3>2. CASE n # N
      <4>1. n + 1 \in 1 .. N /\ ~(n + 1 <= n)
        BY <1>0, <2>3, <3>2
      <4>2. n + 1 \notin Bad
        <5> HIDE DEF Bad
        <5> QED BY <2>2, <4>1
      <4> QED BY <4>1, <4>2
    <3> QED BY <3>1, <3>2
  <2> QED BY <1>2, <2>3, <2>4
<1>4. PICK f : ReadsFrom(b, 1, f)
  BY <1>3
<1> DEFINE h == [o \in 1 .. N |-> f[o]]
<1>5. h = [o \in 1 .. N |-> NameTurn(b, h, o)]
  <2>1. ASSUME NEW o \in 1 .. N
        PROVE  f[o] = NameTurn(b, h, o)
    <3>1. f[o] = NameTurn(b, f, o)
      BY <1>0, <1>4 DEF ReadsFrom
    <3>2. \A k \in o + 1 .. N : f[k] = h[k]
      BY <1>0
    <3> HIDE DEF h
    <3>3. NameTurn(b, f, o) = NameTurn(b, h, o)
      BY <3>2, NameTurnLater
    <3> QED BY <3>1, <3>3
  <2> QED BY <2>1
<1>6. NameLoop(b) = [o \in 1 .. N |-> NameTurn(b, NameLoop(b), o)]
  <2> HIDE DEF h
  <2> QED BY <1>5 DEF NameLoop
<1>7. ASSUME NEW o \in 1 .. N
      PROVE  NameLoop(b)[o] = NameTurn(b, NameLoop(b), o)
  BY <1>6
<1> QED BY <1>7 DEF ReadAt

\* A name is what is read, unless it is too long.
LEMMA NameRead ==
  ASSUME NEW b, NEW o
  PROVE  parse_qname(b, o) = IF ReadAt(b, o).ok /\ total_len(ReadAt(b, o).labels) <= 255 THEN ReadAt(b, o) ELSE Fail
BY Zenon DEF parse_qname, ReadAt, NameLoop, NameTurn

\* Nothing is read where the bytes end, where they have no length of a label, and where a label
\* does not fit.
LEMMA ReadNot ==
  ASSUME NEW b \in Seq(Nat), NEW o \in 1 .. Len(b) + 1,
         o > Len(b) \/ b[o] > 63 \/ (b[o] # 0 /\ o + b[o] > Len(b))
  PROVE  ReadAt(b, o) = Fail
<1>1. ReadAt(b, o) = NameTurn(b, NameLoop(b), o)
  BY NameIs
<1> QED BY <1>1 DEF NameTurn

\* What is read where the byte is the length of the root.
LEMMA ReadRoot ==
  ASSUME NEW b \in Seq(Nat), NEW o \in 1 .. Len(b), b[o] = 0
  PROVE  ReadAt(b, o) = [ok |-> TRUE, labels |-> << >>, next |-> o + 1]
<1>1. o \in 1 .. Len(b) + 1 /\ ~(o > Len(b))
  BY LenProperties
<1>2. ReadAt(b, o) = NameTurn(b, NameLoop(b), o)
  BY <1>1, NameIs
<1> QED BY <1>1, <1>2 DEF NameTurn

\* What is read where a label fits.
LEMMA ReadLabel ==
  ASSUME NEW b \in Seq(Nat), NEW o \in 1 .. Len(b), b[o] \in 1 .. 63, o + b[o] <= Len(b)
  PROVE  /\ ReadAt(b, o) = [ok |-> ReadAt(b, o + b[o] + 1).ok,
                           labels |-> <<Lower(SubSeq(b, o + 1, o + b[o]))>> \o ReadAt(b, o + b[o] + 1).labels,
                           next |-> ReadAt(b, o + b[o] + 1).next]
         /\ ReadAt(b, o).ok = ReadAt(b, o + b[o] + 1).ok
         /\ ReadAt(b, o).labels = <<Lower(SubSeq(b, o + 1, o + b[o]))>> \o ReadAt(b, o + b[o] + 1).labels
         /\ ReadAt(b, o).next = ReadAt(b, o + b[o] + 1).next
         /\ o + b[o] + 1 \in o + 2 .. Len(b) + 1
<1> DEFINE v == b[o]
           N == Len(b)
<1>0. N \in Nat /\ o \in 1 .. N /\ v \in 1 .. 63 /\ o + v <= N
  BY LenProperties
<1>1. o \in 1 .. N + 1 /\ ~(o > N) /\ ~(v > 63) /\ v # 0 /\ ~(o + v > N)
      /\ o + v + 1 \in o + 2 .. N + 1
  <2> HIDE DEF v, N
  <2> QED BY <1>0
<1>2. ReadAt(b, o) = NameTurn(b, NameLoop(b), o)
  BY <1>1, NameIs
<1> DEFINE r == ReadAt(b, o + v + 1)
           l == <<Lower(SubSeq(b, o + 1, o + v))>> \o r.labels
<1>3. ReadAt(b, o) = [ok |-> r.ok, labels |-> l, next |-> r.next]
  BY <1>1, <1>2, Zenon DEF NameTurn, ReadAt
<1>4. ReadAt(b, o).ok = r.ok /\ ReadAt(b, o).labels = l /\ ReadAt(b, o).next = r.next
  <2> HIDE DEF r, l
  <2> QED BY <1>3
<1> QED BY <1>1, <1>3, <1>4, Zenon

\* What is read of the beginning of some bytes is what is read of them all, and is from within it.
Agrees(p, b, o) == ReadAt(p, o).ok => ReadAt(b, o) = ReadAt(p, o) /\ ReadAt(p, o).next \in o + 1 .. Len(p) + 1

\* So it is from any offset, since a label within the beginning is the same label.
LEMMA ReadExtends ==
  ASSUME NEW p \in Seq(Nat), NEW b \in Seq(Nat), Len(p) <= Len(b), \A i \in 1 .. Len(p) : b[i] = p[i]
  PROVE  \A o \in 1 .. Len(p) + 1 : Agrees(p, b, o)
<1> DEFINE N == Len(p)
           M == Len(b)
           Bad == {o \in 1 .. N + 1 : ~Agrees(p, b, o)}
<1>0. N \in Nat /\ M \in Nat /\ N <= M
  BY LenProperties
<1> SUFFICES ASSUME Bad # {} PROVE FALSE
  OBVIOUS
<1>1. PICK o \in Bad : \A k \in Bad : k <= o
  <2>1. Bad \in SUBSET (1 .. N + 1) /\ N + 1 \in Nat
    BY <1>0
  <2> HIDE DEF Bad, N
  <2> QED BY <2>1, Greatest
<1>2. o \in 1 .. N + 1 /\ ~Agrees(p, b, o)
  BY <1>1
<1>3. ASSUME NEW k \in o + 1 .. N + 1
      PROVE  Agrees(p, b, k)
  <2>1. k \in 1 .. N + 1 /\ ~(k <= o)
    BY <1>0, <1>2
  <2>2. k \notin Bad
    <3> HIDE DEF Bad
    <3> QED BY <1>1, <2>1
  <2> QED BY <2>1, <2>2
<1> HIDE DEF Bad
<1>4. Fail.ok = FALSE
  BY DEF Fail
<1>5. CASE o > N \/ p[o] > 63 \/ (p[o] # 0 /\ o + p[o] > N)
  <2>1. ReadAt(p, o) = Fail
    BY <1>2, <1>5, ReadNot
  <2> QED BY <1>2, <1>4, <2>1 DEF Agrees
<1>6. CASE o <= N /\ p[o] = 0
  <2>1. o \in 1 .. N /\ o \in 1 .. M /\ b[o] = 0 /\ o + 1 \in o + 1 .. N + 1
    BY <1>0, <1>2, <1>6
  <2>2. ReadAt(p, o) = [ok |-> TRUE, labels |-> << >>, next |-> o + 1]
    BY <1>6, <2>1, ReadRoot
  <2>3. ReadAt(b, o) = [ok |-> TRUE, labels |-> << >>, next |-> o + 1]
    BY <2>1, ReadRoot
  <2> QED BY <1>2, <2>1, <2>2, <2>3 DEF Agrees
<1>7. CASE o <= N /\ ~(p[o] > 63) /\ p[o] # 0 /\ ~(o + p[o] > N)
  <2> DEFINE v == p[o]
             e == o + v
             k == e + 1
  <2>1. o \in 1 .. N /\ o \in 1 .. M /\ b[o] = v
    BY <1>0, <1>2, <1>7
  <2>2. v \in Nat
    BY <2>1, ElementOfSeq
  <2>3. v \in 1 .. 63 /\ e <= N /\ e <= M /\ k \in o + 2 .. N + 1 /\ o + 1 \in 1 .. N + 1 /\ e \in o .. N /\ o + 1 \in 1 .. M + 1
        /\ e \in (o + 1) - 1 .. N /\ e \in (o + 1) - 1 .. M
    <3>1. ~(v > 63) /\ v # 0 /\ ~(o + v > N) /\ o \in 1 .. N
      BY <1>7, <2>1
    <3> HIDE DEF v, N, M
    <3> QED BY <1>0, <2>2, <3>1
  <2>4. SubSeq(p, o + 1, e) = SubSeq(b, o + 1, e)
    <3> DEFINE y == SubSeq(p, o + 1, e)
               z == SubSeq(b, o + 1, e)
    <3>1. /\ y \in Seq(Nat) /\ Len(y) = e - (o + 1) + 1 /\ \A i \in 1 .. e - (o + 1) + 1 : y[i] = p[(o + 1) + i - 1]
          /\ z \in Seq(Nat) /\ Len(z) = e - (o + 1) + 1 /\ \A i \in 1 .. e - (o + 1) + 1 : z[i] = b[(o + 1) + i - 1]
      <4> HIDE DEF v, N, M, e
      <4> QED BY <2>3, Slices, ZenonT(60) DEF N, M
    <3>2. \A i \in 1 .. e - (o + 1) + 1 : (o + 1) + i - 1 \in 1 .. N
      <4> HIDE DEF v
      <4> QED BY <1>0, <2>1, <2>3
    <3> HIDE DEF y, z, e, v
    <3>3. \A i \in 1 .. Len(y) : y[i] = z[i]
      BY <3>1, <3>2
    <3> QED BY <3>1, <3>3, SeqEqual DEF y, z
  <2>5. ReadAt(p, o) = [ok |-> ReadAt(p, k).ok, labels |-> <<Lower(SubSeq(p, o + 1, e))>> \o ReadAt(p, k).labels, next |-> ReadAt(p, k).next]
        /\ ReadAt(p, o).ok = ReadAt(p, k).ok /\ ReadAt(p, o).next = ReadAt(p, k).next
    BY <2>1, <2>3, ReadLabel
  <2>6. ReadAt(b, o) = [ok |-> ReadAt(b, k).ok, labels |-> <<Lower(SubSeq(b, o + 1, e))>> \o ReadAt(b, k).labels, next |-> ReadAt(b, k).next]
    BY <2>1, <2>3, ReadLabel, ZenonT(60)
  <2>7. ASSUME ReadAt(p, o).ok
        PROVE  ReadAt(b, o) = ReadAt(p, o) /\ ReadAt(p, o).next \in o + 1 .. N + 1
    <3>1. k \in o + 1 .. N + 1
      <4> HIDE DEF k, N
      <4> QED BY <1>0, <1>2, <2>3
    <3>2. Agrees(p, b, k)
      BY <1>3, <3>1
    <3>3. ReadAt(b, k) = ReadAt(p, k) /\ ReadAt(p, k).next \in k + 1 .. N + 1
      BY <2>5, <2>7, <3>2 DEF Agrees
    <3>4. ReadAt(p, o).next \in o + 1 .. N + 1
      <4> DEFINE n == ReadAt(p, o).next
      <4>1. n \in k + 1 .. N + 1
        BY <2>5, <3>3
      <4> HIDE DEF n, k, N
      <4> QED BY <1>0, <1>2, <3>1, <4>1 DEF n
    <3>5. ReadAt(b, o) = ReadAt(p, o)
      <4> HIDE DEF k, e
      <4> QED BY <2>4, <2>5, <2>6, <3>3, Zenon
    <3> QED BY <3>4, <3>5
  <2> QED BY <1>2, <2>7 DEF Agrees
<1>8. o > N \/ o <= N
  BY <1>0, <1>2
<1> HIDE DEF N
<1> QED BY <1>5, <1>6, <1>7, <1>8, Zenon

\* What is put together stays at its place when more is put to it.
Stays(c, n, m) == /\ Len(Put(c, n)) \in Nat /\ Len(Put(c, n)) <= Len(Put(c, m))
                  /\ \A i \in 1 .. Len(Put(c, n)) : Put(c, m)[i] = Put(c, n)[i]

\* So it is however many parts more are put to it.
LEMMA PutStays ==
  ASSUME NEW C, NEW c \in Seq(Seq(C)), NEW n \in 0 .. Len(c)
  PROVE  \A m \in n .. Len(c) : Stays(c, n, m)
<1> DEFINE N == Len(c)
           Bad == {m \in n .. N : ~Stays(c, n, m)}
<1>0. N \in Nat /\ n \in 0 .. N
  BY LenProperties
<1>1. \A k \in 0 .. N : Put(c, k) \in Seq(C) /\ Len(Put(c, k)) \in Nat
  BY PartsGrow, LenProperties
<1> SUFFICES ASSUME Bad # {} PROVE FALSE
  OBVIOUS
<1>2. PICK m \in Bad : \A k \in Bad : m <= k
  <2>1. Bad \in SUBSET Nat
    BY <1>0
  <2> HIDE DEF Bad
  <2> QED BY <2>1, Least
<1>3. m \in n .. N /\ ~Stays(c, n, m)
  BY <1>2
<1>4. m # n
  BY <1>0, <1>1, <1>3 DEF Stays
<1>5. m \in 1 .. N /\ m - 1 \in n .. N /\ m - 1 \in 0 .. N /\ m \in 0 .. N /\ ~(m <= m - 1)
  BY <1>0, <1>3, <1>4
<1>6. Stays(c, n, m - 1)
  <2>1. m - 1 \notin Bad
    <3> HIDE DEF Bad
    <3> QED BY <1>2, <1>5
  <2> QED BY <1>5, <2>1
<1> DEFINE p == Put(c, m - 1)
           q == c[m]
           z == Put(c, m)
<1>7. z = p \o q /\ p \in Seq(C) /\ q \in Seq(C)
  BY <1>1, <1>5, PartsGrow, ElementOfSeq
<1>8. Len(p) \in Nat /\ Len(q) \in Nat /\ Len(z) = Len(p) + Len(q)
      /\ \A i \in 1 .. Len(p) + Len(q) : z[i] = IF i <= Len(p) THEN p[i] ELSE q[i - Len(p)]
  <2> HIDE DEF p, q, z
  <2> QED BY <1>7, ConcatProperties, LenProperties
<1> DEFINE a == Put(c, n)
<1>9. Len(a) \in Nat /\ Len(a) <= Len(p) /\ \A i \in 1 .. Len(a) : p[i] = a[i]
  BY <1>6 DEF Stays
<1>10. Len(a) <= Len(z) /\ \A i \in 1 .. Len(a) : z[i] = a[i]
  <2> HIDE DEF a, p, q, z
  <2>1. Len(a) <= Len(z)
    BY <1>8, <1>9
  <2>2. ASSUME NEW i \in 1 .. Len(a)
        PROVE  z[i] = a[i]
    <3>1. i \in 1 .. Len(p) + Len(q) /\ i <= Len(p)
      BY <1>8, <1>9
    <3>2. z[i] = p[i]
      BY <1>8, <3>1
    <3> QED BY <1>9, <3>2
  <2> QED BY <2>1, <2>2
<1> QED BY <1>3, <1>9, <1>10 DEF Stays

\* Where each part is in what is put together.
LEMMA PartsAt ==
  ASSUME NEW C, NEW c \in Seq(Seq(C))
  PROVE  /\ \A n \in 0 .. Len(c) : Len(Put(c, n)) \in 0 .. Len(Put(c, Len(c)))
         /\ \A n \in 1 .. Len(c) :
              /\ Len(Put(c, n)) = Len(Put(c, n - 1)) + Len(c[n])
              /\ \A k \in 1 .. Len(c[n]) : Put(c, Len(c))[Len(Put(c, n - 1)) + k] = c[n][k]
<1> DEFINE N == Len(c)
<1>0. N \in Nat
  BY LenProperties
<1>1. \A k \in 0 .. N : Put(c, k) \in Seq(C) /\ Len(Put(c, k)) \in Nat
  BY PartsGrow, LenProperties
<1>2. ASSUME NEW n \in 0 .. N
      PROVE  Len(Put(c, n)) \in 0 .. Len(Put(c, N)) /\ \A i \in 1 .. Len(Put(c, n)) : Put(c, N)[i] = Put(c, n)[i]
  <2>1. N \in n .. N /\ N \in 0 .. N
    BY <1>0
  <2>2. Stays(c, n, N)
    BY <2>1, PutStays
  <2>3. Len(Put(c, N)) \in Nat
    BY <1>1, <2>1
  <2> QED BY <2>2, <2>3 DEF Stays
<1>3. ASSUME NEW n \in 1 .. N
      PROVE  /\ Len(Put(c, n)) = Len(Put(c, n - 1)) + Len(c[n])
             /\ \A k \in 1 .. Len(c[n]) : Put(c, N)[Len(Put(c, n - 1)) + k] = c[n][k]
  <2> DEFINE p == Put(c, n - 1)
             q == c[n]
             z == Put(c, n)
             w == Put(c, N)
  <2>0. n - 1 \in 0 .. N /\ n \in 0 .. N
    BY <1>0
  <2>1. z = p \o q /\ p \in Seq(C) /\ q \in Seq(C)
    BY <1>1, <2>0, PartsGrow, ElementOfSeq
  <2>2. Len(p) \in Nat /\ Len(q) \in Nat /\ Len(z) = Len(p) + Len(q)
        /\ \A i \in 1 .. Len(p) + Len(q) : z[i] = IF i <= Len(p) THEN p[i] ELSE q[i - Len(p)]
    <3> HIDE DEF p, q, z
    <3> QED BY <2>1, ConcatProperties, LenProperties
  <2>3. \A i \in 1 .. Len(z) : w[i] = z[i]
    BY <1>2, <2>0
  <2> HIDE DEF p, q, z, w
  <2>4. ASSUME NEW k \in 1 .. Len(q)
        PROVE  w[Len(p) + k] = q[k]
    <3>1. Len(p) + k \in 1 .. Len(p) + Len(q) /\ ~(Len(p) + k <= Len(p)) /\ (Len(p) + k) - Len(p) = k
      BY <2>2
    <3>2. z[Len(p) + k] = q[(Len(p) + k) - Len(p)]
      BY <2>2, <3>1
    <3> QED BY <2>2, <2>3, <3>1, <3>2
  <2> QED BY <2>2, <2>4 DEF p, q, z, w
<1> QED BY <1>2, <1>3

\* The labels of a name as they are on the wire.
Wired(labels) == [j \in DOMAIN labels |-> <<Len(labels[j])>> \o labels[j]]

\* What is known of a name's labels, and of their places.
LEMMA LabelTyped ==
  ASSUME NEW labels \in Seq(Labels)
  PROVE  /\ DOMAIN labels = 1 .. Len(labels) /\ Len(labels) \in Nat
         /\ \A j \in 1 .. Len(labels) : labels[j] \in Seq(Nat) /\ Len(labels[j]) \in Nat \ {0}
         /\ \A j \in 1 .. Len(labels) : \A n \in DOMAIN labels[j] : labels[j][n] \in Nat
<1>1. DOMAIN labels = 1 .. Len(labels) /\ Len(labels) \in Nat
  BY LenProperties
<1>2. ASSUME NEW j \in 1 .. Len(labels)
      PROVE  labels[j] \in Seq(Nat) /\ Len(labels[j]) \in Nat \ {0}
  <2>1. labels[j] \in Labels
    BY ElementOfSeq
  <2>2. labels[j] \in Seq(0 .. 255 \ {46}) /\ Len(labels[j]) \in 1 .. 255
    BY <2>1 DEF Labels
  <2>3. 0 .. 255 \ {46} \subseteq Nat
    OBVIOUS
  <2>4. labels[j] \in Seq(Nat)
    BY <2>2, <2>3, SeqMonotonic, Zenon
  <2>5. \A n \in 1 .. 255 : n \in Nat \ {0}
    OBVIOUS
  <2> QED BY <2>2, <2>4, <2>5, Zenon
<1>3. ASSUME NEW j \in 1 .. Len(labels), NEW n \in DOMAIN labels[j]
      PROVE  labels[j][n] \in Nat
  BY <1>2, LenProperties, ElementOfSeq
<1> QED BY <1>1, <1>2, <1>3

\* What is known of them as they are on the wire.
LEMMA WiredTyped ==
  ASSUME NEW labels \in Seq(Labels)
  PROVE  /\ Wired(labels) \in Seq(Seq(Nat)) /\ Len(Wired(labels)) = Len(labels)
         /\ WireName(labels) = Put(Wired(labels), Len(labels)) /\ WireName(labels) \in Seq(Nat)
         /\ \A j \in 1 .. Len(labels) :
              /\ Len(Wired(labels)[j]) = Len(labels[j]) + 1
              /\ Wired(labels)[j][1] = Len(labels[j])
              /\ \A n \in 1 .. Len(labels[j]) : Wired(labels)[j][n + 1] = labels[j][n]
<1> DEFINE W == Wired(labels)
<1>1. DOMAIN labels = 1 .. Len(labels) /\ Len(labels) \in Nat
      /\ \A j \in 1 .. Len(labels) : labels[j] \in Seq(Nat) /\ Len(labels[j]) \in Nat
  BY LabelTyped
<1>2. ASSUME NEW j \in 1 .. Len(labels)
      PROVE  /\ W[j] \in Seq(Nat)
             /\ Len(W[j]) = Len(labels[j]) + 1
             /\ W[j][1] = Len(labels[j])
             /\ \A n \in 1 .. Len(labels[j]) : W[j][n + 1] = labels[j][n]
  <2> DEFINE l == labels[j]
             s == <<Len(l)>>
             z == s \o l
  <2>1. W[j] = z
    BY <1>1 DEF Wired
  <2>2. l \in Seq(Nat) /\ Len(l) \in Nat
    BY <1>1
  <2>3. s \in Seq(Nat) /\ Len(s) = 1 /\ s[1] = Len(l)
    <3> HIDE DEF l
    <3> QED BY <2>2
  <2> HIDE DEF s, l
  <2>4. z \in Seq(Nat) /\ Len(z) = Len(s) + Len(l) /\ \A i \in 1 .. Len(s) + Len(l) : z[i] = IF i <= Len(s) THEN s[i] ELSE l[i - Len(s)]
    BY <2>2, <2>3, ConcatProperties
  <2> HIDE DEF z
  <2>5. Len(z) = Len(l) + 1 /\ z[1] = Len(l)
    BY <2>2, <2>3, <2>4
  <2>6. ASSUME NEW n \in 1 .. Len(l)
        PROVE  z[n + 1] = l[n]
    <3>1. n + 1 \in 1 .. Len(s) + Len(l) /\ ~(n + 1 <= Len(s)) /\ (n + 1) - Len(s) = n
      BY <2>2, <2>3
    <3>2. z[n + 1] = l[(n + 1) - Len(s)]
      BY <2>4, <3>1
    <3> QED BY <3>1, <3>2
  <2> QED BY <2>1, <2>4, <2>5, <2>6 DEF l
<1>3. W \in Seq(Seq(Nat)) /\ Len(W) = Len(labels)
  <2>1. W = [j \in 1 .. Len(labels) |-> W[j]]
    BY <1>1 DEF Wired
  <2> HIDE DEF W
  <2>2. W \in [1 .. Len(labels) -> Seq(Nat)]
    BY <1>2, <2>1
  <2>3. W \in Seq(Seq(Nat))
    BY <1>1, <2>2, SeqDef
  <2> QED BY <1>1, <2>2, <2>3, LenProperties
<1>4. WireName(labels) = FlattenSeq(W)
  BY DEF WireName, Wired
<1> HIDE DEF W
<1>5. WireName(labels) = Put(W, Len(labels))
  BY <1>3, <1>4, PartsFlatten
<1>6. Put(W, Len(labels)) \in Seq(Nat)
  <2>1. Len(labels) \in 0 .. Len(W)
    BY <1>1, <1>3
  <2> QED BY <1>3, <2>1, PartsGrow
<1> QED BY <1>2, <1>3, <1>5, <1>6 DEF W

\* A label in lower case is as long as it was.
LEMMA LowerTyped ==
  ASSUME NEW l \in Seq(Nat)
  PROVE  /\ Lower(l) \in Seq(Nat) /\ Len(Lower(l)) = Len(l) /\ DOMAIN Lower(l) = DOMAIN l
         /\ \A n \in DOMAIN l : Lower(l)[n] = IF l[n] \in Capitals THEN l[n] + 32 ELSE l[n]
<1>1. DOMAIN l = 1 .. Len(l) /\ Len(l) \in Nat /\ \A n \in 1 .. Len(l) : l[n] \in Nat
  BY LenProperties, ElementOfSeq
<1>2. Lower(l) \in [1 .. Len(l) -> Nat]
  BY <1>1 DEF Lower, Capitals
<1>3. Lower(l) \in Seq(Nat)
  BY <1>1, <1>2, SeqDef
<1>4. Len(Lower(l)) = Len(l)
  BY <1>1, <1>2, <1>3, LenProperties
<1>5. DOMAIN Lower(l) = DOMAIN l /\ \A n \in DOMAIN l : Lower(l)[n] = IF l[n] \in Capitals THEN l[n] + 32 ELSE l[n]
  BY Zenon DEF Lower
<1> QED BY <1>3, <1>4, <1>5

\* The labels after the first j, in lower case.
Labelled(labels, j) == [i \in 1 .. Len(labels) - j |-> Lower(labels[j + i])]

\* One label more is one more in front.
LEMMA AfterGrows ==
  ASSUME NEW labels \in Seq(Labels), NEW j \in 0 .. Len(labels) - 1
  PROVE  Labelled(labels, j) = <<Lower(labels[j + 1])>> \o Labelled(labels, j + 1)
<1> DEFINE m == Len(labels)
           l == Lower(labels[j + 1])
           s == <<l>>
           a == Labelled(labels, j + 1)
           d == Labelled(labels, j)
<1>0. m \in Nat /\ j \in Nat /\ j + 1 \in 1 .. m /\ \A k \in 1 .. m : Lower(labels[k]) \in Seq(Nat)
  BY LabelTyped, LowerTyped
<1>1. l \in Seq(Nat)
  BY <1>0
<1>2. s \in Seq(Seq(Nat)) /\ Len(s) = 1 /\ s[1] = l
  <2> HIDE DEF l
  <2> QED BY <1>1
<1>3. ASSUME NEW k \in 0 .. m
      PROVE  Labelled(labels, k) \in Seq(Seq(Nat)) /\ Len(Labelled(labels, k)) = m - k
             /\ \A i \in 1 .. m - k : Labelled(labels, k)[i] = Lower(labels[k + i])
  <2>1. m - k \in Nat /\ \A i \in 1 .. m - k : k + i \in 1 .. m
    BY <1>0
  <2>2. Labelled(labels, k) \in [1 .. m - k -> Seq(Nat)]
    BY <1>0, <2>1 DEF Labelled
  <2>3. Labelled(labels, k) \in Seq(Seq(Nat))
    BY <2>1, <2>2, SeqDef
  <2>4. Len(Labelled(labels, k)) = m - k
    BY <2>1, <2>2, <2>3, LenProperties
  <2> QED BY <2>3, <2>4 DEF Labelled
<1>4. j \in 0 .. m /\ j + 1 \in 0 .. m
  BY <1>0
<1>5. a \in Seq(Seq(Nat)) /\ Len(a) = m - (j + 1) /\ \A i \in 1 .. m - (j + 1) : a[i] = Lower(labels[(j + 1) + i])
  BY <1>3, <1>4
<1>6. d \in Seq(Seq(Nat)) /\ Len(d) = m - j /\ \A i \in 1 .. m - j : d[i] = Lower(labels[j + i])
  BY <1>3, <1>4
<1> DEFINE z == s \o a
<1> HIDE DEF s, a, d
<1>7. z \in Seq(Seq(Nat)) /\ Len(z) = Len(s) + Len(a) /\ \A i \in 1 .. Len(s) + Len(a) : z[i] = IF i <= Len(s) THEN s[i] ELSE a[i - Len(s)]
  BY <1>2, <1>5, ConcatProperties
<1> HIDE DEF z, l, m
<1>8. Len(d) = Len(z)
  BY <1>0, <1>2, <1>5, <1>6, <1>7
<1>9. ASSUME NEW i \in 1 .. Len(d)
      PROVE  d[i] = z[i]
  <2>1. i \in 1 .. m - j /\ i \in 1 .. Len(s) + Len(a) /\ i \in Nat
    BY <1>0, <1>6, <1>7, <1>8
  <2>2. d[i] = Lower(labels[j + i])
    BY <1>6, <2>1
  <2>3. CASE i = 1
    <3>1. z[1] = l
      BY <1>2, <1>7, <2>1, <2>3
    <3> QED BY <2>2, <2>3, <3>1 DEF l
  <2>4. CASE i # 1
    <3>1. i - 1 \in 1 .. m - (j + 1) /\ (j + 1) + (i - 1) = j + i /\ ~(i <= 1)
      BY <1>0, <2>1, <2>4
    <3>2. z[i] = a[i - 1]
      BY <1>2, <1>7, <2>1, <3>1
    <3>3. a[i - 1] = Lower(labels[(j + 1) + (i - 1)])
      BY <1>5, <3>1
    <3> QED BY <2>2, <3>1, <3>2, <3>3
  <2> QED BY <2>3, <2>4
<1>10. d = z
  BY <1>6, <1>7, <1>8, <1>9, SeqEqual
<1> QED BY <1>10 DEF d, z, s, a, l

\* The bytes after the first t hold a name and its end.
NameHere(b, t, labels) ==
  /\ t \in Nat /\ t + Len(WireName(labels)) + 1 <= Len(b)
  /\ \A k \in 1 .. Len(WireName(labels)) : b[t + k] = WireName(labels)[k]
  /\ b[t + Len(WireName(labels)) + 1] = 0

\* Where the j-th label ends.
EndOf(labels, j) == Len(Put(Wired(labels), j))

\* What is read from there on: the labels that follow, unless one is too long.
ReadsOn(b, t, labels, j) ==
  IF \A i \in j + 1 .. Len(labels) : Len(labels[i]) <= 63
  THEN ReadAt(b, t + EndOf(labels, j) + 1) =
         [ok |-> TRUE, labels |-> Labelled(labels, j), next |-> t + Len(WireName(labels)) + 2]
  ELSE ReadAt(b, t + EndOf(labels, j) + 1).ok = FALSE

\* Where a label is among the bytes.
LEMMA LabelHere ==
  ASSUME NEW b \in Seq(Nat), NEW t, NEW labels \in Seq(Labels), NameHere(b, t, labels), NEW j \in 1 .. Len(labels)
  PROVE  /\ EndOf(labels, j - 1) \in Nat /\ EndOf(labels, j) = EndOf(labels, j - 1) + Len(labels[j]) + 1
         /\ EndOf(labels, j) <= Len(WireName(labels)) /\ Len(WireName(labels)) \in Nat
         /\ b[t + EndOf(labels, j - 1) + 1] = Len(labels[j])
         /\ \A n \in 1 .. Len(labels[j]) : b[t + EndOf(labels, j - 1) + 1 + n] = labels[j][n]
<1> DEFINE W == Wired(labels)
           N == WireName(labels)
           e == EndOf(labels, j - 1)
           f == EndOf(labels, j)
           l == labels[j]
           L == Len(l)
<1>0. Len(labels) \in Nat /\ L \in Nat \ {0} /\ t \in Nat
  BY LabelTyped DEF NameHere
<1>1. /\ W \in Seq(Seq(Nat)) /\ Len(W) = Len(labels) /\ N = Put(W, Len(labels)) /\ N \in Seq(Nat) /\ Len(N) \in Nat
      /\ Len(W[j]) = L + 1 /\ W[j][1] = L /\ \A n \in 1 .. L : W[j][n + 1] = l[n]
  BY WiredTyped, LenProperties
<1>2. j \in 0 .. Len(W) /\ j - 1 \in 0 .. Len(W) /\ j \in 1 .. Len(W)
  BY <1>0, <1>1
<1> HIDE DEF L
<1>3. /\ e \in 0 .. Len(N) /\ f \in 0 .. Len(N) /\ f = e + (L + 1)
      /\ \A k \in 1 .. L + 1 : N[e + k] = W[j][k]
  <2> DEFINE P(n) == Put(W, n)
  <2>1. /\ \A n \in 0 .. Len(W) : Len(P(n)) \in 0 .. Len(P(Len(W)))
        /\ \A n \in 1 .. Len(W) : Len(P(n)) = Len(P(n - 1)) + Len(W[n])
        /\ \A n \in 1 .. Len(W) : \A k \in 1 .. Len(W[n]) : P(Len(W))[Len(P(n - 1)) + k] = W[n][k]
    <3>1. W \in Seq(Seq(Nat))
      BY <1>1
    <3> HIDE DEF W
    <3> QED BY <3>1, PartsAt
  <2>2. e = Len(P(j - 1)) /\ f = Len(P(j)) /\ N = P(Len(W)) /\ Len(W[j]) = L + 1
    BY <1>1 DEF EndOf
  <2> HIDE DEF P, W, N, e, f
  <2> QED BY <1>2, <2>1, <2>2
<1>4. \A k \in 1 .. Len(N) : b[t + k] = N[k]
  BY DEF NameHere
<1> HIDE DEF W, N, e, f, l
<1>5. ASSUME NEW k \in 1 .. L + 1
      PROVE  b[t + (e + k)] = W[j][k]
  <2>1. e + k \in 1 .. Len(N)
    BY <1>0, <1>1, <1>3
  <2> QED BY <1>3, <1>4, <2>1
<1>6. b[t + e + 1] = L
  <2>1. 1 \in 1 .. L + 1 /\ t + (e + 1) = t + e + 1
    BY <1>0, <1>3
  <2> QED BY <1>1, <1>5, <2>1
<1>7. ASSUME NEW n \in 1 .. L
      PROVE  b[t + e + 1 + n] = l[n]
  <2>1. n + 1 \in 1 .. L + 1 /\ t + (e + (n + 1)) = t + e + 1 + n
    BY <1>0, <1>3
  <2> QED BY <1>1, <1>5, <2>1
<1>8. e \in Nat /\ f = e + L + 1 /\ f <= Len(N)
  BY <1>0, <1>1, <1>3
<1> QED BY <1>1, <1>6, <1>7, <1>8 DEF L, N, e, f, l

\* Of a name on the wire, the labels are read from any label on, in lower case, and nothing is
\* when one of them is too long.
LEMMA NameOnWire ==
  ASSUME NEW b \in Seq(Nat), NEW t, NEW labels \in Seq(Labels), NameHere(b, t, labels)
  PROVE  \A j \in 0 .. Len(labels) : ReadsOn(b, t, labels, j)
<1> DEFINE m == Len(labels)
           N == Len(WireName(labels))
           Bad == {k \in 1 .. m + 1 : ~ReadsOn(b, t, labels, k - 1)}
<1>0. /\ m \in Nat /\ t \in Nat /\ N \in Nat /\ Len(b) \in Nat /\ t + N + 1 <= Len(b) /\ b[t + N + 1] = 0
      /\ EndOf(labels, m) = N
  <2>1. EndOf(labels, m) = N
    BY WiredTyped DEF EndOf
  <2> QED BY <2>1, LabelTyped, WiredTyped, LenProperties DEF NameHere
<1> SUFFICES ASSUME NEW u \in 0 .. m, ~ReadsOn(b, t, labels, u) PROVE FALSE
  OBVIOUS
<1>1. PICK g \in Bad : \A k \in Bad : k <= g
  <2>1. Bad \in SUBSET (1 .. m + 1) /\ m + 1 \in Nat
    BY <1>0
  <2>2. u + 1 \in Bad
    <3>1. u + 1 \in 1 .. m + 1 /\ (u + 1) - 1 = u
      BY <1>0
    <3> QED BY <3>1
  <2> HIDE DEF Bad
  <2> QED BY <2>1, <2>2, Greatest
<1>2. PICK j \in 0 .. m : ~ReadsOn(b, t, labels, j) /\ g = j + 1
  <2>1. g \in 1 .. m + 1 /\ ~ReadsOn(b, t, labels, g - 1)
    BY <1>1
  <2>2. g - 1 \in 0 .. m /\ g = (g - 1) + 1
    BY <1>0, <2>1
  <2> QED BY <2>1, <2>2
<1>3. ASSUME NEW k \in j + 1 .. m
      PROVE  ReadsOn(b, t, labels, k)
  <2>1. k + 1 \in 1 .. m + 1 /\ ~(k + 1 <= g) /\ (k + 1) - 1 = k
    BY <1>0, <1>2
  <2> QED BY <1>1, <2>1
<1> HIDE DEF Bad
<1>4. CASE j = m
  <2>1. t + N + 1 \in 1 .. Len(b) /\ (t + N + 1) + 1 = t + N + 2 /\ m + 1 .. m = {}
    BY <1>0
  <2>2. ReadAt(b, t + N + 1) = [ok |-> TRUE, labels |-> << >>, next |-> t + N + 2]
    BY <1>0, <2>1, ReadRoot
  <2>3. Labelled(labels, m) = << >>
    <3>1. 1 .. m - m = {}
      BY <1>0
    <3> QED BY <3>1 DEF Labelled
  <2>4. ReadsOn(b, t, labels, m)
    BY <1>0, <2>1, <2>2, <2>3 DEF ReadsOn
  <2> QED BY <1>2, <1>4, <2>4
<1>5. CASE j # m
  <2>1. j + 1 \in 1 .. m /\ j \in 0 .. m - 1 /\ j + 1 \in j + 1 .. m /\ j + 1 - 1 = j /\ j \in Nat
    BY <1>0, <1>2, <1>5
  <2> DEFINE l == labels[j + 1]
             L == Len(l)
             e == EndOf(labels, j)
             f == EndOf(labels, j + 1)
             o == t + e + 1
  <2>2. /\ e \in Nat /\ f = e + L + 1 /\ f <= N /\ b[o] = L
        /\ \A n \in 1 .. L : b[o + n] = l[n]
    BY <2>1, LabelHere
  <2>3. l \in Seq(Nat) /\ L \in Nat \ {0}
    BY <2>1, LabelTyped
  <2>4. ReadsOn(b, t, labels, j + 1)
    BY <1>3, <2>1
  <2>5. o \in Nat /\ o + L = t + f /\ o + L + 1 = t + f + 1 /\ o \in 1 .. Len(b) /\ o + L <= Len(b) /\ o \in 1 .. Len(b) + 1
    <3> HIDE DEF e, f, L, N
    <3>1. e \in Nat /\ f = e + L + 1 /\ f <= N /\ L \in Nat /\ t \in Nat /\ N \in Nat /\ Len(b) \in Nat /\ t + N + 1 <= Len(b)
      BY <1>0, <2>2, <2>3
    <3>2. o \in Nat /\ o + L = t + f
      BY <3>1
    <3> QED BY <3>1, <3>2
  <2>6. CASE L > 63
    <3>1. ReadAt(b, o) = Fail
      <4> HIDE DEF o, L
      <4> QED BY <2>2, <2>5, <2>6, ReadNot
    <3>2. ~ \A i \in j + 1 .. m : Len(labels[i]) <= 63
      BY <2>1, <2>3, <2>6
    <3>3. ReadsOn(b, t, labels, j)
      BY <3>1, <3>2 DEF ReadsOn, Fail
    <3> QED BY <1>2, <3>3
  <2>7. CASE L <= 63
    <3>1. b[o] \in 1 .. 63
      <4> HIDE DEF o, L
      <4>1. L \in 1 .. 63 /\ b[o] = L
        BY <2>2, <2>3, <2>7
      <4> QED BY <4>1
    <3> DEFINE r == ReadAt(b, t + f + 1)
               z == SubSeq(b, o + 1, o + L)
    <3>2. ReadAt(b, o) = [ok |-> r.ok, labels |-> <<Lower(z)>> \o r.labels, next |-> r.next]
      <4> HIDE DEF o, L, f
      <4>1. ReadAt(b, o) = [ok |-> ReadAt(b, o + L + 1).ok,
                          labels |-> <<Lower(SubSeq(b, o + 1, o + L))>> \o ReadAt(b, o + L + 1).labels,
                          next |-> ReadAt(b, o + L + 1).next]
        BY <2>2, <2>5, <3>1, ReadLabel
      <4> QED BY <4>1, <2>5
    <3>3. z = l
      <4>1. o + 1 \in 1 .. Len(b) + 1 /\ o + L \in (o + 1) - 1 .. Len(b) /\ (o + L) - (o + 1) + 1 = L
        <5> HIDE DEF o, L
        <5> QED BY <1>0, <2>3, <2>5
      <4>2. z \in Seq(Nat) /\ Len(z) = L /\ \A i \in 1 .. L : z[i] = b[(o + 1) + i - 1]
        <5> HIDE DEF o, L
        <5> QED BY <4>1, Slices, ZenonT(30)
      <4>3. ASSUME NEW i \in 1 .. L
            PROVE  z[i] = l[i]
        <5>1. (o + 1) + i - 1 = o + i
          <6> HIDE DEF o
          <6> QED BY <2>3, <2>5
        <5> QED BY <2>2, <4>2, <5>1
      <4> HIDE DEF z, l
      <4> QED BY <2>3, <4>2, <4>3, SeqEqual DEF L
    <3>4. Labelled(labels, j) = <<Lower(l)>> \o Labelled(labels, j + 1)
      BY <2>1, AfterGrows
    <3>5. (\A i \in j + 1 .. m : Len(labels[i]) <= 63) <=> (\A i \in (j + 1) + 1 .. m : Len(labels[i]) <= 63)
      <4>1. \A i \in j + 1 .. m : i = j + 1 \/ i \in (j + 1) + 1 .. m
        BY <1>0, <2>1
      <4>2. \A i \in (j + 1) + 1 .. m : i \in j + 1 .. m
        BY <1>0, <2>1
      <4> QED BY <2>7, <4>1, <4>2
    <3>6. r.ok = FALSE => ReadAt(b, o).ok = FALSE
      BY <3>2
    <3> HIDE DEF z, l
    <3>7. ReadsOn(b, t, labels, j)
      <4>1. CASE \A i \in j + 1 .. m : Len(labels[i]) <= 63
        <5>1. r = [ok |-> TRUE, labels |-> Labelled(labels, j + 1), next |-> t + N + 2]
          BY <2>4, <3>5, <4>1 DEF ReadsOn
        <5>2. ReadAt(b, o) = [ok |-> TRUE, labels |-> Labelled(labels, j), next |-> t + N + 2]
          <6> HIDE DEF r
          <6> QED BY <3>2, <3>3, <3>4, <5>1
        <5> QED BY <4>1, <5>2 DEF ReadsOn
      <4>2. CASE ~ \A i \in j + 1 .. m : Len(labels[i]) <= 63
        <5>1. r.ok = FALSE
          BY <2>4, <3>5, <4>2 DEF ReadsOn
        <5> QED BY <3>6, <4>2, <5>1 DEF ReadsOn
      <4> QED BY <4>1, <4>2
    <3> QED BY <1>2, <3>7
  <2>8. L > 63 \/ L <= 63
    BY <2>3
  <2> QED BY <2>6, <2>7, <2>8
<1> QED BY <1>4, <1>5

\* One turn of the loop over the lengths of a name's labels, and the loop.
LenTurn(labels, f, n) == IF n = 0 THEN 0 ELSE f[n - 1] + Len(labels[n]) + 1
LenLoop(labels) == CHOOSE f : f = [n \in 0 .. Len(labels) |-> LenTurn(labels, f, n)]

\* The length that is checked is the length on the wire.
LEMMA TotalLen ==
  ASSUME NEW labels \in Seq(Labels), NEW s, Len(s) = Len(labels),
         \A j \in 1 .. Len(labels) : Len(s[j]) = Len(labels[j])
  PROVE  total_len(s) = Len(WireName(labels))
<1> DEFINE W == Wired(labels)
           m == Len(labels)
           P(n) == Len(Put(W, n))
           h == LenLoop(s)
           Bad == {n \in 0 .. m : h[n] # P(n)}
<1>1. /\ W \in Seq(Seq(Nat)) /\ Len(W) = m /\ Put(W, m) = WireName(labels)
      /\ \A n \in 1 .. m : Len(W[n]) = Len(labels[n]) + 1
  BY WiredTyped
<1>2. m \in Nat /\ \A n \in 1 .. m : Len(s[n]) \in Nat /\ Len(s[n]) = Len(labels[n])
  BY LabelTyped
<1>3. P(0) = 0 /\ (\A n \in 0 .. m : P(n) \in Nat) /\ \A n \in 1 .. m : P(n) = P(n - 1) + Len(s[n]) + 1
  <2> HIDE DEF W
  <2>1. P(0) = 0
    <3>1. Put(W, 0) = << >>
      BY <1>1, PartsGrow
    <3> QED BY <3>1
  <2>2. ASSUME NEW n \in 0 .. m
        PROVE  P(n) \in Nat
    <3>1. Put(W, n) \in Seq(Nat)
      BY <1>1, PartsGrow
    <3> QED BY <3>1, LenProperties
  <2>3. ASSUME NEW n \in 1 .. m
        PROVE  P(n) = P(n - 1) + Len(s[n]) + 1
    <3>1. P(n) = P(n - 1) + Len(W[n])
      BY <1>1, PartsAt
    <3>2. n - 1 \in 0 .. m
      BY <1>2
    <3>3. P(n - 1) \in Nat /\ Len(W[n]) = Len(s[n]) + 1 /\ Len(s[n]) \in Nat
      BY <1>1, <1>2, <2>2, <3>2
    <3> HIDE DEF P
    <3> QED BY <3>1, <3>3
  <2> QED BY <2>1, <2>2, <2>3
<1> HIDE DEF P, W
<1>4. h = [n \in 0 .. m |-> LenTurn(s, h, n)]
  <2> DEFINE g == [n \in 0 .. m |-> P(n)]
  <2>1. ASSUME NEW n \in 0 .. m
        PROVE  P(n) = LenTurn(s, g, n)
    <3>1. CASE n = 0
      BY <1>3, <3>1 DEF LenTurn
    <3>2. CASE n # 0
      <4>1. n \in 1 .. m /\ n - 1 \in 0 .. m
        BY <1>2, <3>2
      <4>2. g[n - 1] = P(n - 1)
        BY <4>1
      <4> HIDE DEF g
      <4> QED BY <1>3, <3>2, <4>1, <4>2 DEF LenTurn
    <3> QED BY <3>1, <3>2
  <2>2. g = [n \in 0 .. m |-> LenTurn(s, g, n)]
    <3> DEFINE v == g
    <3>1. \A n \in 0 .. m : P(n) = LenTurn(s, v, n)
      BY <2>1
    <3> HIDE DEF v
    <3>2. [n \in 0 .. m |-> P(n)] = [n \in 0 .. m |-> LenTurn(s, v, n)]
      BY <3>1
    <3> QED BY <3>2 DEF v
  <2> HIDE DEF g, m
  <2> QED BY <2>2 DEF LenLoop, m
<1>5. ASSUME NEW n \in 0 .. m
      PROVE  h[n] = LenTurn(s, h, n)
  <2> HIDE DEF h, m
  <2> QED BY <1>4
<1> HIDE DEF h
<1>6. Bad = {}
  <2> SUFFICES ASSUME Bad # {} PROVE FALSE
    OBVIOUS
  <2>1. PICK k \in Bad : \A j \in Bad : k <= j
    <3>1. Bad \in SUBSET Nat
      BY <1>2
    <3> HIDE DEF Bad
    <3> QED BY <3>1, Least
  <2>2. k \in 0 .. m /\ h[k] # P(k)
    BY <2>1
  <2>3. k # 0
    BY <1>3, <1>5, <2>2 DEF LenTurn
  <2>4. k \in 1 .. m /\ k - 1 \in 0 .. m /\ ~(k <= k - 1)
    BY <1>2, <2>2, <2>3
  <2>5. h[k - 1] = P(k - 1)
    BY <2>1, <2>4
  <2>6. h[k] = h[k - 1] + Len(s[k]) + 1
    BY <1>5, <2>2, <2>3 DEF LenTurn
  <2>7. P(k) = P(k - 1) + Len(s[k]) + 1
    BY <1>3, <2>4
  <2> QED BY <2>2, <2>5, <2>6, <2>7
<1>7. h[m] = P(m)
  <2>1. m \in 0 .. m
    BY <1>2
  <2> QED BY <1>6, <2>1
<1>8. total_len(s) = h[m]
  BY DEF total_len, LenLoop, LenTurn, h
<1> QED BY <1>1, <1>7, <1>8 DEF P

\* The bounds that are checked, of one name.
NameFits(labels) == Len(WireName(labels)) <= 255 /\ \A j \in 1 .. Len(labels) : Len(labels[j]) <= 63

\* What is known of the labels in lower case.
LEMMA LabelledTyped ==
  ASSUME NEW labels \in Seq(Labels)
  PROVE  /\ DOMAIN Labelled(labels, 0) = 1 .. Len(labels) /\ Len(Labelled(labels, 0)) = Len(labels)
         /\ \A j \in 1 .. Len(labels) :
              Labelled(labels, 0)[j] = Lower(labels[j]) /\ Len(Labelled(labels, 0)[j]) = Len(labels[j])
<1> DEFINE m == Len(labels)
           d == Labelled(labels, 0)
<1>0. m \in Nat /\ \A j \in 1 .. m : Lower(labels[j]) \in Seq(Nat) /\ Len(Lower(labels[j])) = Len(labels[j])
  BY LabelTyped, LowerTyped
<1>1. m - 0 = m /\ \A j \in 1 .. m : 0 + j = j
  BY <1>0
<1>2. d = [j \in 1 .. m |-> Lower(labels[j])]
  BY <1>1 DEF Labelled
<1>3. DOMAIN d = 1 .. m /\ \A j \in 1 .. m : d[j] = Lower(labels[j])
  BY <1>2
<1>4. d \in Seq(Seq(Nat)) /\ Len(d) = m
  <2>1. d \in [1 .. m -> Seq(Nat)]
    BY <1>0, <1>2
  <2> HIDE DEF d
  <2>2. d \in Seq(Seq(Nat))
    BY <1>0, <2>1, SeqDef
  <2> QED BY <1>0, <1>3, <2>2, LenProperties
<1> HIDE DEF d
<1>5. \A j \in 1 .. m : Len(d[j]) = Len(labels[j])
  BY <1>0, <1>3
<1> QED BY <1>3, <1>4, <1>5 DEF d

\* The name that is read is the one that is asked.
LEMMA LabelledAsks ==
  ASSUME NEW labels \in Seq(Labels)
  PROVE  Asks(Labelled(labels, 0), labels)
<1> DEFINE d == Labelled(labels, 0)
<1>1. DOMAIN labels = 1 .. Len(labels) /\ DOMAIN d = 1 .. Len(labels)
  BY LabelTyped, LabelledTyped
<1>2. ASSUME NEW j \in 1 .. Len(labels)
      PROVE  /\ DOMAIN d[j] = DOMAIN labels[j]
             /\ \A n \in DOMAIN labels[j] :
                  /\ d[j][n] \notin Capitals
                  /\ d[j][n] = labels[j][n] \/ (labels[j][n] \in Capitals /\ d[j][n] = labels[j][n] + 32)
  <2> DEFINE l == labels[j]
  <2>1. l \in Seq(Nat) /\ \A n \in DOMAIN l : l[n] \in Nat
    BY LabelTyped
  <2>2. d[j] = Lower(l)
    BY LabelledTyped
  <2> HIDE DEF l
  <2>3. DOMAIN Lower(l) = DOMAIN l /\ \A n \in DOMAIN l : Lower(l)[n] = IF l[n] \in Capitals THEN l[n] + 32 ELSE l[n]
    BY <2>1, LowerTyped
  <2>4. ASSUME NEW n \in DOMAIN l
        PROVE  /\ Lower(l)[n] \notin Capitals
               /\ Lower(l)[n] = l[n] \/ (l[n] \in Capitals /\ Lower(l)[n] = l[n] + 32)
    <3> DEFINE v == l[n]
               w == Lower(l)[n]
    <3>1. v \in Nat /\ w = IF v \in Capitals THEN v + 32 ELSE v
      BY <2>1, <2>3
    <3> HIDE DEF v, w
    <3>2. w \notin Capitals /\ (w = v \/ (v \in Capitals /\ w = v + 32))
      BY <3>1 DEF Capitals
    <3> QED BY <3>2 DEF v, w
  <2> HIDE DEF d
  <2> QED BY <2>2, <2>3, <2>4 DEF l
<1> HIDE DEF d
<1>3. Asks(d, labels)
  BY <1>1, <1>2 DEF Asks
<1> QED BY <1>3 DEF d

\* A name on the wire is read when it fits.
LEMMA QnameOnWire ==
  ASSUME NEW b \in Seq(Nat), NEW t, NEW labels \in Seq(Labels), NameHere(b, t, labels)
  PROVE  IF NameFits(labels)
         THEN parse_qname(b, t + 1) =
                [ok |-> TRUE, labels |-> Labelled(labels, 0), next |-> t + Len(WireName(labels)) + 2]
         ELSE parse_qname(b, t + 1).ok = FALSE
<1> DEFINE N == Len(WireName(labels))
           r == ReadAt(b, t + 1)
           m == Len(labels)
<1>1. m \in Nat /\ 0 \in 0 .. m /\ 0 + 1 = 1 /\ t \in Nat
  BY LabelTyped DEF NameHere
<1>2. EndOf(labels, 0) = 0
  <2>1. Put(Wired(labels), 0) = << >>
    BY WiredTyped, PartsGrow
  <2> QED BY <2>1 DEF EndOf
<1>3. IF \A i \in 1 .. m : Len(labels[i]) <= 63
      THEN r = [ok |-> TRUE, labels |-> Labelled(labels, 0), next |-> t + N + 2]
      ELSE r.ok = FALSE
  <2>1. ReadsOn(b, t, labels, 0)
    BY <1>1, NameOnWire
  <2>2. t + 0 + 1 = t + 1
    BY <1>1
  <2> QED BY <1>1, <1>2, <2>1, <2>2 DEF ReadsOn
<1>4. total_len(Labelled(labels, 0)) = N
  BY LabelledTyped, TotalLen
<1>5. parse_qname(b, t + 1) = IF r.ok /\ total_len(r.labels) <= 255 THEN r ELSE Fail
  BY NameRead
<1> HIDE DEF r
<1>6. CASE NameFits(labels)
  <2>1. N <= 255 /\ r = [ok |-> TRUE, labels |-> Labelled(labels, 0), next |-> t + N + 2]
    BY <1>3, <1>6 DEF NameFits
  <2> QED BY <1>4, <1>5, <1>6, <2>1
<1>7. CASE ~NameFits(labels)
  <2>1. CASE ~ \A i \in 1 .. m : Len(labels[i]) <= 63
    BY <1>3, <1>5, <1>7, <2>1 DEF Fail
  <2>2. CASE \A i \in 1 .. m : Len(labels[i]) <= 63
    <3>1. ~(N <= 255) /\ r.labels = Labelled(labels, 0)
      BY <1>3, <1>7, <2>2 DEF NameFits
    <3> QED BY <1>4, <1>5, <1>7, <3>1 DEF Fail
  <2> QED BY <2>1, <2>2
<1> QED BY <1>6, <1>7

\* A name read of the beginning of some bytes is the name read of them all.
LEMMA QnameExtends ==
  ASSUME NEW p \in Seq(Nat), NEW b \in Seq(Nat), Len(p) <= Len(b), \A i \in 1 .. Len(p) : b[i] = p[i],
         NEW o \in 1 .. Len(p) + 1, parse_qname(p, o).ok
  PROVE  parse_qname(b, o) = parse_qname(p, o) /\ parse_qname(p, o).next \in o + 1 .. Len(p) + 1
<1>1. Agrees(p, b, o)
  BY ReadExtends
<1> DEFINE r == ReadAt(p, o)
           s == ReadAt(b, o)
<1>2. parse_qname(p, o) = IF r.ok /\ total_len(r.labels) <= 255 THEN r ELSE Fail
  BY NameRead
<1>3. parse_qname(b, o) = IF s.ok /\ total_len(s.labels) <= 255 THEN s ELSE Fail
  BY NameRead
<1>4. r.ok => s = r /\ r.next \in o + 1 .. Len(p) + 1
  BY <1>1 DEF Agrees
<1> HIDE DEF r, s
<1>5. r.ok /\ total_len(r.labels) <= 255
  BY <1>2 DEF Fail
<1> QED BY <1>2, <1>3, <1>4, <1>5

\* No name is read where a byte is no length of a label.
LEMMA QnameNot ==
  ASSUME NEW b \in Seq(Nat), NEW o \in 1 .. Len(b) + 1, o > Len(b) \/ b[o] > 63
  PROVE  parse_qname(b, o).ok = FALSE
<1>1. ReadAt(b, o) = Fail
  BY ReadNot
<1> QED BY <1>1, NameRead DEF Fail

-----------------------------------------------------------------------------
(* Questions *)

\* The next question after those that were parsed; one turn of the loop over n questions, and the loop.
Onward(b, acc) ==
  LET name == parse_qname(b, acc.next)
  IN  IF acc.ok /\ name.ok /\ name.next + 3 <= Len(b)
        THEN [ok |-> TRUE, next |-> name.next + 4,
              questions |-> Append(acc.questions, [name |-> name.labels,
                                                   type |-> SubSeq(b, name.next, name.next + 3)])]
      ELSE [acc EXCEPT !.ok = FALSE]

QueryTurn(b, n, f, k) ==
  IF k = 0 THEN [ok |-> n > 0, next |-> 1, questions |-> << >>] ELSE Onward(b, f[k - 1])

QueryLoop(b, n) == CHOOSE f : f = [k \in 0 .. n |-> QueryTurn(b, n, f, k)]

\* What is parsed of the first k questions of n.
Parsed(b, n, k) == QueryLoop(b, n)[k]

\* A query is parsed by that loop.
LEMMA QueryParsed ==
  ASSUME NEW q
  PROVE  parse_dns_query(q) = Parsed(q.bytes, q.qdcount, q.qdcount)
BY Zenon DEF parse_dns_query, Parsed, QueryLoop, QueryTurn, Onward

\* There is a function that the loop defines.
LEMMA ParsedIs ==
  ASSUME NEW b, NEW n \in Nat
  PROVE  \A k \in 0 .. n : Parsed(b, n, k) = QueryTurn(b, n, QueryLoop(b, n), k)
<1> DEFINE T(f, k) == QueryTurn(b, n, f, k)
           Upto(m, f) == DOMAIN f = 0 .. n /\ \A k \in 0 .. m : f[k] = T(f, k)
           Bad == {m \in 0 .. n : ~\E f : Upto(m, f)}
<1>0. ASSUME NEW f, NEW g, NEW k, k # 0 => f[k - 1] = g[k - 1]
      PROVE  T(f, k) = T(g, k)
  BY <1>0 DEF QueryTurn
<1> HIDE DEF T
<1>1. \E f : Upto(0, f)
  <2> DEFINE z == [k \in 0 .. n |-> 0]
             v == T(z, 0)
  <2> HIDE DEF v
  <2> DEFINE g == [k \in 0 .. n |-> v]
  <2>1. 0 \in 0 .. n /\ \A k \in 0 .. 0 : k = 0
    OBVIOUS
  <2>2. g[0] = T(g, 0)
    <3>1. g[0] = v
      BY <2>1
    <3> HIDE DEF g, z
    <3>2. T(z, 0) = T(g, 0)
      BY <1>0
    <3> QED BY <3>1, <3>2 DEF v
  <2>3. DOMAIN g = 0 .. n
    OBVIOUS
  <2>4. Upto(0, g)
    <3> HIDE DEF g
    <3> QED BY <2>1, <2>2, <2>3
  <2> HIDE DEF Upto
  <2> QED BY <2>4
<1>2. ASSUME NEW m \in 1 .. n, NEW f, Upto(m - 1, f)
      PROVE  \E g : Upto(m, g)
  <2> DEFINE v == T(f, m)
  <2> HIDE DEF v
  <2> DEFINE g == [k \in 0 .. n |-> IF k = m THEN v ELSE f[k]]
  <2>1. ASSUME NEW k \in 0 .. m
        PROVE  g[k] = T(g, k)
    <3>1. k \in 0 .. n /\ (k # m => k \in 0 .. m - 1)
      OBVIOUS
    <3>2. k # 0 => (k - 1 \in 0 .. n /\ k - 1 # m)
      OBVIOUS
    <3>3. k # 0 => g[k - 1] = f[k - 1]
      BY <3>2
    <3>4. T(g, k) = T(f, k)
      <4> HIDE DEF g
      <4> QED BY <1>0, <3>3
    <3>5. CASE k = m
      BY <3>1, <3>4, <3>5 DEF v
    <3>6. CASE k # m
      <4>1. g[k] = f[k]
        BY <3>1, <3>6
      <4>2. f[k] = T(f, k)
        <5> HIDE DEF g
        <5> QED BY <1>2, <3>1, <3>6
      <4> QED BY <3>4, <4>1, <4>2
    <3> QED BY <3>5, <3>6
  <2>2. Upto(m, g)
    <3>1. DOMAIN g = 0 .. n
      OBVIOUS
    <3> HIDE DEF g
    <3> QED BY <2>1, <3>1
  <2> HIDE DEF Upto
  <2> QED BY <2>2
<1> HIDE DEF Upto
<1>3. Bad = {}
  <2> SUFFICES ASSUME Bad # {} PROVE FALSE
    OBVIOUS
  <2>1. PICK k \in Bad : \A j \in Bad : k <= j
    <3>1. Bad \in SUBSET Nat
      OBVIOUS
    <3> HIDE DEF Bad
    <3> QED BY <3>1, Least
  <2>2. k \in 0 .. n /\ ~\E f : Upto(k, f)
    BY <2>1
  <2>3. k # 0
    BY <1>1, <2>2
  <2>4. k \in 1 .. n /\ k - 1 \in 0 .. n /\ ~(k <= k - 1)
    BY <2>2, <2>3
  <2>5. \E f : Upto(k - 1, f)
    BY <2>1, <2>4
  <2> QED BY <1>2, <2>2, <2>4, <2>5
<1>4. PICK f : Upto(n, f)
  <2>1. n \in 0 .. n
    OBVIOUS
  <2> QED BY <1>3, <2>1
<1> DEFINE h == [k \in 0 .. n |-> f[k]]
<1>5. ASSUME NEW k \in 0 .. n
      PROVE  f[k] = T(h, k)
  <2>1. f[k] = T(f, k)
    BY <1>4 DEF Upto
  <2>2. k # 0 => k - 1 \in 0 .. n
    OBVIOUS
  <2>3. k # 0 => f[k - 1] = h[k - 1]
    BY <2>2
  <2> HIDE DEF h
  <2> QED BY <1>0, <2>1, <2>3
<1>6. h = [k \in 0 .. n |-> T(h, k)]
  <2> DEFINE v == h
  <2>1. \A k \in 0 .. n : f[k] = T(v, k)
    BY <1>5
  <2> HIDE DEF v
  <2>2. [k \in 0 .. n |-> f[k]] = [k \in 0 .. n |-> T(v, k)]
    BY <2>1
  <2> QED BY <2>2 DEF v
<1> HIDE DEF h
<1>7. QueryLoop(b, n) = [k \in 0 .. n |-> T(QueryLoop(b, n), k)]
  BY <1>6 DEF QueryLoop, T
<1> DEFINE Q == QueryLoop(b, n)
<1> HIDE DEF Q
<1>8. \A k \in 0 .. n : Q[k] = T(Q, k)
  <2>1. Q = [k \in 0 .. n |-> T(Q, k)]
    BY <1>7 DEF Q
  <2> QED BY <2>1
<1> QED BY <1>8 DEF Q, T, Parsed

\* The first question is parsed from the first byte on.
LEMMA ParsedFirst ==
  ASSUME NEW b, NEW n \in Nat
  PROVE  Parsed(b, n, 0) = [ok |-> n > 0, next |-> 1, questions |-> << >>]
<1>1. 0 \in 0 .. n
  OBVIOUS
<1> QED BY <1>1, ParsedIs DEF QueryTurn

\* Each question is parsed from where the one before it ends.
LEMMA ParsedNext ==
  ASSUME NEW b, NEW n \in Nat, NEW k \in 1 .. n
  PROVE  Parsed(b, n, k) = Onward(b, Parsed(b, n, k - 1))
<1>1. k \in 0 .. n /\ k # 0
  OBVIOUS
<1>2. Parsed(b, n, k) = QueryTurn(b, n, QueryLoop(b, n), k)
  BY <1>1, ParsedIs
<1> QED BY <1>1, <1>2 DEF QueryTurn, Parsed

\* What is parsed always says whether it is good.
LEMMA ParsedRecord ==
  ASSUME NEW b, NEW n \in Nat
  PROVE  \A k \in 0 .. n : "ok" \in DOMAIN Parsed(b, n, k)
<1> DEFINE Bad == {k \in 0 .. n : "ok" \notin DOMAIN Parsed(b, n, k)}
<1> SUFFICES ASSUME Bad # {} PROVE FALSE
  OBVIOUS
<1>1. PICK k \in Bad : \A j \in Bad : k <= j
  <2>1. Bad \in SUBSET Nat
    OBVIOUS
  <2> HIDE DEF Bad
  <2> QED BY <2>1, Least
<1>2. k \in 0 .. n /\ "ok" \notin DOMAIN Parsed(b, n, k)
  BY <1>1
<1>3. k # 0
  <2>1. Parsed(b, n, 0) = [ok |-> n > 0, next |-> 1, questions |-> << >>]
    BY ParsedFirst
  <2>2. "ok" \in DOMAIN Parsed(b, n, 0)
    BY <2>1
  <2> QED BY <1>2, <2>2
<1>4. k \in 1 .. n /\ k - 1 \in 0 .. n /\ ~(k <= k - 1)
  BY <1>2, <1>3
<1>5. "ok" \in DOMAIN Parsed(b, n, k - 1)
  BY <1>1, <1>4
<1> DEFINE acc == Parsed(b, n, k - 1)
<1>6. Parsed(b, n, k) = Onward(b, acc)
  BY <1>4, ParsedNext
<1> HIDE DEF acc
<1>7. "ok" \in DOMAIN [acc EXCEPT !.ok = FALSE]
  BY <1>5 DEF acc
<1>8. "ok" \in DOMAIN Onward(b, acc)
  BY <1>7 DEF Onward
<1> QED BY <1>2, <1>6, <1>8

\* It is not good when the question is not.
LEMMA ParsedNot ==
  ASSUME NEW b, NEW n \in Nat, NEW k \in 1 .. n,
         LET acc == Parsed(b, n, k - 1)
             name == parse_qname(b, acc.next)
         IN  ~(acc.ok /\ name.ok /\ name.next + 3 <= Len(b))
  PROVE  Parsed(b, n, k).ok = FALSE
<1> DEFINE acc == Parsed(b, n, k - 1)
           name == parse_qname(b, acc.next)
<1>1. k - 1 \in 0 .. n
  OBVIOUS
<1>2. "ok" \in DOMAIN acc
  BY <1>1, ParsedRecord
<1>3. ~(acc.ok /\ name.ok /\ name.next + 3 <= Len(b))
  OBVIOUS
<1>4. Parsed(b, n, k) = Onward(b, acc)
  BY ParsedNext
<1> HIDE DEF acc
<1>5. Onward(b, acc) = [acc EXCEPT !.ok = FALSE]
  BY <1>3 DEF Onward
<1> QED BY <1>2, <1>4, <1>5

\* The questions of a query as they are on the wire.
Asked(questions) == [i \in DOMAIN questions |-> WireName(questions[i]) \o <<0, 0, 1, 0, 1>>]

\* Where the k-th question ends.
Until(questions, k) == Len(Put(Asked(questions), k))

\* What is known of the questions of a query and of their bytes.
LEMMA AskedTyped ==
  ASSUME NEW questions \in Seq(Seq(Labels))
  PROVE  /\ Len(questions) \in Nat /\ DOMAIN questions = 1 .. Len(questions)
         /\ \A i \in 1 .. Len(questions) : questions[i] \in Seq(Labels) /\ WireName(questions[i]) \in Seq(Nat)
                                           /\ Len(WireName(questions[i])) \in Nat
         /\ Asked(questions) \in Seq(Seq(Nat)) /\ Len(Asked(questions)) = Len(questions)
         /\ Wire(questions) = Put(Asked(questions), Len(questions)) /\ Wire(questions) \in Seq(Nat)
         /\ \A i \in 1 .. Len(questions) :
              /\ Len(Asked(questions)[i]) = Len(WireName(questions[i])) + 5
              /\ \A k \in 1 .. Len(WireName(questions[i])) : Asked(questions)[i][k] = WireName(questions[i])[k]
              /\ \A k \in 1 .. 5 : Asked(questions)[i][Len(WireName(questions[i])) + k] = <<0, 0, 1, 0, 1>>[k]
<1> DEFINE A == Asked(questions)
           n == Len(questions)
<1>1. n \in Nat /\ DOMAIN questions = 1 .. n
  BY LenProperties
<1>2. ASSUME NEW i \in 1 .. n
      PROVE  questions[i] \in Seq(Labels) /\ WireName(questions[i]) \in Seq(Nat) /\ Len(WireName(questions[i])) \in Nat
  <2>1. questions[i] \in Seq(Labels)
    BY ElementOfSeq
  <2>2. WireName(questions[i]) \in Seq(Nat)
    BY <2>1, WiredTyped
  <2> QED BY <2>1, <2>2, LenProperties
<1>3. ASSUME NEW i \in 1 .. n
      PROVE  /\ A[i] \in Seq(Nat) /\ Len(A[i]) = Len(WireName(questions[i])) + 5
             /\ \A k \in 1 .. Len(WireName(questions[i])) : A[i][k] = WireName(questions[i])[k]
             /\ \A k \in 1 .. 5 : A[i][Len(WireName(questions[i])) + k] = <<0, 0, 1, 0, 1>>[k]
  <2> DEFINE p == WireName(questions[i])
             s == <<0, 0, 1, 0, 1>>
             z == p \o s
  <2>1. A[i] = z
    BY <1>1 DEF Asked
  <2>2. s \in Seq(Nat) /\ Len(s) = 5
    OBVIOUS
  <2>3. p \in Seq(Nat) /\ Len(p) \in Nat
    BY <1>2
  <2> HIDE DEF p, s
  <2>4. z \in Seq(Nat) /\ Len(z) = Len(p) + Len(s)
        /\ \A k \in 1 .. Len(p) + Len(s) : z[k] = IF k <= Len(p) THEN p[k] ELSE s[k - Len(p)]
    BY <2>2, <2>3, ConcatProperties
  <2> HIDE DEF z
  <2>5. \A k \in 1 .. Len(p) : z[k] = p[k]
    <3> SUFFICES ASSUME NEW k \in 1 .. Len(p) PROVE z[k] = p[k]
      OBVIOUS
    <3>1. k \in 1 .. Len(p) + Len(s) /\ k <= Len(p)
      BY <2>2, <2>3
    <3> QED BY <2>4, <3>1
  <2>6. ASSUME NEW k \in 1 .. 5
        PROVE  z[Len(p) + k] = s[k]
    <3>1. Len(p) + k \in 1 .. Len(p) + Len(s) /\ ~(Len(p) + k <= Len(p)) /\ (Len(p) + k) - Len(p) = k
      BY <2>2, <2>3
    <3> QED BY <2>4, <3>1
  <2>7. Len(z) = Len(p) + 5
    BY <2>2, <2>4
  <2> HIDE DEF A
  <2> QED BY <2>1, <2>4, <2>5, <2>6, <2>7 DEF p, s
<1>4. A \in Seq(Seq(Nat)) /\ Len(A) = n
  <2>1. A \in [1 .. n -> Seq(Nat)]
    <3>1. A = [i \in 1 .. n |-> WireName(questions[i]) \o <<0, 0, 1, 0, 1>>]
      BY <1>1 DEF Asked
    <3>2. DOMAIN A = 1 .. n /\ A = [i \in 1 .. n |-> A[i]]
      BY <3>1
    <3> HIDE DEF A
    <3> QED BY <1>3, <3>2
  <2> HIDE DEF A
  <2>2. A \in Seq(Seq(Nat)) /\ DOMAIN A = 1 .. n
    <3> HIDE DEF n
    <3> QED BY <1>1, <2>1, SeqDef
  <2> QED BY <1>1, <2>2, LenProperties
<1>5. Wire(questions) = FlattenSeq(A)
  BY DEF Wire, Asked
<1> HIDE DEF A
<1>6. Wire(questions) = Put(A, n)
  BY <1>4, <1>5, PartsFlatten
<1>7. Put(A, n) \in Seq(Nat)
  <2>1. n \in 0 .. Len(A)
    BY <1>1, <1>4
  <2> QED BY <1>4, <2>1, PartsGrow
<1> QED BY <1>1, <1>2, <1>3, <1>4, <1>6, <1>7 DEF A

\* The bytes begin with the questions.
QueryHere(b, questions) ==
  /\ Len(Wire(questions)) <= Len(b)
  /\ \A k \in 1 .. Len(Wire(questions)) : b[k] = Wire(questions)[k]

\* Where a question is among the bytes.
LEMMA QuestionHere ==
  ASSUME NEW b \in Seq(Nat), NEW questions \in Seq(Seq(Labels)), QueryHere(b, questions), NEW i \in 1 .. Len(questions)
  PROVE  /\ Until(questions, i - 1) \in Nat
         /\ Until(questions, i) = Until(questions, i - 1) + Len(WireName(questions[i])) + 5
         /\ Until(questions, i) <= Len(Wire(questions))
         /\ NameHere(b, Until(questions, i - 1), questions[i])
         /\ SubSeq(b, Until(questions, i - 1) + Len(WireName(questions[i])) + 2,
                      Until(questions, i - 1) + Len(WireName(questions[i])) + 5) = <<0, 1, 0, 1>>
<1> DEFINE A == Asked(questions)
           X == Wire(questions)
           e == Until(questions, i - 1)
           f == Until(questions, i)
           p == WireName(questions[i])
           N == Len(p)
           n == Len(questions)
<1>1. /\ A \in Seq(Seq(Nat)) /\ Len(A) = n /\ X = Put(A, n) /\ X \in Seq(Nat) /\ Len(X) \in Nat
      /\ Len(A[i]) = N + 5 /\ N \in Nat /\ n \in Nat /\ Len(b) \in Nat
      /\ \A k \in 1 .. N : A[i][k] = p[k]
      /\ \A k \in 1 .. 5 : A[i][N + k] = <<0, 0, 1, 0, 1>>[k]
  <2>1. X \in Seq(Nat) /\ b \in Seq(Nat)
    BY AskedTyped
  <2>2. Len(X) \in Nat /\ Len(b) \in Nat
    BY <2>1, LenProperties
  <2> HIDE DEF X
  <2> QED BY <2>1, <2>2, AskedTyped DEF X
<1>2. i \in 0 .. n /\ i - 1 \in 0 .. n /\ i \in 1 .. n
  BY <1>1
<1>3. /\ e \in 0 .. Len(X) /\ f \in 0 .. Len(X) /\ f = e + (N + 5)
      /\ \A k \in 1 .. N + 5 : X[e + k] = A[i][k]
  <2> DEFINE P(k) == Put(A, k)
  <2>1. /\ \A k \in 0 .. Len(A) : Len(P(k)) \in 0 .. Len(P(Len(A)))
        /\ \A k \in 1 .. Len(A) : Len(P(k)) = Len(P(k - 1)) + Len(A[k])
        /\ \A k \in 1 .. Len(A) : \A j \in 1 .. Len(A[k]) : P(Len(A))[Len(P(k - 1)) + j] = A[k][j]
    <3>1. A \in Seq(Seq(Nat))
      BY <1>1
    <3> HIDE DEF A
    <3> QED BY <3>1, PartsAt
  <2>2. e = Len(P(i - 1)) /\ f = Len(P(i)) /\ X = P(Len(A)) /\ Len(A[i]) = N + 5 /\ Len(A) = n
    BY <1>1 DEF Until
  <2> HIDE DEF P, A, X, e, f, N, n
  <2> QED BY <1>2, <2>1, <2>2
<1>4. Len(X) <= Len(b) /\ \A k \in 1 .. Len(X) : b[k] = X[k]
  BY DEF QueryHere
<1>0. N \in Nat /\ n \in Nat /\ Len(b) \in Nat /\ Len(X) \in Nat
  BY <1>1
<1> HIDE DEF A, X, e, f, p, N
<1>8. e \in Nat /\ f = e + N + 5 /\ f <= Len(X) /\ f <= Len(b)
  BY <1>0, <1>3, <1>4
<1>5. ASSUME NEW k \in 1 .. N + 5
      PROVE  b[e + k] = A[i][k] /\ e + k \in 1 .. Len(b)
  <2>1. e + k \in 1 .. Len(X)
    BY <1>0, <1>8
  <2>2. e + k \in 1 .. Len(b)
    BY <1>0, <1>8
  <2> QED BY <1>3, <1>4, <2>1, <2>2
<1>6. \A k \in 1 .. N : b[e + k] = p[k]
  <2> SUFFICES ASSUME NEW k \in 1 .. N PROVE b[e + k] = p[k]
    OBVIOUS
  <2>1. k \in 1 .. N + 5
    BY <1>0
  <2> QED BY <1>1, <1>5, <2>1
<1>7. ASSUME NEW k \in 1 .. 5
      PROVE  b[e + (N + k)] = <<0, 0, 1, 0, 1>>[k]
  <2>1. N + k \in 1 .. N + 5
    BY <1>0
  <2> QED BY <1>1, <1>5, <2>1
<1>9. NameHere(b, e, questions[i])
  <2>1. 1 \in 1 .. 5 /\ e + (N + 1) = e + N + 1
    BY <1>0, <1>8
  <2>2. b[e + N + 1] = 0
    BY <1>7, <2>1
  <2>3. e + N + 1 <= Len(b)
    BY <1>0, <1>8
  <2> QED BY <1>6, <1>8, <2>2, <2>3 DEF NameHere, p, N
<1>10. SubSeq(b, e + N + 2, e + N + 5) = <<0, 1, 0, 1>>
  <2> DEFINE a == e + N + 2
             d == e + N + 5
             z == SubSeq(b, a, d)
             s == <<0, 1, 0, 1>>
  <2>1. a \in 1 .. Len(b) + 1 /\ d \in a - 1 .. Len(b) /\ d - a + 1 = 4 /\ a = e + N + 2 /\ a \in Nat
    BY <1>0, <1>8
  <2> HIDE DEF a, d
  <2>2. z \in Seq(Nat) /\ Len(z) = 4 /\ \A k \in 1 .. 4 : z[k] = b[a + k - 1]
    <3>0. a \in 1 .. Len(b) + 1 /\ d \in a - 1 .. Len(b)
      BY <2>1
    <3>1. z \in Seq(Nat) /\ Len(z) = d - a + 1 /\ \A k \in 1 .. d - a + 1 : z[k] = b[a + k - 1]
      BY <3>0, Slices
    <3> QED BY <2>1, <3>1
  <2>3. ASSUME NEW k \in 1 .. 4
        PROVE  z[k] = s[k]
    <3>1. k + 1 \in 1 .. 5 /\ e + (N + (k + 1)) = a + k - 1 /\ k \in Nat
      BY <1>0, <1>8, <2>1
    <3>2. z[k] = <<0, 0, 1, 0, 1>>[k + 1]
      BY <1>7, <2>2, <3>1
    <3>3. k = 1 \/ k = 2 \/ k = 3 \/ k = 4
      OBVIOUS
    <3>4. <<0, 0, 1, 0, 1>>[k + 1] = s[k]
      BY <3>3
    <3> QED BY <3>2, <3>4
  <2>4. s \in Seq(Nat) /\ Len(s) = 4
    OBVIOUS
  <2> HIDE DEF z, s
  <2>5. z = s
    BY <2>2, <2>3, <2>4, SeqEqual
  <2> QED BY <2>5 DEF z, s, a, d
<1> QED BY <1>8, <1>9, <1>10 DEF e, f, p, N, X

\* The question that is judged, and the first k of them.
Question(labels) == [name |-> Labelled(labels, 0), type |-> <<0, 1, 0, 1>>]
Judged(questions, k) == [i \in 1 .. k |-> Question(questions[i])]

\* One question more is one more at the end.
LEMMA JudgedGrows ==
  ASSUME NEW questions, NEW k \in Nat \ {0}
  PROVE  Judged(questions, k) = Append(Judged(questions, k - 1), Question(questions[k]))
<1> DEFINE S == {Question(questions[i]) : i \in 1 .. k}
           e == Question(questions[k])
           p == Judged(questions, k - 1)
           d == Judged(questions, k)
           z == Append(p, e)
<1>1. ASSUME NEW m \in 0 .. k
      PROVE  /\ Judged(questions, m) \in Seq(S) /\ Len(Judged(questions, m)) = m
             /\ \A i \in 1 .. m : Judged(questions, m)[i] = Question(questions[i])
  <2>1. m \in Nat /\ \A i \in 1 .. m : i \in 1 .. k
    OBVIOUS
  <2>2. Judged(questions, m) \in [1 .. m -> S]
    BY <2>1 DEF Judged
  <2> HIDE DEF S
  <2>3. Judged(questions, m) \in Seq(S)
    BY <2>1, <2>2, SeqDef
  <2>4. Len(Judged(questions, m)) = m
    BY <2>1, <2>2, <2>3, LenProperties
  <2> QED BY <2>3, <2>4 DEF Judged
<1>2. p \in Seq(S) /\ Len(p) = k - 1 /\ \A i \in 1 .. k - 1 : p[i] = Question(questions[i])
  <2>1. k - 1 \in 0 .. k
    OBVIOUS
  <2> QED BY <1>1, <2>1
<1>3. d \in Seq(S) /\ Len(d) = k /\ \A i \in 1 .. k : d[i] = Question(questions[i])
  <2>1. k \in 0 .. k
    OBVIOUS
  <2> QED BY <1>1, <2>1
<1>4. e \in S
  <2>1. k \in 1 .. k
    OBVIOUS
  <2> QED BY <2>1
<1>5. e = Question(questions[k])
  OBVIOUS
<1> HIDE DEF S, e, p, d
<1>6. /\ z \in Seq(S) /\ Len(z) = Len(p) + 1 /\ (\A i \in 1 .. Len(p) : z[i] = p[i]) /\ z[Len(p) + 1] = e
  BY <1>2, <1>4, AppendProperties
<1>7. Len(d) = Len(z)
  BY <1>2, <1>3, <1>6
<1>8. ASSUME NEW i \in 1 .. Len(d)
      PROVE  d[i] = z[i]
  <2>1. CASE i = k
    <3>1. Len(p) + 1 = k /\ i \in 1 .. k
      BY <1>2, <1>3
    <3> QED BY <1>3, <1>5, <1>6, <2>1, <3>1
  <2>2. CASE i # k
    <3>1. i \in 1 .. k - 1 /\ i \in 1 .. Len(p) /\ i \in 1 .. k
      BY <1>2, <1>3, <2>2
    <3> QED BY <1>2, <1>3, <1>6, <3>1
  <2> QED BY <2>1, <2>2
<1> HIDE DEF z
<1>9. d = z
  BY <1>3, <1>6, <1>7, <1>8, SeqEqual
<1> QED BY <1>9 DEF d, z, p, e

\* What is parsed of the first k questions on the wire: all of them, unless one does not fit.
ParsedTo(b, questions, k) ==
  IF \A i \in 1 .. k : NameFits(questions[i])
  THEN Parsed(b, Len(questions), k) =
         [ok |-> TRUE, next |-> Until(questions, k) + 1, questions |-> Judged(questions, k)]
  ELSE Parsed(b, Len(questions), k).ok = FALSE

\* So it is after any number of them.
LEMMA QueryOnWire ==
  ASSUME NEW b \in Seq(Nat), NEW questions \in Seq(Seq(Labels)), questions # << >>, QueryHere(b, questions)
  PROVE  \A k \in 0 .. Len(questions) : ParsedTo(b, questions, k)
<1> DEFINE n == Len(questions)
           Bad == {k \in 0 .. n : ~ParsedTo(b, questions, k)}
<1>0. n \in Nat /\ n > 0 /\ Len(b) \in Nat /\ Len(Wire(questions)) \in Nat /\ Len(Wire(questions)) <= Len(b)
  <2>1. n \in Nat /\ Wire(questions) \in Seq(Nat)
    BY AskedTyped
  <2>2. n # 0
    BY EmptySeq
  <2>3. Len(b) \in Nat /\ Len(Wire(questions)) \in Nat
    BY <2>1, LenProperties
  <2> HIDE DEF n
  <2> QED BY <2>1, <2>2, <2>3 DEF QueryHere
<1> SUFFICES ASSUME Bad # {} PROVE FALSE
  OBVIOUS
<1>1. PICK k \in Bad : \A j \in Bad : k <= j
  <2>1. Bad \in SUBSET Nat
    BY <1>0
  <2> HIDE DEF Bad
  <2> QED BY <2>1, Least
<1>2. k \in 0 .. n /\ ~ParsedTo(b, questions, k)
  BY <1>1
<1>3. k # 0
  <2>1. Parsed(b, n, 0) = [ok |-> n > 0, next |-> 1, questions |-> << >>]
    BY <1>0, ParsedFirst
  <2>2. Until(questions, 0) = 0
    <3>1. Put(Asked(questions), 0) = << >>
      BY AskedTyped, PartsGrow
    <3> QED BY <3>1 DEF Until
  <2>3. Judged(questions, 0) = << >> /\ 1 .. 0 = {}
    BY DEF Judged
  <2>4. ParsedTo(b, questions, 0)
    <3>1. Parsed(b, n, 0) = [ok |-> TRUE, next |-> Until(questions, 0) + 1, questions |-> Judged(questions, 0)]
      <4>1. (n > 0) = TRUE
        BY <1>0
      <4>2. Until(questions, 0) + 1 = 1
        BY <2>2
      <4>3. Judged(questions, 0) = << >>
        BY <2>3
      <4> HIDE DEF n
      <4> QED BY <2>1, <4>1, <4>2, <4>3
    <3> QED BY <2>3, <3>1 DEF ParsedTo
  <2> QED BY <1>2, <2>4
<1>4. k \in 1 .. n /\ k - 1 \in 0 .. n /\ ~(k <= k - 1) /\ k \in Nat \ {0}
  BY <1>0, <1>2, <1>3
<1>5. ParsedTo(b, questions, k - 1)
  BY <1>1, <1>4
<1> HIDE DEF Bad
<1> DEFINE acc == Parsed(b, n, k - 1)
           labels == questions[k]
           N == Len(WireName(labels))
           e == Until(questions, k - 1)
           f == Until(questions, k)
<1>6. (\A i \in 1 .. k : NameFits(questions[i])) <=> (\A i \in 1 .. k - 1 : NameFits(questions[i])) /\ NameFits(labels)
  <2>1. \A i \in 1 .. k : i \in 1 .. k - 1 \/ i = k
    BY <1>4
  <2>2. k \in 1 .. k /\ \A i \in 1 .. k - 1 : i \in 1 .. k
    BY <1>4
  <2> QED BY <2>1, <2>2
<1>7. /\ e \in Nat /\ f = e + N + 5 /\ f <= Len(Wire(questions)) /\ NameHere(b, e, labels)
      /\ SubSeq(b, e + N + 2, e + N + 5) = <<0, 1, 0, 1>>
  BY <1>4, QuestionHere
<1>8. labels \in Seq(Labels) /\ N \in Nat
  BY <1>4, AskedTyped
<1>9. IF NameFits(labels)
      THEN parse_qname(b, e + 1) = [ok |-> TRUE, labels |-> Labelled(labels, 0), next |-> e + N + 2]
      ELSE parse_qname(b, e + 1).ok = FALSE
  BY <1>7, <1>8, QnameOnWire
<1>10. Parsed(b, n, k) = Onward(b, acc)
  BY <1>0, <1>4, ParsedNext
<1>11. CASE ~(\A i \in 1 .. k - 1 : NameFits(questions[i]))
  <2>1. acc.ok = FALSE
    BY <1>5, <1>11 DEF ParsedTo
  <2>2. Parsed(b, n, k).ok = FALSE
    <3> HIDE DEF n
    <3> QED BY <1>0, <1>4, <2>1, ParsedNot DEF n
  <2> QED BY <1>2, <1>6, <1>11, <2>2 DEF ParsedTo
<1>12. CASE (\A i \in 1 .. k - 1 : NameFits(questions[i])) /\ ~NameFits(labels)
  <2>1. acc.next = e + 1
    BY <1>5, <1>12 DEF ParsedTo
  <2>2. parse_qname(b, acc.next).ok = FALSE
    BY <1>9, <1>12, <2>1
  <2>3. Parsed(b, n, k).ok = FALSE
    <3> HIDE DEF n
    <3> QED BY <1>0, <1>4, <2>2, ParsedNot DEF n
  <2> QED BY <1>2, <1>6, <1>12, <2>3 DEF ParsedTo
<1>13. CASE (\A i \in 1 .. k - 1 : NameFits(questions[i])) /\ NameFits(labels)
  <2> DEFINE name == parse_qname(b, acc.next)
  <2>1. acc = [ok |-> TRUE, next |-> e + 1, questions |-> Judged(questions, k - 1)]
    BY <1>5, <1>13 DEF ParsedTo
  <2>2. acc.ok = TRUE /\ acc.next = e + 1 /\ acc.questions = Judged(questions, k - 1)
    <3> HIDE DEF acc, e
    <3> QED BY <2>1
  <2>3. name = [ok |-> TRUE, labels |-> Labelled(labels, 0), next |-> e + N + 2]
    BY <1>9, <1>13, <2>2
  <2> HIDE DEF acc
  <2>4. name.ok = TRUE /\ name.labels = Labelled(labels, 0) /\ name.next = e + N + 2
    <3> HIDE DEF name, e, N
    <3> QED BY <2>3
  <2>5. name.next + 3 = e + N + 5 /\ name.next + 4 = f + 1 /\ name.next + 3 <= Len(b)
    <3>1. name.next = e + N + 2 /\ e \in Nat /\ f = e + N + 5 /\ f <= Len(Wire(questions))
      BY <1>7, <2>4
    <3> HIDE DEF name, e, N, f
    <3> QED BY <1>0, <1>8, <3>1
  <2>6. [name |-> name.labels, type |-> SubSeq(b, name.next, name.next + 3)] = Question(labels)
    <3>1. SubSeq(b, name.next, name.next + 3) = <<0, 1, 0, 1>>
      <4>1. SubSeq(b, e + N + 2, e + N + 5) = <<0, 1, 0, 1>>
        BY <1>7
      <4> HIDE DEF name, e, N
      <4> QED BY <2>4, <2>5, <4>1
    <3> HIDE DEF name, labels
    <3> QED BY <2>4, <3>1, Zenon DEF Question
  <2>7. Onward(b, acc) = [ok |-> TRUE, next |-> name.next + 4,
              questions |-> Append(acc.questions, [name |-> name.labels,
                                                   type |-> SubSeq(b, name.next, name.next + 3)])]
    BY <2>2, <2>4, <2>5, Zenon DEF Onward
  <2> HIDE DEF name
  <2>8. Append(Judged(questions, k - 1), Question(labels)) = Judged(questions, k)
    BY <1>4, JudgedGrows
  <2>9. Parsed(b, n, k) = [ok |-> TRUE, next |-> f + 1, questions |-> Judged(questions, k)]
    <3> HIDE DEF f, n, labels
    <3> QED BY <1>10, <2>2, <2>5, <2>6, <2>7, <2>8
  <2> QED BY <1>2, <1>6, <1>13, <2>9 DEF ParsedTo
<1> QED BY <1>11, <1>12, <1>13

\* What is parsed of the beginning of some bytes is what is parsed of them all, and ends within it.
ParsedSame(p, b, n, k) ==
  Parsed(p, n, k).ok => Parsed(b, n, k) = Parsed(p, n, k) /\ Parsed(p, n, k).next \in 1 .. Len(p) + 1

\* So it is after any number of questions.
LEMMA ParsedExtends ==
  ASSUME NEW p \in Seq(Nat), NEW b \in Seq(Nat), Len(p) <= Len(b), \A i \in 1 .. Len(p) : b[i] = p[i], NEW n \in Nat
  PROVE  \A k \in 0 .. n : ParsedSame(p, b, n, k)
<1> DEFINE Bad == {k \in 0 .. n : ~ParsedSame(p, b, n, k)}
<1>0. Len(p) \in Nat /\ Len(b) \in Nat
  BY LenProperties
<1> SUFFICES ASSUME Bad # {} PROVE FALSE
  OBVIOUS
<1>1. PICK k \in Bad : \A j \in Bad : k <= j
  <2>1. Bad \in SUBSET Nat
    OBVIOUS
  <2> HIDE DEF Bad
  <2> QED BY <2>1, Least
<1>2. k \in 0 .. n /\ ~ParsedSame(p, b, n, k)
  BY <1>1
<1>3. k # 0
  <2>1. Parsed(p, n, 0) = [ok |-> n > 0, next |-> 1, questions |-> << >>] /\ Parsed(b, n, 0) = Parsed(p, n, 0)
    BY ParsedFirst
  <2>2. Parsed(p, n, 0).next = 1
    BY <2>1
  <2>3. ParsedSame(p, b, n, 0)
    BY <1>0, <2>1, <2>2 DEF ParsedSame
  <2> QED BY <1>2, <2>3
<1>4. k \in 1 .. n /\ k - 1 \in 0 .. n /\ ~(k <= k - 1)
  BY <1>2, <1>3
<1>5. ParsedSame(p, b, n, k - 1)
  BY <1>1, <1>4
<1> HIDE DEF Bad
<1> DEFINE acc == Parsed(p, n, k - 1)
           name == parse_qname(p, acc.next)
<1>6. Parsed(p, n, k) = Onward(p, acc) /\ Parsed(b, n, k) = Onward(b, Parsed(b, n, k - 1))
  BY <1>4, ParsedNext
<1>7. acc.ok /\ name.ok /\ name.next + 3 <= Len(p)
  <2> SUFFICES ASSUME ~(acc.ok /\ name.ok /\ name.next + 3 <= Len(p)) PROVE FALSE
    OBVIOUS
  <2>1. Parsed(p, n, k).ok = FALSE
    BY <1>4, ParsedNot
  <2> QED BY <1>2, <2>1 DEF ParsedSame
<1>8. Parsed(b, n, k - 1) = acc /\ acc.next \in 1 .. Len(p) + 1
  BY <1>5, <1>7 DEF ParsedSame
<1>9. parse_qname(b, acc.next) = name /\ name.next \in acc.next + 1 .. Len(p) + 1
  <2> HIDE DEF acc
  <2> QED BY <1>7, <1>8, QnameExtends
<1>10. /\ name.next \in 1 .. Len(p) /\ name.next + 3 \in name.next - 1 .. Len(p) /\ name.next + 3 <= Len(b)
       /\ name.next + 4 \in 1 .. Len(p) + 1 /\ name.next \in Nat
  <2>1. name.next \in acc.next + 1 .. Len(p) + 1 /\ acc.next \in 1 .. Len(p) + 1 /\ name.next + 3 <= Len(p)
    BY <1>7, <1>8, <1>9
  <2> DEFINE u == name.next
             v == acc.next
  <2>2. u \in v + 1 .. Len(p) + 1 /\ v \in 1 .. Len(p) + 1 /\ u + 3 <= Len(p)
    BY <2>1
  <2> HIDE DEF u, v
  <2>3. u \in 1 .. Len(p) /\ u + 3 \in u - 1 .. Len(p) /\ u + 3 <= Len(b) /\ u + 4 \in 1 .. Len(p) + 1 /\ u \in Nat
    BY <1>0, <2>2, SMTT(60)
  <2> QED BY <2>3 DEF u
<1> HIDE DEF name, acc
<1>11. SubSeq(b, name.next, name.next + 3) = SubSeq(p, name.next, name.next + 3)
  <2> DEFINE u == name.next
             v == u + 3
             y == SubSeq(b, u, v)
             z == SubSeq(p, u, v)
  <2>1. u \in 1 .. Len(p) + 1 /\ v \in u - 1 .. Len(p) /\ u \in 1 .. Len(b) + 1 /\ v \in u - 1 .. Len(b) /\ v - u + 1 = 4
        /\ u \in Nat /\ u + 3 <= Len(p)
    <3>1. u \in 1 .. Len(p) /\ u + 3 <= Len(p) /\ v = u + 3
      BY <1>7, <1>10
    <3> HIDE DEF u, v
    <3> QED BY <1>0, <3>1
  <2> HIDE DEF u, v
  <2>2. y \in Seq(Nat) /\ Len(y) = v - u + 1 /\ \A i \in 1 .. v - u + 1 : y[i] = b[u + i - 1]
    BY <2>1, Slices, SMTT(60)
  <2>3. z \in Seq(Nat) /\ Len(z) = v - u + 1 /\ \A i \in 1 .. v - u + 1 : z[i] = p[u + i - 1]
    BY <2>1, Slices, ZenonT(60)
  <2>4. ASSUME NEW i \in 1 .. 4
        PROVE  y[i] = z[i]
    <3>1. u + i - 1 \in 1 .. Len(p) /\ i \in 1 .. v - u + 1
      BY <1>0, <2>1, SMTT(60)
    <3> QED BY <2>2, <2>3, <3>1
  <2> HIDE DEF y, z
  <2>5. y = z
    <3>1. Len(y) = 4 /\ Len(z) = 4
      BY <2>1, <2>2, <2>3
    <3> QED BY <2>2, <2>3, <2>4, <3>1, SeqEqual
  <2> QED BY <2>5 DEF y, z, u, v
<1> DEFINE nxt == [ok |-> TRUE, next |-> name.next + 4,
                   questions |-> Append(acc.questions, [name |-> name.labels,
                                                        type |-> SubSeq(p, name.next, name.next + 3)])]
<1>12. Onward(p, acc) = nxt
  BY <1>7, Zenon DEF Onward, name
<1>13. Onward(b, acc) = nxt
  BY <1>7, <1>9, <1>10, <1>11, Zenon DEF Onward
<1>14. nxt.next = name.next + 4
  OBVIOUS
<1> HIDE DEF nxt
<1>15. ParsedSame(p, b, n, k)
  BY <1>6, <1>8, <1>10, <1>12, <1>13, <1>14 DEF ParsedSame
<1> QED BY <1>2, <1>15

\* Nothing is parsed when the first question is not.
LEMMA ParsedNone ==
  ASSUME NEW b, NEW n \in Nat, ~parse_qname(b, 1).ok
  PROVE  ~Parsed(b, n, n).ok
<1> DEFINE Gone(k) == k # 0 => Parsed(b, n, k).ok = FALSE
           Bad == {k \in 0 .. n : ~Gone(k)}
<1>1. Bad = {}
  <2> SUFFICES ASSUME Bad # {} PROVE FALSE
    OBVIOUS
  <2>1. PICK k \in Bad : \A j \in Bad : k <= j
    <3> HIDE DEF Gone
    <3>1. Bad \in SUBSET Nat
      OBVIOUS
    <3> HIDE DEF Bad
    <3> QED BY <3>1, Least
  <2>0. k \in 0 .. n /\ ~Gone(k)
    BY <2>1
  <2>2. k \in 1 .. n /\ k - 1 \in 0 .. n /\ ~(k <= k - 1) /\ ~(Parsed(b, n, k).ok = FALSE)
    BY <2>0
  <2>3. CASE k = 1
    <3>0. k - 1 = 0
      BY <2>3
    <3>1. Parsed(b, n, k - 1) = [ok |-> n > 0, next |-> 1, questions |-> << >>]
      BY <3>0, ParsedFirst
    <3>2. Parsed(b, n, k - 1).next = 1
      BY <3>1
    <3>3. Parsed(b, n, k).ok = FALSE
      BY <2>2, <3>2, ParsedNot
    <3> QED BY <2>2, <3>3
  <2>4. CASE k # 1
    <3>1. k - 1 # 0
      BY <2>2, <2>4
    <3>2. Gone(k - 1)
      <4> HIDE DEF Gone
      <4> QED BY <2>1, <2>2
    <3>4. Parsed(b, n, k - 1).ok = FALSE
      BY <3>1, <3>2
    <3>3. Parsed(b, n, k).ok = FALSE
      BY <2>2, <3>4, ParsedNot
    <3> QED BY <2>2, <3>3
  <2> QED BY <2>3, <2>4
<1> HIDE DEF Bad
<1>2. CASE n = 0
  <2>1. Parsed(b, n, 0) = [ok |-> n > 0, next |-> 1, questions |-> << >>]
    BY ParsedFirst
  <2>2. Parsed(b, n, 0).ok = (n > 0)
    BY <2>1
  <2>3. ~(n > 0)
    BY <1>2
  <2> QED BY <1>2, <2>2, <2>3
<1>3. CASE n # 0
  <2>1. n \in 0 .. n
    OBVIOUS
  <2>2. Gone(n)
    <3> HIDE DEF Gone
    <3> QED BY <1>1, <2>1 DEF Bad
  <2> QED BY <1>3, <2>2
<1> QED BY <1>2, <1>3

\* All questions fit when each does.
LEMMA FitsAll ==
  ASSUME NEW questions \in Seq(Seq(Labels))
  PROVE  Fits(questions) <=> \A i \in 1 .. Len(questions) : NameFits(questions[i])
<1>1. DOMAIN questions = 1 .. Len(questions)
  BY AskedTyped
<1>2. ASSUME NEW i \in 1 .. Len(questions)
      PROVE  DOMAIN questions[i] = 1 .. Len(questions[i])
  <2>1. questions[i] \in Seq(Labels)
    BY AskedTyped
  <2> QED BY <2>1, LenProperties
<1> DEFINE A(i) == Len(WireName(questions[i])) <= 255
           B(i, j) == Len(questions[i][j]) <= 63
<1>3. \A i \in 1 .. Len(questions) : NameFits(questions[i]) <=> A(i) /\ \A j \in DOMAIN questions[i] : B(i, j)
  BY <1>2 DEF NameFits
<1>4. Fits(questions) <=> \A i \in DOMAIN questions : A(i) /\ \A j \in DOMAIN questions[i] : B(i, j)
  BY Zenon DEF Fits
<1> HIDE DEF A, B
<1> QED BY <1>1, <1>3, <1>4, Zenon

\* What is parsed of a query whose bytes begin with its questions.
LEMMA WholeQuery ==
  ASSUME NEW b \in Seq(Nat), NEW questions \in Seq(Seq(Labels)), questions # << >>, QueryHere(b, questions)
  PROVE  IF Fits(questions)
         THEN Parsed(b, Len(questions), Len(questions)) =
                [ok |-> TRUE, next |-> Len(Wire(questions)) + 1, questions |-> Judged(questions, Len(questions))]
         ELSE Parsed(b, Len(questions), Len(questions)).ok = FALSE
<1>1. Len(questions) \in 0 .. Len(questions) /\ Until(questions, Len(questions)) = Len(Wire(questions))
  BY AskedTyped DEF Until
<1>2. ParsedTo(b, questions, Len(questions))
  BY <1>1, QueryOnWire
<1> QED BY <1>1, <1>2, FitsAll DEF ParsedTo

\* A query cut short is not parsed.
LEMMA CutQuery ==
  ASSUME NEW questions \in Seq(Seq(Labels)), questions # << >>, Fits(questions), NEW cut \in 1 .. Len(Wire(questions))
  PROVE  ~Parsed(SubSeq(Wire(questions), 1, Len(Wire(questions)) - cut), Len(questions), Len(questions)).ok
<1> DEFINE X == Wire(questions)
           n == Len(questions)
           m == Len(X) - cut
           p == SubSeq(X, 1, m)
<1>1. X \in Seq(Nat) /\ n \in Nat
  BY AskedTyped
<1>2. Len(X) \in Nat /\ cut \in 1 .. Len(X)
  <2>1. cut \in 1 .. Len(X)
    OBVIOUS
  <2> HIDE DEF X
  <2> QED BY <1>1, <2>1, LenProperties
<1>3. m \in 1 - 1 .. Len(X) /\ 1 \in 1 .. Len(X) + 1 /\ m - 1 + 1 = m /\ m < Len(X) /\ m \in Nat
  <2> HIDE DEF X
  <2> QED BY <1>2
<1> HIDE DEF m
<1>4. p \in Seq(Nat) /\ Len(p) = m /\ \A i \in 1 .. m : X[i] = p[i]
  <2>1. p \in Seq(Nat) /\ Len(p) = m - 1 + 1 /\ \A i \in 1 .. m - 1 + 1 : p[i] = X[1 + i - 1]
    <3> HIDE DEF X
    <3> QED BY <1>1, <1>3, Slices
  <2>2. \A i \in 1 .. m : 1 + i - 1 = i
    BY <1>3
  <2> HIDE DEF p, X
  <2> QED BY <1>3, <2>1, <2>2
<1>5. QueryHere(X, questions)
  BY <1>2 DEF QueryHere
<1>6. Parsed(X, n, n).next = Len(X) + 1
  <2>1. Parsed(X, n, n) = [ok |-> TRUE, next |-> Len(X) + 1, questions |-> Judged(questions, n)]
    BY <1>1, <1>5, WholeQuery
  <2> QED BY <2>1
<1> HIDE DEF p, X, n
<1>7. ParsedSame(p, X, n, n)
  <2>1. n \in 0 .. n /\ Len(p) <= Len(X) /\ \A i \in 1 .. Len(p) : X[i] = p[i]
    BY <1>1, <1>2, <1>3, <1>4
  <2> QED BY <1>1, <1>4, <2>1, ParsedExtends
<1>8. ~Parsed(p, n, n).ok
  <2> SUFFICES ASSUME Parsed(p, n, n).ok PROVE FALSE
    OBVIOUS
  <2>1. Len(X) + 1 \in 1 .. m + 1
    BY <1>4, <1>6, <1>7 DEF ParsedSame
  <2> QED BY <1>2, <1>3, <2>1
<1> QED BY <1>8 DEF p, X, n, m

\* A query with a pointer, or any byte above the longest length, in place of its first length is not parsed.
LEMMA PointerQuery ==
  ASSUME NEW questions \in Seq(Seq(Labels)), questions # << >>
  PROVE  ~Parsed([Wire(questions) EXCEPT ![1] = @ + 192], Len(questions), Len(questions)).ok
<1> DEFINE X == Wire(questions)
           n == Len(questions)
           z == [X EXCEPT ![1] = @ + 192]
<1>1. X \in Seq(Nat) /\ n \in Nat /\ n # 0
  BY AskedTyped, EmptySeq
<1>2. Len(X) >= 1 /\ Len(X) \in Nat
  <2>1. 1 \in 1 .. n
    <3> HIDE DEF n
    <3> QED BY <1>1
  <2>2. /\ Until(questions, 1 - 1) \in Nat /\ Until(questions, 1) = Until(questions, 1 - 1) + Len(WireName(questions[1])) + 5
        /\ Until(questions, 1) <= Len(X)
    <3>1. X \in Seq(Nat) /\ QueryHere(X, questions)
      <4>1. Len(X) \in Nat
        <5> HIDE DEF X
        <5> QED BY <1>1, LenProperties
      <4> QED BY <1>1, <4>1 DEF QueryHere
    <3> HIDE DEF X
    <3> QED BY <2>1, <3>1, QuestionHere DEF X
  <2>3. Len(WireName(questions[1])) \in Nat
    BY <2>1, AskedTyped
  <2>4. Len(X) \in Nat
    <3> HIDE DEF X
    <3> QED BY <1>1, LenProperties
  <2> DEFINE e == Until(questions, 1 - 1)
             f == Until(questions, 1)
             N == Len(WireName(questions[1]))
  <2>5. e \in Nat /\ f = e + N + 5 /\ f <= Len(X) /\ N \in Nat
    BY <2>2, <2>3
  <2> HIDE DEF X, e, f, N
  <2> QED BY <2>4, <2>5
<1> HIDE DEF X
<1>3. X[1] \in Nat /\ 1 \in 1 .. Len(X) /\ DOMAIN X = 1 .. Len(X)
  BY <1>1, <1>2, ElementOfSeq, LenProperties
<1>4. z \in Seq(Nat) /\ Len(z) = Len(X) /\ z[1] = X[1] + 192
  <2>1. z = [i \in 1 .. Len(X) |-> IF i = 1 THEN X[1] + 192 ELSE X[i]]
    BY <1>3
  <2>2. \A i \in 1 .. Len(X) : X[i] \in Nat
    BY <1>1, ElementOfSeq
  <2>3. z \in [1 .. Len(X) -> Nat] /\ DOMAIN z = 1 .. Len(X) /\ z[1] = X[1] + 192
    <3>1. X[1] + 192 \in Nat
      BY <1>3
    <3> DEFINE v == X[1] + 192
    <3> HIDE DEF v
    <3> QED BY <1>3, <2>1, <2>2, <3>1 DEF v
  <2> HIDE DEF z
  <2>4. z \in Seq(Nat)
    <3> DEFINE k == Len(X)
    <3>1. k \in Nat /\ z \in [1 .. k -> Nat]
      BY <1>2, <2>3
    <3> HIDE DEF k
    <3> QED BY <3>1, SeqDef
  <2>5. Len(z) = Len(X)
    BY <1>2, <2>3, <2>4, LenProperties
  <2> QED BY <2>3, <2>4, <2>5
<1> HIDE DEF z, n
<1>5. 1 \in 1 .. Len(z) + 1 /\ z[1] > 63
  BY <1>2, <1>3, <1>4
<1>6. parse_qname(z, 1).ok = FALSE
  BY <1>4, <1>5, QnameNot
<1>7. ~Parsed(z, n, n).ok
  BY <1>1, <1>6, ParsedNone
<1> QED BY <1>7 DEF z, n, X

\* Whatever is asked, what is judged is what is asked, and the refusal asks the same back.
LEMMA QuestionsRoundTrip ==
  ASSUME NEW questions \in Seq(Seq(Labels)), NEW extra \in Seq(0 .. 255), NEW cut \in Nat
  PROVE  DnsRoundTrip(questions, extra, cut)
<1> DEFINE X == Wire(questions)
           n == Len(questions)
           b == X \o extra
           q == Query(questions, b)
           parsed == parse_dns_query(q)
           reply == build_refused_response(q)
           good == [ok |-> TRUE, next |-> Len(X) + 1, questions |-> Judged(questions, n)]
<1>1. X \in Seq(Nat) /\ n \in Nat /\ DOMAIN questions = 1 .. n
  BY AskedTyped
<1>2. \A c : parse_dns_query(Query(questions, c)) = Parsed(c, n, n)
  <2> TAKE c
  <2>1. Query(questions, c).bytes = c /\ Query(questions, c).qdcount = n
    BY DEF Query
  <2> QED BY <2>1, QueryParsed
<1>3. parsed = Parsed(b, n, n)
  BY <1>2
<1>4. extra \in Seq(Nat)
  <2>1. 0 .. 255 \subseteq Nat
    OBVIOUS
  <2> QED BY <2>1, SeqMonotonic, Zenon
<1>5. /\ b \in Seq(Nat) /\ Len(X) \in Nat /\ Len(extra) \in Nat /\ Len(b) = Len(X) + Len(extra)
      /\ \A i \in 1 .. Len(X) : b[i] = X[i]
  <2> HIDE DEF X
  <2>1. Len(X) \in Nat /\ Len(extra) \in Nat
    BY <1>1, <1>4, LenProperties
  <2>2. b \in Seq(Nat) /\ Len(b) = Len(X) + Len(extra)
        /\ \A i \in 1 .. Len(X) + Len(extra) : b[i] = IF i <= Len(X) THEN X[i] ELSE extra[i - Len(X)]
    BY <1>1, <1>4, ConcatProperties
  <2> HIDE DEF b
  <2>3. \A i \in 1 .. Len(X) : i \in 1 .. Len(X) + Len(extra) /\ i <= Len(X)
    BY <2>1
  <2> QED BY <2>1, <2>2, <2>3
<1>6. QueryHere(b, questions) /\ QueryHere(X, questions)
  <2>1. Len(X) <= Len(b) /\ Len(X) <= Len(X)
    <3> HIDE DEF X, b
    <3> QED BY <1>5
  <2> QED BY <1>5, <2>1 DEF QueryHere
<1>7. CASE questions = << >>
  <2>1. n = 0
    BY <1>7
  <2>2. Parsed(b, n, 0) = [ok |-> n > 0, next |-> 1, questions |-> << >>]
    BY <1>1, ParsedFirst
  <2>3. Parsed(b, n, 0).ok = (n > 0)
    BY <2>2
  <2>4. ~parsed.ok
    <3>1. ~(n > 0)
      BY <2>1
    <3> HIDE DEF parsed, b, n
    <3> QED BY <1>3, <2>1, <2>3, <3>1
  <2> HIDE DEF parsed
  <2> QED BY <1>7, <2>4 DEF DnsRoundTrip, parsed, q, b, X
<1>8. CASE questions # << >> /\ ~Fits(questions)
  <2>1. Parsed(b, n, n).ok = FALSE
    BY <1>5, <1>6, <1>8, WholeQuery
  <2>2. ~parsed.ok
    BY <1>3, <2>1
  <2> HIDE DEF parsed
  <2> QED BY <1>8, <2>2 DEF DnsRoundTrip, parsed, q, b, X
<1>9. CASE questions # << >> /\ Fits(questions)
  <2>1. Parsed(b, n, n) = good
    BY <1>5, <1>6, <1>9, WholeQuery
  <2>2. Parsed(X, n, n) = good
    BY <1>1, <1>6, <1>9, WholeQuery
  <2>3. parsed = good /\ parsed.ok = TRUE /\ parsed.next = Len(X) + 1 /\ parsed.questions = Judged(questions, n)
    <3> HIDE DEF parsed, X, b, n
    <3> QED BY <1>3, <2>1
  <2>4. \A i \in DOMAIN questions : Asks(parsed.questions[i].name, questions[i])
    <3> TAKE i \in DOMAIN questions
    <3>1. questions[i] \in Seq(Labels) /\ i \in 1 .. n
      BY <1>1, AskedTyped
    <3>2. Judged(questions, n)[i].name = Labelled(questions[i], 0)
      <4>1. Judged(questions, n)[i] = Question(questions[i])
        BY <3>1 DEF Judged
      <4> QED BY <4>1 DEF Question
    <3> HIDE DEF parsed, n
    <3> QED BY <2>3, <3>1, <3>2, LabelledAsks
  <2>5. cut \in 1 .. Len(X) => ~parse_dns_query(Query(questions, SubSeq(X, 1, Len(X) - cut))).ok
    BY <1>2, <1>9, CutQuery
  <2>6. ~parse_dns_query(Query(questions, [X EXCEPT ![1] = @ + 192])).ok
    BY <1>2, <1>9, PointerQuery
  <2>7. SubSeq(b, 1, parsed.next - 1) = X
    <3> DEFINE z == SubSeq(b, 1, Len(X))
    <3>1. parsed.next - 1 = Len(X)
      <4> HIDE DEF X, parsed
      <4> QED BY <1>5, <2>3
    <3>2. z \in Seq(Nat) /\ Len(z) = Len(X) /\ \A i \in 1 .. Len(X) : z[i] = X[i]
      <4> HIDE DEF X, b
      <4>1. 1 \in 1 .. Len(b) + 1 /\ Len(X) \in 1 - 1 .. Len(b) /\ Len(X) - 1 + 1 = Len(X)
        BY <1>5
      <4>2. z \in Seq(Nat) /\ Len(z) = Len(X) - 1 + 1 /\ \A i \in 1 .. Len(X) - 1 + 1 : z[i] = b[1 + i - 1]
        BY <1>5, <4>1, Slices
      <4>3. \A i \in 1 .. Len(X) : 1 + i - 1 = i
        BY <1>5
      <4> HIDE DEF z
      <4> QED BY <1>5, <4>1, <4>2, <4>3
    <3>3. z = X
      <4> HIDE DEF z, X
      <4> QED BY <1>1, <3>2, SeqEqual
    <3> HIDE DEF parsed, X, b
    <3> QED BY <3>1, <3>3
  <2>8. /\ reply.bytes = X /\ reply.id = q.id /\ reply.flags.qr = TRUE /\ reply.flags.rcode = 5
        /\ reply.flags.opcode = q.flags.opcode /\ reply.qdcount = n
    <3>1. q.bytes = b /\ q.qdcount = n
      BY DEF Query
    <3> DEFINE s == SubSeq(b, 1, parsed.next - 1)
    <3>2. reply = [q EXCEPT !.flags = [qr |-> TRUE, opcode |-> @.opcode, rd |-> @.rd, rcode |-> 5, others |-> FALSE],
                            !.ancount = 0, !.bytes = SubSeq(@, 1, parsed.next - 1)]
      BY Zenon DEF build_refused_response
    <3>3. q = [id |-> 7, flags |-> [qr |-> FALSE, opcode |-> 2, rd |-> TRUE, rcode |-> 0, others |-> TRUE],
               qdcount |-> n, ancount |-> 1, bytes |-> b]
      BY DEF Query
    <3> HIDE DEF parsed, X, b, n, q
    <3>4. SubSeq(q.bytes, 1, parsed.next - 1) = X
      BY <2>7, <3>1
    <3> DEFINE F == [qr |-> TRUE, opcode |-> q.flags.opcode, rd |-> q.flags.rd, rcode |-> 5, others |-> FALSE]
    <3>5. F.qr = TRUE /\ F.rcode = 5 /\ F.opcode = q.flags.opcode
      OBVIOUS
    <3>6. reply = [q EXCEPT !.flags = F, !.ancount = 0, !.bytes = X]
      BY <3>2, <3>4
    <3> HIDE DEF F, reply
    <3>7. reply.bytes = X /\ reply.id = q.id /\ reply.flags = F /\ reply.qdcount = q.qdcount
      BY <3>3, <3>6
    <3> QED BY <3>1, <3>5, <3>7
  <2>9. parse_dns_query(reply) = parsed
    <3>1. parse_dns_query(reply) = Parsed(X, n, n)
      <4>1. reply.bytes = X /\ reply.qdcount = n
        BY <2>8
      <4> HIDE DEF reply, X, n
      <4> QED BY <4>1, QueryParsed
    <3> HIDE DEF reply, X, n, parsed
    <3> QED BY <2>2, <2>3, <3>1
  <2>10. parsed.ok /\ reply.flags.qr
    BY <2>3, <2>8
  <2> HIDE DEF parsed, reply, q, b, X, n
  <2> QED BY <1>9, <2>4, <2>5, <2>6, <2>8, <2>9, <2>10, Zenon DEF DnsRoundTrip, parsed, reply, q, b, X
<1> QED BY <1>7, <1>8, <1>9
=============================================================================
