--------------------------- MODULE AlgorithmProofs --------------------------
(***************************************************************************)
(* What the loops of the code compute, for every input: the choice of      *)
(* skills, the terminal client's tokens, the splitting of a text.  Each    *)
(* loop is a recursive function of its turn.  That such a function exists, *)
(* and what holds after every turn, follow by induction on a set of turns, *)
(* from the well-foundedness of the naturals.                              *)
(***************************************************************************)
EXTENDS Skills, CliClient, KnowledgeBase, WellFoundedInduction, SequenceTheorems, TLAPS

-----------------------------------------------------------------------------
\* Induction over the naturals, for a set of them.
LEMMA SetInduction ==
  ASSUME NEW S, 0 \in S, \A n \in Nat : n \in S => n + 1 \in S
  PROVE  Nat \subseteq S
<1> DEFINE less == OpToRel(<, Nat)
           T == Nat \ S
<1> SUFFICES ASSUME T # {} PROVE FALSE
  OBVIOUS
<1>1. PICK x \in T : \A y \in T : ~(<<y, x>> \in less)
  <2>1. IsWellFoundedOn(less, Nat)
    BY NatLessThanWellFounded
  <2>2. T \subseteq Nat
    OBVIOUS
  <2> HIDE DEF less, T
  <2> QED
    BY <2>1, <2>2, WFMin
<1>2. \A y \in T : ~(y < x)
  BY <1>1 DEF OpToRel
<1>3. x # 0 /\ x - 1 \in Nat
  OBVIOUS
<1>4. x - 1 \in S
  BY <1>2, <1>3
<1>5. (x - 1) + 1 = x
  BY <1>3
<1> QED
  BY <1>3, <1>4, <1>5

\* Induction over the turns of a loop from m to n.
LEMMA LoopInduction ==
  ASSUME NEW m \in Nat, NEW n \in Nat, NEW S,
         m \in S, \A i \in m + 1 .. n : i - 1 \in S => i \in S
  PROVE  m .. n \subseteq S
<1> DEFINE K == {k \in Nat : m + k <= n => m + k \in S}
<1>1. 0 \in K
  OBVIOUS
<1>2. ASSUME NEW k \in Nat, k \in K PROVE k + 1 \in K
  <2> SUFFICES ASSUME m + (k + 1) <= n PROVE m + (k + 1) \in S
    OBVIOUS
  <2>1. m + (k + 1) \in m + 1 .. n /\ (m + (k + 1)) - 1 = m + k /\ m + k \in S
    BY <1>2
  <2> QED
    BY <2>1
<1>3. Nat \subseteq K
  <2> HIDE DEF K
  <2> QED
    BY <1>1, <1>2, SetInduction
<1>4. ASSUME NEW i \in m .. n PROVE i \in S
  <2>1. i - m \in Nat /\ m + (i - m) = i /\ i <= n
    OBVIOUS
  <2>2. i - m \in K
    BY <1>3, <2>1
  <2> QED
    BY <2>1, <2>2
<1> QED
  BY <1>4

\* A loop from m to n, one of whose turns is step[i], stays in S; the function
\* f gives its states from base on.
Closed(step, S, m, n) == \A i \in m + 1 .. n : \A x \in S : step[i][x] \in S
States(f, S, base, step, m, n) ==
  /\ f \in [m .. n -> S] /\ f[m] = base
  /\ \A i \in m + 1 .. n : f[i] = step[i][f[i - 1]]

\* A loop has its states: a recursive function of the turn exists.
LEMMA Recursion ==
  ASSUME NEW m \in Nat, NEW n \in Nat, m <= n, NEW S, NEW base \in S, NEW step,
         Closed(step, S, m, n)
  PROVE  \E f : States(f, S, base, step, m, n)
<1> DEFINE Upto(k, f) == f[m] = base /\ \A i \in m + 1 .. k : f[i] = step[i][f[i - 1]]
           Ks == {k \in m .. n : \E f \in [m .. k -> S] : Upto(k, f)}
<1>0. \A i \in m + 1 .. n : \A x \in S : step[i][x] \in S
  BY DEF Closed
<1>1. m \in Ks
  <2> DEFINE f == [i \in m .. m |-> base]
  <2>1. f \in [m .. m -> S] /\ Upto(m, f) /\ m \in m .. n
    OBVIOUS
  <2> HIDE DEF f
  <2> QED
    BY <2>1
<1>2. ASSUME NEW k \in m + 1 .. n, k - 1 \in Ks PROVE k \in Ks
  <2>1. PICK f \in [m .. k - 1 -> S] : Upto(k - 1, f)
    BY <1>2
  <2> DEFINE v == step[k][f[k - 1]]
             g == [i \in m .. k |-> IF i < k THEN f[i] ELSE v]
  <2>2. v \in S /\ k # m /\ k \in m .. n /\ k - 1 \in m .. k - 1
    BY <1>0
  <2>3. g \in [m .. k -> S]
    BY <2>2
  <2>4. ASSUME NEW i \in m + 1 .. k
        PROVE  g[i] = step[i][g[i - 1]]
    <3>1. CASE i < k
      <4>1. g[i] = f[i] /\ g[i - 1] = f[i - 1] /\ i \in m + 1 .. k - 1
        BY <3>1
      <4> HIDE DEF g, v
      <4> QED
        BY <2>1, <4>1
    <3>2. CASE i = k
      <4>1. g[i] = v /\ g[i - 1] = f[k - 1]
        BY <2>2, <3>2
      <4> QED
        BY <3>2, <4>1
    <3> QED
      BY <3>1, <3>2
  <2>5. g[m] = base
    BY <2>1
  <2>6. Upto(k, g)
    BY <2>4, <2>5
  <2> QED
    BY <2>2, <2>3, <2>6
<1>3. n \in Ks
  <2> HIDE DEF Ks
  <2>1. m .. n \subseteq Ks
    BY <1>1, <1>2, LoopInduction
  <2> QED
    BY <2>1
<1> QED
  BY <1>3 DEF States

-----------------------------------------------------------------------------
\* The choice of skills.

Candidate == [skill: Nat, hits: Nat]

\* c holds skills up to n that have a hit, each once, with its hits.
OnlyHits(c, hits, n) ==
  \A k \in 1 .. Len(c) : /\ c[k].skill \in 1 .. n /\ c[k].hits > 0
                         /\ c[k].hits = hits[c[k].skill]
Once(c) == \A k, l \in 1 .. Len(c) : c[k].skill = c[l].skill => k = l
AllHits(c, hits, n) ==
  \A i \in 1 .. n : hits[i] > 0 => \E k \in 1 .. Len(c) : c[k].skill = i
Holds(c, hits, n) ==
  c \in Seq(Candidate) /\ OnlyHits(c, hits, n) /\ Once(c) /\ AllHits(c, hits, n)

LEMMA AppendHolds ==
  ASSUME NEW hits \in Seq(Nat), NEW i \in 1 .. Len(hits), NEW c, Holds(c, hits, i - 1),
         hits[i] > 0
  PROVE  Holds(Append(c, [skill |-> i, hits |-> hits[i]]), hits, i)
<1> DEFINE d == Append(c, [skill |-> i, hits |-> hits[i]])
           L == Len(c)
<1>1. c \in Seq(Candidate) /\ hits[i] \in Nat /\ i \in Nat /\ L \in Nat
  BY DEF Holds
<1>2. /\ d \in Seq(Candidate) /\ Len(d) = L + 1
      /\ d[L + 1].skill = i /\ d[L + 1].hits = hits[i]
      /\ \A k \in 1 .. L : d[k] = c[k]
  BY <1>1 DEF Candidate
<1>3. \A k \in 1 .. Len(d) : k \in 1 .. L \/ k = L + 1
  BY <1>1, <1>2
<1>4. 1 .. L \subseteq 1 .. Len(d) /\ L + 1 \in 1 .. Len(d)
  BY <1>1, <1>2
<1> HIDE DEF d
<1>5. OnlyHits(d, hits, i)
  <2> SUFFICES ASSUME NEW k \in 1 .. Len(d)
               PROVE  /\ d[k].skill \in 1 .. i /\ d[k].hits > 0
                      /\ d[k].hits = hits[d[k].skill]
    BY DEF OnlyHits
  <2>1. CASE k = L + 1
    BY <1>1, <1>2, <2>1
  <2>2. CASE k \in 1 .. L
    <3>1. /\ c[k].skill \in 1 .. i - 1 /\ c[k].hits > 0
          /\ c[k].hits = hits[c[k].skill]
      BY <2>2 DEF Holds, OnlyHits
    <3>2. 1 .. i - 1 \subseteq 1 .. i
      BY <1>1
    <3> QED
      BY <1>2, <2>2, <3>1, <3>2
  <2> QED
    BY <1>3, <2>1, <2>2
<1>6. Once(d)
  <2>1. \A k \in 1 .. L : d[k].skill # i
    <3> TAKE k \in 1 .. L
    <3>1. c[k].skill \in 1 .. i - 1
      BY DEF Holds, OnlyHits
    <3>2. i \notin 1 .. i - 1
      BY <1>1
    <3> QED
      BY <1>2, <3>1, <3>2
  <2>2. \A k, l \in 1 .. L : d[k].skill = d[l].skill => k = l
    BY <1>2 DEF Holds, Once
  <2> QED
    BY <1>2, <1>3, <2>1, <2>2 DEF Once
<1>7. AllHits(d, hits, i)
  <2> SUFFICES ASSUME NEW x \in 1 .. i, hits[x] > 0
               PROVE  \E k \in 1 .. Len(d) : d[k].skill = x
    BY DEF AllHits
  <2>1. CASE x = i
    BY <1>2, <1>4, <2>1
  <2>2. CASE x # i
    <3>1. x \in 1 .. i - 1
      BY <1>1, <2>2
    <3>2. PICK k \in 1 .. L : c[k].skill = x
      BY <3>1 DEF Holds, AllHits
    <3> QED
      BY <1>2, <1>4, <3>2
  <2> QED
    BY <2>1, <2>2
<1> QED
  BY <1>2, <1>5, <1>6, <1>7 DEF Holds, d

LEMMA SkipHolds ==
  ASSUME NEW hits \in Seq(Nat), NEW i \in 1 .. Len(hits), NEW c, Holds(c, hits, i - 1),
         ~(hits[i] > 0)
  PROVE  Holds(c, hits, i)
<1>1. i \in Nat /\ 1 .. i - 1 \subseteq 1 .. i
  OBVIOUS
<1>2. OnlyHits(c, hits, i)
  BY <1>1 DEF Holds, OnlyHits
<1>3. \A x \in 1 .. i : hits[x] > 0 => x \in 1 .. i - 1
  BY <1>1
<1>4. AllHits(c, hits, i)
  BY <1>3 DEF Holds, AllHits
<1> QED
  BY <1>2, <1>4 DEF Holds

\* The first loop of MatchSkills finds the skills with a hit.
LEMMA CandidatesHold ==
  ASSUME NEW hits \in Seq(Nat)
  PROVE  Holds(Candidates(hits), hits, Len(hits))
<1> DEFINE n == Len(hits)
           Entry(i) == [skill |-> i, hits |-> hits[i]]
           Next(i, x) == IF hits[i] > 0 THEN Append(x, Entry(i)) ELSE x
           Body(f) == [i \in 0 .. n |->
             IF i = 0 THEN <<>>
             ELSE IF hits[i] > 0 THEN Append(f[i - 1], Entry(i)) ELSE f[i - 1]]
           c == CHOOSE f : f = Body(f)
           step == [i \in 1 .. n |-> [x \in Seq(Candidate) |-> Next(i, x)]]
<1>0. n \in Nat /\ <<>> \in Seq(Candidate)
  OBVIOUS
<1>1. \A i \in 1 .. n : Entry(i) \in Candidate
  BY DEF Candidate
<1>2. \A i \in 0 + 1 .. n : \A x \in Seq(Candidate) :
        step[i][x] = Next(i, x) /\ step[i][x] \in Seq(Candidate)
  <2> HIDE DEF Entry
  <2> QED
    BY <1>0, <1>1
<1>3. PICK f \in [0 .. n -> Seq(Candidate)] :
             f[0] = <<>> /\ \A i \in 0 + 1 .. n : f[i] = step[i][f[i - 1]]
  <2>1. 0 <= n /\ Closed(step, Seq(Candidate), 0, n)
    BY <1>0, <1>2 DEF Closed
  <2>2. PICK f : States(f, Seq(Candidate), <<>>, step, 0, n)
    <3> HIDE DEF step, n
    <3> QED
      BY <1>0, <2>1, Recursion
  <2> HIDE DEF step, n
  <2> QED
    BY <2>2 DEF States
<1>4. f = Body(f)
  <2>1. ASSUME NEW i \in 0 .. n, i # 0 PROVE f[i] = Next(i, f[i - 1])
    <3> HIDE DEF step, n, Next
    <3>1. i \in 0 + 1 .. n /\ f[i - 1] \in Seq(Candidate)
      BY <1>0, <1>3, <2>1
    <3> QED
      BY <1>2, <1>3, <3>1
  <2> HIDE DEF step, n, Entry
  <2> QED
    BY <1>3, <2>1
<1>5. c = Body(c)
  BY <1>4
<1>6. c[0] = <<>> /\ \A i \in 1 .. n : c[i] = Next(i, c[i - 1])
  <2> HIDE DEF c, Entry, n
  <2>1. 0 \in 0 .. n /\ \A i \in 1 .. n : i \in 0 .. n /\ i # 0
    BY <1>0
  <2>2. \A i \in 0 .. n : c[i] = IF i = 0 THEN <<>> ELSE Next(i, c[i - 1])
    BY <1>5
  <2> QED
    BY <2>1, <2>2
<1> DEFINE Ok == {i \in 0 .. n : Holds(c[i], hits, i)}
<1>7. 0 \in Ok
  <2>1. Holds(<<>>, hits, 0)
    BY <1>0 DEF Holds, OnlyHits, Once, AllHits
  <2> HIDE DEF c
  <2> QED
    BY <1>0, <1>6, <2>1
<1>8. ASSUME NEW i \in 0 + 1 .. n, i - 1 \in Ok PROVE i \in Ok
  <2> HIDE DEF c
  <2>1. Holds(c[i - 1], hits, i - 1) /\ i \in 1 .. n /\ i \in 0 .. n
    BY <1>0, <1>8
  <2>2. c[i] = Next(i, c[i - 1])
    BY <1>6, <2>1
  <2>3. Holds(Next(i, c[i - 1]), hits, i)
    BY <2>1, AppendHolds, SkipHolds
  <2> QED
    BY <2>1, <2>2, <2>3
<1>9. n \in Ok
  <2> HIDE DEF Ok
  <2>1. 0 .. n \subseteq Ok
    BY <1>0, <1>7, <1>8, LoopInduction
  <2> QED
    BY <1>0, <2>1
<1> QED
  BY <1>9 DEF Candidates

\* The first i places of c hold its greatest hits, in order.
Leading(c, i) == \A k \in 1 .. i, l \in 1 .. Len(c) : k < l => c[k].hits >= c[l].hits

LEMMA ExchangeFacts ==
  ASSUME NEW c \in Seq(Candidate), NEW a \in 1 .. Len(c), NEW b \in 1 .. Len(c)
  PROVE  LET d == Exchange(c, a, b)
         IN /\ d \in Seq(Candidate) /\ Len(d) = Len(c)
            /\ d[a] = c[b] /\ d[b] = c[a]
            /\ \A k \in 1 .. Len(c) : k # a /\ k # b => d[k] = c[k]
<1> DEFINE e == [c EXCEPT ![a] = c[b]]
           d == [e EXCEPT ![b] = c[a]]
<1>1. c[a] \in Candidate /\ c[b] \in Candidate
  OBVIOUS
<1>2. /\ e \in Seq(Candidate) /\ Len(e) = Len(c) /\ e[a] = c[b]
      /\ \A k \in 1 .. Len(c) : k # a => e[k] = c[k]
  BY <1>1, ExceptSeq
<1>3. /\ d \in Seq(Candidate) /\ Len(d) = Len(c) /\ d[b] = c[a]
      /\ \A k \in 1 .. Len(c) : k # b => d[k] = e[k]
  <2> HIDE DEF e
  <2> QED
    BY <1>1, <1>2, ExceptSeq
<1>4. d = Exchange(c, a, b)
  BY DEF Exchange
<1> HIDE DEF e, d
<1>5. d[a] = c[b]
  BY <1>2, <1>3
<1> QED
  BY <1>2, <1>3, <1>4, <1>5

\* An exchange loses no candidate.
LEMMA ExchangeHolds ==
  ASSUME NEW hits, NEW n, NEW c, Holds(c, hits, n),
         NEW a \in 1 .. Len(c), NEW b \in 1 .. Len(c)
  PROVE  Holds(Exchange(c, a, b), hits, n)
<1> DEFINE d == Exchange(c, a, b)
           L == Len(c)
           to(k) == IF k = a THEN b ELSE IF k = b THEN a ELSE k
<1>1. /\ d \in Seq(Candidate) /\ Len(d) = L
      /\ \A k \in 1 .. L : to(k) \in 1 .. L /\ d[k] = c[to(k)] /\ d[to(k)] = c[k]
  <2>1. c \in Seq(Candidate)
    BY DEF Holds
  <2>2. /\ d \in Seq(Candidate) /\ Len(d) = L /\ d[a] = c[b] /\ d[b] = c[a]
        /\ \A k \in 1 .. L : k # a /\ k # b => d[k] = c[k]
    BY <2>1, ExchangeFacts
  <2> HIDE DEF d
  <2> QED
    BY <2>2
<1>2. \A k, l \in 1 .. L : to(k) = to(l) => k = l
  OBVIOUS
<1> HIDE DEF d, to
<1>3. OnlyHits(d, hits, n)
  <2>1. \A k \in 1 .. L : /\ c[k].skill \in 1 .. n /\ c[k].hits > 0
                          /\ c[k].hits = hits[c[k].skill]
    BY DEF Holds, OnlyHits
  <2> SUFFICES ASSUME NEW k \in 1 .. L
               PROVE  d[k].skill \in 1 .. n /\ d[k].hits > 0 /\ d[k].hits = hits[d[k].skill]
    BY <1>1 DEF OnlyHits
  <2>2. d[k] = c[to(k)] /\ to(k) \in 1 .. L
    BY <1>1
  <2> QED
    BY <2>1, <2>2
<1>4. Once(d)
  <2>1. \A k, l \in 1 .. L : c[to(k)].skill = c[to(l)].skill => to(k) = to(l)
    BY <1>1 DEF Holds, Once
  <2> SUFFICES \A k, l \in 1 .. Len(d) : d[k].skill = d[l].skill => k = l
    BY DEF Once
  <2> QED
    <3> TAKE k, l \in 1 .. Len(d)
    <3>1. /\ k \in 1 .. L /\ l \in 1 .. L
          /\ d[k] = c[to(k)] /\ d[l] = c[to(l)]
      BY <1>1
    <3> QED
      BY <1>2, <2>1, <3>1
<1>5. AllHits(d, hits, n)
  <2> SUFFICES ASSUME NEW x \in 1 .. n, hits[x] > 0
               PROVE  \E k \in 1 .. L : d[k].skill = x
    BY <1>1 DEF AllHits
  <2>1. PICK k \in 1 .. L : c[k].skill = x
    BY DEF Holds, AllHits
  <2> QED
    BY <1>1, <2>1
<1> QED
  BY <1>1, <1>3, <1>4, <1>5 DEF Holds, d

\* A turn of the inner loop at place i: the greatest hits so far get there, and
\* the places before it are as they were.
LEMMA TurnKeeps ==
  ASSUME NEW hits, NEW n, NEW x, Holds(x, hits, n),
         NEW i \in 1 .. Len(x), NEW j \in i + 1 .. Len(x),
         \A l \in i .. j - 1 : x[i].hits >= x[l].hits,
         NEW y, y = IF OutOfOrder(x[i], x[j]) THEN Exchange(x, i, j) ELSE x
  PROVE  /\ Holds(y, hits, n) /\ Len(y) = Len(x) /\ (Leading(x, i - 1) => Leading(y, i - 1))
         /\ \A l \in i .. j : y[i].hits >= y[l].hits
<1> DEFINE L == Len(x)
<1>1. /\ x \in Seq(Candidate) /\ L \in Nat /\ j \in 1 .. L
      /\ \A k \in 1 .. L : x[k].hits \in Nat
  <2>1. x \in Seq(Candidate)
    BY DEF Holds
  <2>2. \A e \in Candidate : e.hits \in Nat
    BY DEF Candidate
  <2> QED
    BY <2>1, <2>2
<1>2. \A l \in i .. j : l = j \/ l \in i .. j - 1
  BY <1>1
<1>3. i .. j \subseteq 1 .. L /\ i \in i .. j - 1 /\ i - 1 < i
  BY <1>1
<1>4. CASE OutOfOrder(x[i], x[j])
  <2>1. y = Exchange(x, i, j) /\ x[j].hits > x[i].hits
    BY <1>4 DEF OutOfOrder
  <2>2. /\ Len(y) = L /\ y[i] = x[j] /\ y[j] = x[i]
        /\ \A k \in 1 .. L : k # i /\ k # j => y[k] = x[k]
    <3> DEFINE d == Exchange(x, i, j)
    <3>1. /\ Len(d) = L /\ d[i] = x[j] /\ d[j] = x[i]
          /\ \A k \in 1 .. L : k # i /\ k # j => d[k] = x[k]
      BY <1>1, ExchangeFacts
    <3> HIDE DEF d
    <3> QED
      BY <2>1, <3>1 DEF d
  <2>3. Leading(x, i - 1) => Leading(y, i - 1)
    <3> SUFFICES ASSUME Leading(x, i - 1), NEW k \in 1 .. i - 1, NEW l \in 1 .. L, k < l
                 PROVE  y[k].hits >= y[l].hits
      BY <2>2 DEF Leading
    <3>1. k \in 1 .. L /\ k # i /\ k # j /\ k < i /\ k < j
      BY <1>1
    <3>2. x[k].hits >= x[l].hits /\ x[k].hits >= x[i].hits /\ x[k].hits >= x[j].hits
      BY <1>1, <3>1 DEF Leading
    <3> QED
      BY <2>2, <3>1, <3>2
  <2>4. \A l \in i .. j : y[i].hits >= y[l].hits
    <3> TAKE l \in i .. j
    <3>1. CASE l = i
      BY <1>1, <2>2, <3>1
    <3>2. CASE l = j
      BY <1>1, <2>1, <2>2, <3>2
    <3>3. CASE l # i /\ l # j
      <4>1. x[i].hits >= x[l].hits /\ y[l] = x[l] /\ l \in 1 .. L
        BY <1>2, <1>3, <2>2, <3>3
      <4> QED
        BY <1>1, <2>1, <2>2, <4>1
    <3> QED
      BY <3>1, <3>2, <3>3
  <2>5. Holds(y, hits, n)
    BY <1>1, <2>1, ExchangeHolds
  <2> QED
    BY <2>2, <2>3, <2>4, <2>5
<1>5. CASE ~OutOfOrder(x[i], x[j])
  <2>1. y = x /\ x[i].hits >= x[j].hits
    BY <1>1, <1>5 DEF OutOfOrder
  <2> QED
    BY <1>2, <2>1
<1> QED
  BY <1>4, <1>5

\* The inner loop puts the greatest of the rest at place i.
LEMMA PassKeeps ==
  ASSUME NEW hits, NEW n, NEW c, Holds(c, hits, n), NEW i \in 1 .. Len(c)
  PROVE  /\ Holds(Pass(c, i), hits, n) /\ Len(Pass(c, i)) = Len(c)
         /\ Leading(c, i - 1) => Leading(Pass(c, i), i)
<1> DEFINE L == Len(c)
           S == {x \in Seq(Candidate) : Len(x) = L}
           Next(j, x) == IF OutOfOrder(x[i], x[j]) THEN Exchange(x, i, j) ELSE x
           Body(f) == [j \in i .. L |->
             IF j = i THEN c
             ELSE IF OutOfOrder(f[j - 1][i], f[j - 1][j]) THEN Exchange(f[j - 1], i, j)
                  ELSE f[j - 1]]
           p == CHOOSE f : f = Body(f)
           step == [j \in i + 1 .. L |-> [x \in S |-> Next(j, x)]]
<1>0. L \in Nat /\ i \in Nat /\ i <= L /\ c \in Seq(Candidate) /\ c \in S
  BY DEF Holds
<1>1. \A j \in i + 1 .. L : \A x \in S : step[j][x] = Next(j, x) /\ step[j][x] \in S
  <2> TAKE j \in i + 1 .. L
  <2> TAKE x \in S
  <2>1. i \in 1 .. Len(x) /\ j \in 1 .. Len(x)
    BY <1>0
  <2>2. Exchange(x, i, j) \in S
    BY <2>1, ExchangeFacts
  <2> QED
    BY <2>2
<1>2. PICK f : States(f, S, c, step, i, L)
  <2> HIDE DEF step, L, S
  <2>1. Closed(step, S, i, L)
    BY <1>1 DEF Closed
  <2> QED
    BY <1>0, <2>1, Recursion
<1>3. f = Body(f)
  <2>1. ASSUME NEW j \in i .. L, j # i PROVE f[j] = Next(j, f[j - 1])
    <3> HIDE DEF step, S, L, Next
    <3>1. j \in i + 1 .. L /\ f[j - 1] \in S
      BY <1>0, <1>2, <2>1 DEF States
    <3> QED
      BY <1>1, <1>2, <3>1 DEF States
  <2> HIDE DEF step, L, S
  <2> QED
    BY <1>2, <2>1 DEF States
<1>4. p = Body(p)
  BY <1>3
<1>5. p[i] = c /\ \A j \in i + 1 .. L : p[j] = Next(j, p[j - 1])
  <2> HIDE DEF p, L
  <2>1. i \in i .. L /\ \A j \in i + 1 .. L : j \in i .. L /\ j # i
    BY <1>0
  <2>2. \A j \in i .. L : p[j] = IF j = i THEN c ELSE Next(j, p[j - 1])
    BY <1>4
  <2> QED
    BY <2>1, <2>2
<1> DEFINE Good(x, j) == /\ Holds(x, hits, n) /\ Len(x) = L /\ (Leading(c, i - 1) => Leading(x, i - 1))
                         /\ \A l \in i .. j : x[i].hits >= x[l].hits
           Ok == {j \in i .. L : Good(p[j], j)}
<1>6. i \in Ok
  <2>1. c[i].hits \in Nat
    <3>1. c[i] \in Candidate
      BY <1>0
    <3> QED
      BY <3>1 DEF Candidate
  <2>2. \A l \in i .. i : c[i].hits >= c[l].hits
    BY <1>0, <2>1
  <2> HIDE DEF p
  <2> QED
    BY <1>0, <1>5, <2>2
<1>7. ASSUME NEW j \in i + 1 .. L, j - 1 \in Ok PROVE j \in Ok
  <2> HIDE DEF p
  <2>1. Good(p[j - 1], j - 1) /\ j \in i .. L
    BY <1>0, <1>7
  <2>2. p[j] = Next(j, p[j - 1])
    BY <1>5
  <2> DEFINE x == p[j - 1]
             y == Next(j, x)
  <2>3. Good(y, j)
    <3>1. /\ Holds(x, hits, n) /\ Len(x) = L /\ (Leading(c, i - 1) => Leading(x, i - 1))
          /\ \A l \in i .. j - 1 : x[i].hits >= x[l].hits
          /\ i \in 1 .. Len(x) /\ j \in i + 1 .. Len(x)
      BY <2>1
    <3>2. y = IF OutOfOrder(x[i], x[j]) THEN Exchange(x, i, j) ELSE x
      OBVIOUS
    <3> HIDE DEF x, y, L
    <3>3. /\ Holds(y, hits, n) /\ Len(y) = Len(x) /\ (Leading(x, i - 1) => Leading(y, i - 1))
          /\ \A l \in i .. j : y[i].hits >= y[l].hits
      BY <3>1, <3>2, TurnKeeps
    <3> QED
      BY <3>1, <3>3
  <2> HIDE DEF Good, Next
  <2> QED
    BY <2>1, <2>2, <2>3
<1>8. L \in Ok
  <2> HIDE DEF Ok
  <2>1. i .. L \subseteq Ok
    BY <1>0, <1>6, <1>7, LoopInduction
  <2> QED
    BY <1>0, <2>1
<1>9. Good(Pass(c, i), L)
  BY <1>8 DEF Pass
<1>10. ASSUME Leading(c, i - 1) PROVE Leading(Pass(c, i), i)
  <2> DEFINE d == Pass(c, i)
  <2> HIDE DEF d
  <2>1. /\ Len(d) = L /\ Leading(d, i - 1) /\ \A l \in i .. L : d[i].hits >= d[l].hits
    BY <1>9, <1>10 DEF d
  <2> SUFFICES ASSUME NEW k \in 1 .. i, NEW l \in 1 .. L, k < l PROVE d[k].hits >= d[l].hits
    BY <2>1 DEF Leading, d
  <2>2. CASE k = i
    BY <1>0, <2>1, <2>2
  <2>3. CASE k # i
    <3>1. k \in 1 .. i - 1
      BY <1>0, <2>3
    <3> QED
      BY <2>1, <3>1 DEF Leading
  <2> QED
    BY <2>2, <2>3
<1> QED
  BY <1>9, <1>10

\* The sort of MatchSkills sorts, and loses no candidate.
LEMMA SortedSorts ==
  ASSUME NEW hits, NEW n, NEW c, Holds(c, hits, n)
  PROVE  Holds(Sorted(c), hits, n) /\ Len(Sorted(c)) = Len(c) /\ Leading(Sorted(c), Len(c))
<1> DEFINE L == Len(c)
           S == {x \in Seq(Candidate) : Holds(x, hits, n) /\ Len(x) = L}
           Body(f) == [i \in 0 .. L |-> IF i = 0 THEN c ELSE Pass(f[i - 1], i)]
           s == CHOOSE f : f = Body(f)
           step == [i \in 1 .. L |-> [x \in S |-> Pass(x, i)]]
<1>0. L \in Nat /\ c \in S
  BY DEF Holds
<1>1. \A i \in 0 + 1 .. L : \A x \in S : step[i][x] = Pass(x, i) /\ step[i][x] \in S
  <2> TAKE i \in 0 + 1 .. L
  <2> TAKE x \in S
  <2>1. i \in 1 .. Len(x) /\ Holds(x, hits, n)
    BY <1>0
  <2>2. Holds(Pass(x, i), hits, n) /\ Len(Pass(x, i)) = L
    BY <2>1, PassKeeps
  <2> QED
    BY <2>2 DEF Holds
<1>2. PICK f : States(f, S, c, step, 0, L)
  <2> HIDE DEF step, L, S
  <2>1. Closed(step, S, 0, L) /\ 0 <= L
    BY <1>0, <1>1 DEF Closed
  <2> QED
    BY <1>0, <2>1, Recursion
<1>3. f = Body(f)
  <2>1. ASSUME NEW i \in 0 .. L, i # 0 PROVE f[i] = Pass(f[i - 1], i)
    <3> HIDE DEF step, S, L
    <3>1. i \in 0 + 1 .. L /\ f[i - 1] \in S
      BY <1>0, <1>2, <2>1 DEF States
    <3> QED
      BY <1>1, <1>2, <3>1 DEF States
  <2> HIDE DEF step, L, S
  <2> QED
    BY <1>2, <2>1 DEF States
<1>4. s = Body(s)
  BY <1>3
<1>5. s[0] = c /\ \A i \in 0 + 1 .. L : s[i] = Pass(s[i - 1], i)
  <2> HIDE DEF s, L
  <2>1. 0 \in 0 .. L /\ \A i \in 0 + 1 .. L : i \in 0 .. L /\ i # 0
    BY <1>0
  <2>2. \A i \in 0 .. L : s[i] = IF i = 0 THEN c ELSE Pass(s[i - 1], i)
    BY <1>4
  <2> QED
    BY <2>1, <2>2
<1> DEFINE Good(x, i) == Holds(x, hits, n) /\ Len(x) = L /\ Leading(x, i)
           Ok == {i \in 0 .. L : Good(s[i], i)}
<1>6. 0 \in Ok
  <2> HIDE DEF s
  <2>1. Good(c, 0)
    BY <1>0 DEF Leading
  <2> QED
    BY <1>0, <1>5, <2>1
<1>7. ASSUME NEW i \in 0 + 1 .. L, i - 1 \in Ok PROVE i \in Ok
  <2> HIDE DEF s
  <2>1. Good(s[i - 1], i - 1) /\ i \in 0 .. L
    BY <1>0, <1>7
  <2>2. s[i] = Pass(s[i - 1], i)
    BY <1>5
  <2>3. Good(Pass(s[i - 1], i), i)
    BY <1>0, <2>1, PassKeeps
  <2> HIDE DEF Good
  <2> QED
    BY <2>1, <2>2, <2>3
<1>8. L \in Ok
  <2> HIDE DEF Ok
  <2>1. 0 .. L \subseteq Ok
    BY <1>0, <1>6, <1>7, LoopInduction
  <2> QED
    BY <1>0, <2>1
<1> QED
  BY <1>8 DEF Sorted

\* MatchSkills returns the best matches, whatever is registered, whatever the
\* instruction has and however many are asked for.
THEOREM MatchesAreBest ==
  ASSUME NEW hits \in Seq(Nat), NEW max \in Nat
  PROVE  BestMatches(hits, max)
<1> DEFINE n == Len(hits)
           s == Sorted(Candidates(hits))
           L == Len(s)
           M == IF L < max THEN L ELSE max
           m == SubSeq(s, 1, M)
           found == {i \in DOMAIN hits : hits[i] > 0}
           kept == {m[k].skill : k \in DOMAIN m}
<1>1. Holds(s, hits, n) /\ Leading(s, L)
  <2> HIDE DEF s
  <2> QED
    BY CandidatesHold, SortedSorts DEF s
<1>2. /\ n \in Nat /\ DOMAIN hits = 1 .. n
      /\ s \in Seq(Candidate) /\ L \in Nat
  BY <1>1 DEF Holds
<1> HIDE DEF s
<1>3. M \in 0 .. L /\ (M = L \/ M = max)
  BY <1>2
<1>4. /\ Len(m) = M /\ DOMAIN m = 1 .. M
      /\ \A k \in 1 .. M : m[k] = s[k] /\ k \in 1 .. L
  <2> HIDE DEF M
  <2> QED
    BY <1>2, <1>3
<1>5. m = MatchSkills(hits, max)
  BY DEF MatchSkills, s
<1>6. \A k \in 1 .. L : /\ s[k].skill \in 1 .. n /\ s[k].hits > 0
                        /\ s[k].hits = hits[s[k].skill]
  BY <1>1 DEF Holds, OnlyHits
<1> HIDE DEF n, L, M, m
<1>7. IsInjective([k \in DOMAIN m |-> m[k].skill])
  <2>1. \A k, l \in 1 .. M : m[k].skill = m[l].skill => k = l
    BY <1>1, <1>4 DEF Holds, Once, L
  <2> QED
    BY <1>4, <2>1 DEF IsInjective
<1>8. kept \subseteq found
  BY <1>2, <1>4, <1>6
<1>9. \A j \in found : \E k \in 1 .. L : s[k].skill = j
  BY <1>1, <1>2 DEF Holds, AllHits, L, n
<1>10. kept = found \/ Len(m) = max
  <2>1. CASE M = L
    <3>1. found \subseteq kept
      BY <1>4, <1>9, <2>1
    <3> QED
      BY <1>8, <3>1
  <2>2. CASE M = max
    BY <1>4, <2>2
  <2> QED
    BY <1>3, <2>1, <2>2
<1>11. \A k \in DOMAIN m : m[k].hits = hits[m[k].skill]
  BY <1>4, <1>6
<1>12. \A k, l \in 1 .. L : k < l => s[k].hits >= s[l].hits
  BY <1>1 DEF Leading, L
<1>13. \A k \in 1 .. Len(m) - 1 : m[k].hits >= m[k + 1].hits
  <2> TAKE k \in 1 .. Len(m) - 1
  <2>1. k \in 1 .. M /\ k + 1 \in 1 .. M /\ k < k + 1
    BY <1>2, <1>3, <1>4
  <2> QED
    BY <1>4, <1>12, <2>1
<1>14. \A i \in kept, j \in found \ kept : hits[i] >= hits[j]
  <2> SUFFICES ASSUME NEW k \in 1 .. M, NEW j \in found \ kept
               PROVE  hits[m[k].skill] >= hits[j]
    BY <1>4
  <2>1. PICK l \in 1 .. L : s[l].skill = j
    BY <1>9
  <2>2. l \notin 1 .. M
    BY <1>4, <2>1
  <2>3. k < l /\ k \in 1 .. L
    BY <1>2, <1>3, <2>2
  <2> QED
    BY <1>4, <1>6, <1>12, <2>1, <2>3
<1> QED
  BY <1>5, <1>7, <1>8, <1>10, <1>11, <1>13, <1>14 DEF BestMatches

\* BestSkills: what MatchSkills returns of any instruction are its best matches.
THEOREM SkillsAreBest ==
  ASSUME skHits \in Seq(Nat)
  PROVE  BestSkills
<1>1. \A max \in 0 .. SkMaxResults : max \in Nat
  BY SkBound
<1> QED
  BY <1>1, MatchesAreBest DEF BestSkills

-----------------------------------------------------------------------------
\* The terminal client.

Entry == [kind: {"system", "question", "step", "error"}] \cup
         [kind: {"answer"}, tokens: Seq(Nat)]
Keep(acc, e) == IF e.kind = "answer" THEN acc \o e.tokens ELSE acc

\* The states of the loop of TokensOf.
Kept(h, t) ==
  /\ t \in [0 .. Len(h) -> Seq(Nat)] /\ t[0] = <<>>
  /\ \A i \in 1 .. Len(h) : t[i] = Keep(t[i - 1], h[i])

LEMMA KeepType ==
  ASSUME NEW acc \in Seq(Nat), NEW e \in Entry
  PROVE  Keep(acc, e) \in Seq(Nat)
<1>1. CASE e.kind = "answer"
  <2>1. e.tokens \in Seq(Nat)
    BY <1>1 DEF Entry
  <2> QED
    BY <1>1, <2>1 DEF Keep
<1>2. CASE e.kind # "answer"
  BY <1>2 DEF Keep
<1> QED
  BY <1>1, <1>2

LEMMA TokensOfStates ==
  ASSUME NEW h \in Seq(Entry)
  PROVE  \E t : Kept(h, t) /\ TokensOf(h) = t[Len(h)]
<1> DEFINE L == Len(h)
           S == Seq(Nat)
           Body(f) == [i \in 0 .. L |->
             IF i = 0 THEN <<>>
             ELSE IF h[i].kind = "answer" THEN f[i - 1] \o h[i].tokens ELSE f[i - 1]]
           t == CHOOSE f : f = Body(f)
           step == [i \in 1 .. L |-> [x \in S |-> Keep(x, h[i])]]
<1>0. L \in Nat /\ <<>> \in S
  OBVIOUS
<1>1. \A i \in 0 + 1 .. L : \A x \in S : step[i][x] = Keep(x, h[i]) /\ step[i][x] \in S
  <2> TAKE i \in 0 + 1 .. L
  <2> TAKE x \in S
  <2>1. h[i] \in Entry
    OBVIOUS
  <2> QED
    BY <2>1, KeepType
<1>2. PICK f : States(f, S, <<>>, step, 0, L)
  <2> HIDE DEF step, L, S
  <2>1. Closed(step, S, 0, L) /\ 0 <= L
    BY <1>0, <1>1 DEF Closed
  <2> QED
    BY <1>0, <2>1, Recursion
<1>3. f = Body(f)
  <2>1. ASSUME NEW i \in 0 .. L, i # 0 PROVE f[i] = Keep(f[i - 1], h[i])
    <3> HIDE DEF step, S, L
    <3>1. i \in 0 + 1 .. L /\ f[i - 1] \in S
      BY <1>0, <1>2, <2>1 DEF States
    <3> QED
      BY <1>1, <1>2, <3>1 DEF States
  <2> HIDE DEF step, L, S
  <2> QED
    BY <1>2, <2>1 DEF States, Keep
<1>4. t = Body(t)
  BY <1>3
<1>5. /\ t[0] = <<>> /\ DOMAIN t = 0 .. L /\ t = [i \in 0 .. L |-> t[i]]
      /\ \A i \in 1 .. L : t[i] = Keep(t[i - 1], h[i])
  <2> HIDE DEF t, L
  <2>1. 0 \in 0 .. L /\ \A i \in 1 .. L : i \in 0 .. L /\ i # 0
    BY <1>0
  <2>2. \A i \in 0 .. L : t[i] = IF i = 0 THEN <<>> ELSE Keep(t[i - 1], h[i])
    BY <1>4 DEF Keep
  <2> QED
    BY <1>4, <2>1, <2>2
<1> DEFINE Ok == {i \in 0 .. L : t[i] \in S}
<1>6. L \in Ok /\ \A i \in 0 .. L : i \in Ok
  <2> HIDE DEF t
  <2>1. 0 \in Ok
    BY <1>0, <1>5
  <2>2. ASSUME NEW i \in 0 + 1 .. L, i - 1 \in Ok PROVE i \in Ok
    <3>1. i \in 1 .. L /\ i \in 0 .. L /\ h[i] \in Entry
      BY <1>0
    <3>2. t[i] = Keep(t[i - 1], h[i]) /\ t[i - 1] \in S
      BY <1>5, <2>2, <3>1
    <3>3. t[i] \in S
      BY <3>1, <3>2, KeepType
    <3> QED
      BY <3>1, <3>3
  <2> HIDE DEF Ok
  <2>3. 0 .. L \subseteq Ok
    BY <1>0, <2>1, <2>2, LoopInduction
  <2> QED
    BY <1>0, <2>3
<1>7. Kept(h, t)
  <2> HIDE DEF t
  <2> QED
    BY <1>5, <1>6 DEF Kept
<1> QED
  BY <1>7 DEF TokensOf

\* An entry that is not an answer adds no token, an answer adds its own.
LEMMA TokensOfAppend ==
  ASSUME NEW h \in Seq(Entry), NEW e \in Entry
  PROVE  /\ TokensOf(h) \in Seq(Nat)
         /\ TokensOf(Append(h, e)) = Keep(TokensOf(h), e)
<1> DEFINE L == Len(h)
           g == Append(h, e)
<1>1. /\ g \in Seq(Entry) /\ Len(g) = L + 1 /\ L \in Nat /\ g[L + 1] = e
      /\ \A i \in 1 .. L : g[i] = h[i]
  OBVIOUS
<1>2. PICK t : Kept(h, t) /\ TokensOf(h) = t[L]
  BY TokensOfStates
<1> HIDE DEF g, L
<1>3. PICK u : Kept(g, u) /\ TokensOf(g) = u[L + 1]
  BY <1>1, TokensOfStates
<1> DEFINE Ok == {i \in 0 .. L : u[i] = t[i]}
<1>4. 0 \in Ok
  BY <1>1, <1>2, <1>3 DEF Kept
<1>5. ASSUME NEW i \in 0 + 1 .. L, i - 1 \in Ok PROVE i \in Ok
  <2>1. i \in 1 .. L /\ i \in 1 .. Len(g) /\ i \in 0 .. L
    BY <1>1
  <2>2. u[i] = Keep(u[i - 1], g[i]) /\ t[i] = Keep(t[i - 1], h[i])
    BY <1>2, <1>3, <2>1 DEF Kept, L
  <2> QED
    BY <1>1, <1>5, <2>1, <2>2
<1>6. u[L] = t[L]
  <2>1. L \in 0 .. L
    BY <1>1
  <2> HIDE DEF Ok
  <2>2. 0 .. L \subseteq Ok
    BY <1>1, <1>4, <1>5, LoopInduction
  <2> QED
    BY <2>1, <2>2 DEF Ok
<1>7. u[L + 1] = Keep(u[L], e)
  <2>1. L + 1 \in 1 .. Len(g) /\ (L + 1) - 1 = L
    BY <1>1
  <2> QED
    BY <1>1, <1>3, <2>1 DEF Kept
<1>8. t[L] \in Seq(Nat)
  BY <1>1, <1>2 DEF Kept, L
<1> QED
  BY <1>2, <1>3, <1>6, <1>7, <1>8 DEF g

Number(acc, f, i) == IF f = "token" THEN Append(acc, i) ELSE acc

\* The states of the loop of TokensAmong.
Numbered(s, t) ==
  /\ t \in [0 .. Len(s) -> Seq(Nat)] /\ t[0] = <<>>
  /\ \A i \in 1 .. Len(s) : t[i] = Number(t[i - 1], s[i], i)

LEMMA TokensAmongStates ==
  ASSUME NEW s \in Seq(Frames)
  PROVE  \E t : Numbered(s, t) /\ TokensAmong(s) = t[Len(s)]
<1> DEFINE L == Len(s)
           S == Seq(Nat)
           Body(f) == [i \in 0 .. L |->
             IF i = 0 THEN <<>>
             ELSE IF s[i] = "token" THEN Append(f[i - 1], i) ELSE f[i - 1]]
           t == CHOOSE f : f = Body(f)
           step == [i \in 1 .. L |-> [x \in S |-> Number(x, s[i], i)]]
<1>0. /\ L \in Nat /\ <<>> \in S
      /\ \A x \in S, i \in 1 .. L : Number(x, s[i], i) \in S
  BY DEF Number
<1>1. \A i \in 0 + 1 .. L : \A x \in S : step[i][x] = Number(x, s[i], i) /\ step[i][x] \in S
  BY <1>0
<1>2. PICK f : States(f, S, <<>>, step, 0, L)
  <2> HIDE DEF step, L, S
  <2>1. Closed(step, S, 0, L) /\ 0 <= L
    BY <1>0, <1>1 DEF Closed
  <2> QED
    BY <1>0, <2>1, Recursion
<1>3. f = Body(f)
  <2>1. ASSUME NEW i \in 0 .. L, i # 0 PROVE f[i] = Number(f[i - 1], s[i], i)
    <3> HIDE DEF step, S, L
    <3>1. i \in 0 + 1 .. L /\ f[i - 1] \in S
      BY <1>0, <1>2, <2>1 DEF States
    <3> QED
      BY <1>1, <1>2, <3>1 DEF States
  <2> HIDE DEF step, L, S
  <2> QED
    BY <1>2, <2>1 DEF States, Number
<1>4. t = Body(t)
  BY <1>3
<1>5. /\ t[0] = <<>> /\ t = [i \in 0 .. L |-> t[i]]
      /\ \A i \in 1 .. L : t[i] = Number(t[i - 1], s[i], i)
  <2> HIDE DEF t, L
  <2>1. 0 \in 0 .. L /\ \A i \in 1 .. L : i \in 0 .. L /\ i # 0
    BY <1>0
  <2>2. \A i \in 0 .. L : t[i] = IF i = 0 THEN <<>> ELSE Number(t[i - 1], s[i], i)
    BY <1>4 DEF Number
  <2> QED
    BY <1>4, <2>1, <2>2
<1> DEFINE Ok == {i \in 0 .. L : t[i] \in S}
<1>6. \A i \in 0 .. L : i \in Ok
  <2> HIDE DEF t
  <2>1. 0 \in Ok
    BY <1>0, <1>5
  <2>2. ASSUME NEW i \in 0 + 1 .. L, i - 1 \in Ok PROVE i \in Ok
    <3>1. i \in 1 .. L /\ i \in 0 .. L
      BY <1>0
    <3> QED
      BY <1>0, <1>5, <2>2, <3>1
  <2> HIDE DEF Ok
  <2> QED
    BY <1>0, <2>1, <2>2, LoopInduction
<1>7. Numbered(s, t)
  <2> HIDE DEF t
  <2> QED
    BY <1>5, <1>6 DEF Numbered
<1> QED
  BY <1>7 DEF TokensAmong

\* One more frame is one more token, or none.
LEMMA TokensAmongAppend ==
  ASSUME NEW s \in Seq(Frames), NEW e \in Frames
  PROVE  /\ TokensAmong(s) \in Seq(Nat)
         /\ TokensAmong(Append(s, e)) = Number(TokensAmong(s), e, Len(s) + 1)
<1> DEFINE L == Len(s)
           g == Append(s, e)
<1>1. /\ g \in Seq(Frames) /\ Len(g) = L + 1 /\ L \in Nat /\ g[L + 1] = e
      /\ \A i \in 1 .. L : g[i] = s[i]
  OBVIOUS
<1>2. PICK t : Numbered(s, t) /\ TokensAmong(s) = t[L]
  BY TokensAmongStates
<1> HIDE DEF g, L
<1>3. PICK u : Numbered(g, u) /\ TokensAmong(g) = u[L + 1]
  BY <1>1, TokensAmongStates
<1> DEFINE Ok == {i \in 0 .. L : u[i] = t[i]}
<1>4. 0 \in Ok
  BY <1>1, <1>2, <1>3 DEF Numbered
<1>5. ASSUME NEW i \in 0 + 1 .. L, i - 1 \in Ok PROVE i \in Ok
  <2>1. i \in 1 .. L /\ i \in 1 .. Len(g) /\ i \in 0 .. L
    BY <1>1
  <2>2. u[i] = Number(u[i - 1], g[i], i) /\ t[i] = Number(t[i - 1], s[i], i)
    BY <1>2, <1>3, <2>1 DEF Numbered, L
  <2> QED
    BY <1>1, <1>5, <2>1, <2>2
<1>6. u[L] = t[L]
  <2>1. L \in 0 .. L
    BY <1>1
  <2> HIDE DEF Ok
  <2>2. 0 .. L \subseteq Ok
    BY <1>1, <1>4, <1>5, LoopInduction
  <2> QED
    BY <2>1, <2>2 DEF Ok
<1>7. u[L + 1] = Number(u[L], e, L + 1)
  <2>1. L + 1 \in 1 .. Len(g) /\ (L + 1) - 1 = L
    BY <1>1
  <2> QED
    BY <1>1, <1>3, <2>1 DEF Numbered
<1>8. t[L] \in Seq(Nat)
  BY <1>1, <1>2 DEF Numbered, L
<1> QED
  BY <1>2, <1>3, <1>6, <1>7, <1>8 DEF g, L

LEMMA NoTokens == TokensOf(<<>>) = <<>> /\ TokensAmong(<<>>) = <<>>
<1>0. <<>> \in Seq(Entry) /\ <<>> \in Seq(Frames) /\ Len(<<>>) = 0
  OBVIOUS
<1>1. PICK t : Kept(<<>>, t) /\ TokensOf(<<>>) = t[0]
  BY <1>0, TokensOfStates
<1>2. PICK u : Numbered(<<>>, u) /\ TokensAmong(<<>>) = u[0]
  BY <1>0, TokensAmongStates
<1> QED
  BY <1>1, <1>2 DEF Kept, Numbered

\* The inductive invariant of the client: besides the two parts of ScreenIsTrue,
\* the types, and that no more is on the way than was sent.
ClTyped ==
  /\ clCurrent \in Seq(Nat) /\ clHistory \in Seq(Entry)
  /\ clSent \in Seq(Frames) /\ clWire \in Seq([kind: Frames, n: Nat])
  /\ Len(clWire) <= Len(clSent)
ClInv == ClTyped /\ TokensKeptInOrder /\ ViewIsNotStale

LEMMA ClStarts == ClInit => ClInv
<1> SUFFICES ASSUME ClInit PROVE ClInv
  OBVIOUS
<1>1. ClTyped /\ ViewIsNotStale
  BY DEF ClInit, ClTyped, ViewIsNotStale
<1>2. TokensOf(clHistory) \o clCurrent = <<>> /\ SubSeq(clSent, 1, Received) = <<>>
  BY NoTokens DEF ClInit, Received
<1>3. TokensKeptInOrder
  <2>1. clWire = <<>> /\ 1 .. Len(clWire) = {}
    BY DEF ClInit
  <2> QED
    BY <1>2, <2>1, NoTokens DEF TokensKeptInOrder
<1> QED
  BY <1>1, <1>3 DEF ClInv

\* An entry without tokens may join the history at any time.
LEMMA NoteKept ==
  ASSUME NEW h \in Seq(Entry), NEW e \in [kind: {"system", "question", "step", "error"}]
  PROVE  Append(h, e) \in Seq(Entry) /\ TokensOf(Append(h, e)) = TokensOf(h)
<1>1. e \in Entry /\ e.kind # "answer"
  BY DEF Entry
<1> QED
  BY <1>1, TokensOfAppend DEF Keep

LEMMA EnterKeeps == ClInv /\ Enter => ClInv'
<1> SUFFICES ASSUME ClInv, Enter PROVE ClInv'
  OBVIOUS
<1> DEFINE q == [kind |-> "question"]
           a == [kind |-> "answer", tokens |-> clCurrent]
           kept == IF clCurrent = <<>> THEN clHistory ELSE Append(clHistory, a)
<1>1. clHistory \in Seq(Entry) /\ clCurrent \in Seq(Nat) /\ TokensOf(clHistory) \in Seq(Nat)
  <2>1. clHistory \in Seq(Entry) /\ clCurrent \in Seq(Nat)
    BY DEF ClInv, ClTyped
  <2>2. q \in Entry
    BY DEF Entry
  <2> QED
    BY <2>1, <2>2, TokensOfAppend
<1>2. kept \in Seq(Entry) /\ TokensOf(kept) = TokensOf(clHistory) \o clCurrent
  <2>1. a \in Entry /\ a.kind = "answer" /\ a.tokens = clCurrent
    BY <1>1 DEF Entry
  <2>2. CASE clCurrent = <<>>
    BY <1>1, <2>2
  <2>3. CASE clCurrent # <<>>
    <3>1. kept = Append(clHistory, a)
      BY <2>3
    <3> HIDE DEF a, kept
    <3>2. TokensOf(Append(clHistory, a)) = Keep(TokensOf(clHistory), a)
      BY <1>1, <2>1, TokensOfAppend
    <3>3. Append(clHistory, a) \in Seq(Entry)
      BY <1>1, <2>1
    <3> QED
      BY <2>1, <3>1, <3>2, <3>3 DEF Keep
  <2> QED
    BY <2>2, <2>3
<1>3. clHistory' \in Seq(Entry) /\ TokensOf(clHistory') = TokensOf(clHistory) \o clCurrent
  <2>1. clHistory' = Append(kept, q) /\ q \in [kind: {"system", "question", "step", "error"}]
    BY DEF Enter
  <2> HIDE DEF kept, q
  <2> QED
    BY <1>2, <2>1, NoteKept
<1>4. /\ clCurrent' = <<>> /\ clSent' = clSent /\ clWire' = clWire
      /\ clView' = [entries |-> Len(clHistory'), tokens |-> <<>>]
  BY DEF Enter, ShowHistory
<1>5. ClTyped'
  BY <1>3, <1>4 DEF ClInv, ClTyped
<1>6. TokensKeptInOrder'
  <2>1. TokensOf(clHistory') \o clCurrent' = TokensOf(clHistory) \o clCurrent
    BY <1>1, <1>3, <1>4
  <2> QED
    BY <1>4, <2>1 DEF ClInv, TokensKeptInOrder, Received
<1>7. ViewIsNotStale'
  BY <1>4 DEF ViewIsNotStale
<1> QED
  BY <1>5, <1>6, <1>7 DEF ClInv

LEMMA ConnectKeeps == ClInv /\ Connect => ClInv'
<1> SUFFICES ASSUME ClInv, Connect PROVE ClInv'
  OBVIOUS
<1>1. clHistory \in Seq(Entry)
  BY DEF ClInv, ClTyped
<1>2. clCurrent' = clCurrent /\ clSent' = clSent /\ clWire' = clWire
  BY DEF Connect
<1>3. /\ clHistory' \in Seq(Entry) /\ TokensOf(clHistory') = TokensOf(clHistory)
      /\ ViewIsNotStale'
  <2>1. CASE UNCHANGED <<clHistory, clView>>
    BY <1>1, <1>2, <2>1 DEF ClInv, ViewIsNotStale
  <2>2. CASE clHistory' = Append(clHistory, [kind |-> "system"]) /\ ShowHistory(clHistory')
    <3>1. [kind |-> "system"] \in [kind: {"system", "question", "step", "error"}]
      OBVIOUS
    <3> QED
      BY <1>1, <2>2, <3>1, NoteKept DEF ViewIsNotStale, ShowHistory
  <2> QED
    BY <2>1, <2>2 DEF Connect
<1>4. ClTyped'
  BY <1>2, <1>3 DEF ClInv, ClTyped
<1>5. TokensKeptInOrder'
  BY <1>2, <1>3 DEF ClInv, TokensKeptInOrder, Received
<1> QED
  BY <1>3, <1>4, <1>5 DEF ClInv

LEMMA SendKeeps == ASSUME NEW f \in Frames PROVE ClInv /\ ServerSends(f) => ClInv'
<1> SUFFICES ASSUME ClInv, ServerSends(f) PROVE ClInv'
  OBVIOUS
<1> DEFINE L == Len(clSent)
           W == Len(clWire)
           g == [kind |-> f, n |-> L + 1]
<1>1. /\ clSent \in Seq(Frames) /\ clWire \in Seq([kind: Frames, n: Nat])
      /\ L \in Nat /\ W \in Nat /\ W <= L
  BY DEF ClInv, ClTyped
<1>2. clSent' = Append(clSent, f) /\ clWire' = Append(clWire, g) /\ UNCHANGED clShown
  BY <1>1 DEF ServerSends
<1>3. /\ clSent' \in Seq(Frames) /\ Len(clSent') = L + 1 /\ clSent'[L + 1] = f
      /\ \A k \in 1 .. L : clSent'[k] = clSent[k]
  BY <1>1, <1>2
<1>4. /\ clWire' \in Seq([kind: Frames, n: Nat]) /\ Len(clWire') = W + 1
      /\ clWire'[W + 1] = g /\ \A k \in 1 .. W : clWire'[k] = clWire[k]
  BY <1>1, <1>2
<1>5. Received' = Received /\ Received \in 0 .. L /\ Received + W = L
  BY <1>1, <1>3, <1>4 DEF Received
<1>6. SubSeq(clSent', 1, Received') = SubSeq(clSent, 1, Received)
  BY <1>1, <1>3, <1>5
<1>7. \A k \in 1 .. W + 1 : clWire'[k] = [kind |-> clSent'[Received + k], n |-> Received + k]
  <2> TAKE k \in 1 .. W + 1
  <2>1. CASE k = W + 1
    <3>1. Received + k = L + 1
      BY <1>1, <1>5, <2>1
    <3> QED
      BY <1>3, <1>4, <2>1, <3>1
  <2>2. CASE k # W + 1
    <3>1. k \in 1 .. W /\ Received + k \in 1 .. L
      BY <1>1, <1>5, <2>2
    <3>2. clWire[k] = [kind |-> clSent[Received + k], n |-> Received + k]
      BY <3>1 DEF ClInv, TokensKeptInOrder
    <3> QED
      BY <1>3, <1>4, <3>1, <3>2
  <2> QED
    BY <2>1, <2>2
<1>8. ClTyped' /\ ViewIsNotStale'
  BY <1>1, <1>2, <1>3, <1>4 DEF ClInv, ClTyped, ViewIsNotStale, clShown
<1>9. TokensKeptInOrder'
  <2>1. clHistory' = clHistory /\ clCurrent' = clCurrent
    BY <1>2 DEF clShown
  <2> QED
    BY <1>4, <1>5, <1>6, <1>7, <2>1 DEF ClInv, TokensKeptInOrder
<1> QED
  BY <1>8, <1>9 DEF ClInv

LEMMA JoinThenAppend ==
  ASSUME NEW x \in Seq(Nat), NEW y \in Seq(Nat), NEW e \in Nat
  PROVE  x \o Append(y, e) = Append(x \o y, e)
OBVIOUS

LEMMA ReceiveKeeps == ClInv /\ Receive => ClInv'
<1> SUFFICES ASSUME ClInv, Receive PROVE ClInv'
  OBVIOUS
<1> DEFINE f == Head(clWire)
           L == Len(clSent)
           W == Len(clWire)
           D == Received + 1
<1>1. /\ clSent \in Seq(Frames) /\ clWire \in Seq([kind: Frames, n: Nat])
      /\ clCurrent \in Seq(Nat) /\ clHistory \in Seq(Entry)
      /\ L \in Nat /\ W \in Nat /\ W <= L
  BY DEF ClInv, ClTyped
<1>2. clWire # <<>> /\ clWire' = Tail(clWire) /\ clSent' = clSent
  BY DEF Receive
<1>3. /\ W > 0 /\ f = clWire[1] /\ Len(clWire') = W - 1
      /\ clWire' \in Seq([kind: Frames, n: Nat])
      /\ \A k \in 1 .. W - 1 : clWire'[k] = clWire[k + 1]
  BY <1>1, <1>2
<1>4. Received' = D /\ D \in 1 .. L /\ Received \in 0 .. L
  BY <1>1, <1>2, <1>3 DEF Received
<1>5. f = [kind |-> clSent[D], n |-> D] /\ clSent[D] \in Frames /\ D \in Nat
  <2>1. 1 \in 1 .. W
    BY <1>1, <1>3
  <2>2. f = [kind |-> clSent[Received + 1], n |-> Received + 1]
    BY <1>3, <2>1 DEF ClInv, TokensKeptInOrder
  <2> QED
    BY <1>1, <1>4, <2>2
<1>6. /\ SubSeq(clSent, 1, D) = Append(SubSeq(clSent, 1, Received), clSent[D])
      /\ SubSeq(clSent, 1, Received) \in Seq(Frames)
      /\ Len(SubSeq(clSent, 1, Received)) = Received
  BY <1>1, <1>4
<1>7. TokensAmong(SubSeq(clSent, 1, D)) =
        Number(TokensAmong(SubSeq(clSent, 1, Received)), clSent[D], D)
  BY <1>5, <1>6, TokensAmongAppend
<1>8. TokensOf(clHistory) \in Seq(Nat)
  <2>1. [kind |-> "question"] \in Entry
    BY DEF Entry
  <2> QED
    BY <1>1, <2>1, TokensOfAppend
<1>9. \A k \in 1 .. W - 1 : clWire'[k] = [kind |-> clSent'[D + k], n |-> D + k]
  <2> TAKE k \in 1 .. W - 1
  <2>1. k + 1 \in 1 .. W /\ Received + (k + 1) = D + k
    BY <1>1, <1>3, <1>4
  <2>2. clWire[k + 1] = [kind |-> clSent[Received + (k + 1)], n |-> Received + (k + 1)]
    BY <2>1 DEF ClInv, TokensKeptInOrder
  <2> QED
    BY <1>2, <1>3, <2>1, <2>2
<1> HIDE DEF f, D
<1>10. CASE f.kind = "token"
  <2>1. /\ clCurrent' = Append(clCurrent, f.n) /\ clHistory' = clHistory
        /\ clView' = [entries |-> Len(clHistory), tokens |-> clCurrent']
    BY <1>10 DEF Receive, f
  <2>2. clSent[D] = "token" /\ f.n = D
    BY <1>5, <1>10
  <2>3. TokensOf(clHistory) \o Append(clCurrent, D) = Append(TokensOf(clHistory) \o clCurrent, D)
    BY <1>1, <1>5, <1>8, JoinThenAppend
  <2>4. TokensKeptInOrder'
    BY <1>2, <1>3, <1>4, <1>7, <1>9, <2>1, <2>2, <2>3
    DEF ClInv, TokensKeptInOrder, Number
  <2>5. ClTyped'
    BY <1>1, <1>2, <1>3, <1>5, <2>1, <2>2 DEF ClTyped
  <2> QED
    BY <2>1, <2>4, <2>5 DEF ClInv, ViewIsNotStale
<1>11. CASE f.kind # "token"
  <2>1. /\ clHistory' = Append(clHistory, [kind |-> f.kind]) /\ clCurrent' = clCurrent
        /\ ShowHistory(clHistory')
    BY <1>11 DEF Receive, f
  <2>2. [kind |-> f.kind] \in [kind: {"system", "question", "step", "error"}] /\ clSent[D] # "token"
    BY <1>5, <1>11 DEF Frames
  <2>3. clHistory' \in Seq(Entry) /\ TokensOf(clHistory') = TokensOf(clHistory)
    BY <1>1, <2>1, <2>2, NoteKept
  <2>4. TokensKeptInOrder'
    BY <1>2, <1>3, <1>4, <1>7, <1>9, <2>1, <2>2, <2>3
    DEF ClInv, TokensKeptInOrder, Number
  <2>5. ClTyped'
    BY <1>1, <1>2, <1>3, <2>1, <2>3 DEF ClTyped
  <2> QED
    BY <2>1, <2>4, <2>5 DEF ClInv, ViewIsNotStale, ShowHistory
<1> QED
  BY <1>10, <1>11

\* The screen and the history of the terminal client are what was received,
\* whatever is asked in the middle of an answer.
THEOREM ClientScreenIsTrue == ClSpec => []ScreenIsTrue
<1>1. ClInit => ClInv
  BY ClStarts
<1>2. ClInv /\ [ClNext]_clVars => ClInv'
  <2> SUFFICES ASSUME ClInv, [ClNext]_clVars PROVE ClInv'
    OBVIOUS
  <2>1. ASSUME Quit \/ UNCHANGED clVars PROVE ClInv'
    BY <2>1 DEF Quit, clVars, clShown, ClInv, ClTyped, TokensKeptInOrder, ViewIsNotStale, Received
  <2> QED
    BY <2>1, ConnectKeeps, EnterKeeps, ReceiveKeeps, SendKeeps DEF ClNext
<1>3. ClInv => ScreenIsTrue
  BY DEF ClInv, ScreenIsTrue
<1> QED
  BY <1>1, <1>2, <1>3, PTL DEF ClSpec

-----------------------------------------------------------------------------
\* The splitting of a text.

\* The states of the loop of Length.
Lengths(text, s, t) ==
  /\ t \in [0 .. Len(s) -> Nat] /\ t[0] = PrefixLen
  /\ \A i \in 1 .. Len(s) : t[i] = t[i - 1] + text[s[i]] + 1

LEMMA LengthStates ==
  ASSUME NEW text \in Seq(Nat), NEW s \in Seq(1 .. Len(text))
  PROVE  \E t : Lengths(text, s, t) /\ Length(text, s) = t[Len(s)]
<1> DEFINE L == Len(s)
           at(i) == text[s[i]]
           Body(f) == [i \in 0 .. L |-> IF i = 0 THEN PrefixLen ELSE f[i - 1] + at(i) + 1]
           t == CHOOSE f : f = Body(f)
           step == [i \in 1 .. L |-> [x \in Nat |-> x + at(i) + 1]]
<1>0. L \in Nat /\ PrefixLen \in Nat /\ \A i \in 1 .. L : at(i) \in Nat
  <2>1. L \in Nat /\ PrefixLen \in Nat
    BY KnSizes
  <2>2. ASSUME NEW i \in 1 .. L PROVE at(i) \in Nat
    <3>1. s[i] \in 1 .. Len(text)
      OBVIOUS
    <3> QED
      BY <3>1
  <2> QED
    BY <2>1, <2>2
<1> HIDE DEF at
<1>1. \A i \in 0 + 1 .. L : \A x \in Nat : step[i][x] = x + at(i) + 1 /\ step[i][x] \in Nat
  <2> HIDE DEF L
  <2>1. \A i \in 0 + 1 .. L : i \in 1 .. L
    BY <1>0
  <2> QED
    BY <1>0, <2>1
<1>2. PICK f : States(f, Nat, PrefixLen, step, 0, L)
  <2> HIDE DEF step, L
  <2>1. Closed(step, Nat, 0, L) /\ 0 <= L
    BY <1>0, <1>1 DEF Closed
  <2> QED
    BY <1>0, <2>1, Recursion
<1>3. f = Body(f)
  <2>1. ASSUME NEW i \in 0 .. L, i # 0 PROVE f[i] = f[i - 1] + at(i) + 1
    <3> HIDE DEF step, L
    <3>1. i \in 0 + 1 .. L /\ f[i - 1] \in Nat
      BY <1>0, <1>2, <2>1 DEF States
    <3> QED
      BY <1>1, <1>2, <3>1 DEF States
  <2> HIDE DEF step, L
  <2> QED
    BY <1>2, <2>1 DEF States
<1>4. t = Body(t)
  BY <1>3
<1>5. /\ t[0] = PrefixLen /\ t = [i \in 0 .. L |-> t[i]]
      /\ \A i \in 1 .. L : t[i] = t[i - 1] + at(i) + 1
  <2> HIDE DEF t, L
  <2>1. 0 \in 0 .. L /\ \A i \in 1 .. L : i \in 0 .. L /\ i # 0
    BY <1>0
  <2>2. \A i \in 0 .. L : t[i] = IF i = 0 THEN PrefixLen ELSE t[i - 1] + at(i) + 1
    BY <1>4
  <2> QED
    BY <1>4, <2>1, <2>2
<1> DEFINE Ok == {i \in 0 .. L : t[i] \in Nat}
<1>6. \A i \in 0 .. L : i \in Ok
  <2> HIDE DEF t, L
  <2>1. 0 \in Ok
    BY <1>0, <1>5
  <2>2. ASSUME NEW i \in 0 + 1 .. L, i - 1 \in Ok PROVE i \in Ok
    <3>1. i \in 1 .. L /\ i \in 0 .. L
      BY <1>0
    <3>2. t[i - 1] \in Nat /\ t[i] = t[i - 1] + at(i) + 1 /\ at(i) \in Nat
      BY <1>0, <1>5, <2>2, <3>1
    <3>3. t[i] \in Nat
      BY <3>2
    <3> QED
      BY <3>1, <3>3
  <2> HIDE DEF Ok
  <2> QED
    BY <1>0, <2>1, <2>2, LoopInduction
<1>7. Lengths(text, s, t)
  <2> HIDE DEF t
  <2> QED
    BY <1>5, <1>6 DEF Lengths, at
<1> QED
  BY <1>7 DEF Length, at

\* A chunk that gets a line gets longer by it and its end.
LEMMA LengthAppend ==
  ASSUME NEW text \in Seq(Nat), NEW s \in Seq(1 .. Len(text)), NEW e \in 1 .. Len(text)
  PROVE  Length(text, Append(s, e)) = Length(text, s) + text[e] + 1
<1> DEFINE L == Len(s)
           g == Append(s, e)
<1>1. /\ g \in Seq(1 .. Len(text)) /\ Len(g) = L + 1 /\ L \in Nat /\ g[L + 1] = e
      /\ \A i \in 1 .. L : g[i] = s[i]
  OBVIOUS
<1>2. PICK t : Lengths(text, s, t) /\ Length(text, s) = t[L]
  BY LengthStates
<1> HIDE DEF g, L
<1>3. PICK u : Lengths(text, g, u) /\ Length(text, g) = u[L + 1]
  BY <1>1, LengthStates
<1> DEFINE Ok == {i \in 0 .. L : u[i] = t[i]}
<1>4. 0 \in Ok
  BY <1>1, <1>2, <1>3 DEF Lengths
<1>5. ASSUME NEW i \in 0 + 1 .. L, i - 1 \in Ok PROVE i \in Ok
  <2>1. i \in 1 .. L /\ i \in 1 .. Len(g) /\ i \in 0 .. L
    BY <1>1
  <2>2. u[i] = u[i - 1] + text[g[i]] + 1 /\ t[i] = t[i - 1] + text[s[i]] + 1
    BY <1>2, <1>3, <2>1 DEF Lengths, L
  <2> QED
    BY <1>1, <1>5, <2>1, <2>2
<1>6. u[L] = t[L]
  <2>1. L \in 0 .. L
    BY <1>1
  <2> HIDE DEF Ok
  <2>2. 0 .. L \subseteq Ok
    BY <1>1, <1>4, <1>5, LoopInduction
  <2> QED
    BY <2>1, <2>2 DEF Ok
<1>7. u[L + 1] = u[L] + text[e] + 1
  <2>1. L + 1 \in 1 .. Len(g) /\ (L + 1) - 1 = L
    BY <1>1
  <2> QED
    BY <1>1, <1>3, <2>1 DEF Lengths
<1> QED
  BY <1>2, <1>3, <1>6, <1>7 DEF g, L

LEMMA LengthEmpty ==
  ASSUME NEW text \in Seq(Nat)
  PROVE  Length(text, <<>>) = PrefixLen
<1>1. <<>> \in Seq(1 .. Len(text)) /\ Len(<<>>) = 0
  OBVIOUS
<1>2. PICK t : Lengths(text, <<>>, t) /\ Length(text, <<>>) = t[0]
  BY <1>1, LengthStates
<1> QED
  BY <1>2 DEF Lengths

\* A text's lines up to i, as they are cut into the chunks of P: each non-blank
\* one, in order, and no chunk of more than a line over its size.
OfText(text, P, i) ==
  \A n \in 1 .. Len(P) : \A k \in 1 .. Len(P[n]) : P[n][k] \in 1 .. i /\ text[P[n][k]] # 0
InOrder(P) ==
  \A n, m \in 1 .. Len(P) : \A k \in 1 .. Len(P[n]), l \in 1 .. Len(P[m]) :
    n < m \/ (n = m /\ k < l) => P[n][k] < P[m][l]
AllOf(text, P, i) ==
  \A x \in 1 .. i : text[x] # 0 => \E n \in 1 .. Len(P) : \E k \in 1 .. Len(P[n]) : P[n][k] = x
Fits(text, s) == Len(s) <= 1 \/ Length(text, s) <= ChunkSize + 1
Cut(text, P, i) ==
  /\ P \in Seq(Seq(1 .. Len(text)))
  /\ OfText(text, P, i) /\ InOrder(P) /\ AllOf(text, P, i)
  /\ \A n \in 1 .. Len(P) : Fits(text, P[n])

\* What smartSplit's loop has after i lines: the chunks and the one it is at.
Loop(text, c, i) ==
  /\ c \in [done: Seq(Seq(1 .. Len(text))), lines: Seq(1 .. Len(text)), len: Nat]
  /\ Cut(text, Append(c.done, c.lines), i)
  /\ c.len = Length(text, c.lines) /\ (c.lines = <<>> \/ c.len > PrefixLen)

\* The line i gets a chunk of its own.
LEMMA CutFlush ==
  ASSUME NEW text \in Seq(Nat), NEW i \in 1 .. Len(text), NEW P, Cut(text, P, i - 1),
         text[i] # 0
  PROVE  Cut(text, Append(P, <<i>>), i)
<1> DEFINE L == Len(P)
           Q == Append(P, <<i>>)
<1>1. P \in Seq(Seq(1 .. Len(text))) /\ L \in Nat /\ i \in Nat /\ <<i>> \in Seq(1 .. Len(text))
  BY DEF Cut
<1>2. /\ Q \in Seq(Seq(1 .. Len(text))) /\ Len(Q) = L + 1 /\ Q[L + 1] = <<i>>
      /\ \A n \in 1 .. L : Q[n] = P[n]
  BY <1>1, AppendProperties
<1> HIDE DEF Q, L
<1>3. /\ \A n \in 1 .. Len(Q) : n \in 1 .. L \/ n = L + 1
      /\ 1 .. L \subseteq 1 .. Len(Q) /\ L + 1 \in 1 .. Len(Q)
      /\ 1 .. i - 1 \subseteq 1 .. i /\ \A x \in 1 .. i : x \in 1 .. i - 1 \/ x = i
  BY <1>1, <1>2
<1>4. /\ Len(Q[L + 1]) = 1 /\ 1 \in 1 .. Len(Q[L + 1])
      /\ \A k \in 1 .. Len(Q[L + 1]) : k = 1 /\ Q[L + 1][k] = i
      /\ Q[L + 1][1] = i
  <2>1. Len(<<i>>) = 1 /\ <<i>>[1] = i /\ \A k \in 1 .. 1 : k = 1
    OBVIOUS
  <2> QED
    BY <1>2, <2>1
<1>5. \A n \in 1 .. L : \A k \in 1 .. Len(Q[n]) : Q[n][k] \in 1 .. i - 1 /\ text[Q[n][k]] # 0
  BY <1>2 DEF Cut, OfText, L
<1>6. OfText(text, Q, i)
  <2> SUFFICES ASSUME NEW n \in 1 .. Len(Q), NEW k \in 1 .. Len(Q[n])
               PROVE  Q[n][k] \in 1 .. i /\ text[Q[n][k]] # 0
    BY DEF OfText
  <2>1. CASE n = L + 1
    <3>1. Q[n][k] = i
      BY <1>4, <2>1, Zenon
    <3> QED
      BY <1>1, <3>1
  <2>2. CASE n \in 1 .. L
    BY <1>3, <1>5, <2>2
  <2> QED
    BY <1>3, <2>1, <2>2
<1>7. InOrder(Q)
  <2> SUFFICES ASSUME NEW n \in 1 .. Len(Q), NEW m \in 1 .. Len(Q),
                      NEW k \in 1 .. Len(Q[n]), NEW l \in 1 .. Len(Q[m]),
                      n < m \/ (n = m /\ k < l)
               PROVE  Q[n][k] < Q[m][l]
    BY DEF InOrder
  <2>1. CASE m \in 1 .. L
    <3>1. n \in 1 .. L
      BY <1>1, <1>3, <2>1
    <3>2. Q[n] = P[n] /\ Q[m] = P[m]
      BY <1>2, <2>1, <3>1
    <3> QED
      BY <2>1, <3>1, <3>2 DEF Cut, InOrder, L
  <2>2. CASE m = L + 1
    <3>1. l = 1 /\ Q[m][l] = i
      BY <1>4, <2>2
    <3>2. n # m
      BY <1>4, <2>2, <3>1
    <3>3. Q[n][k] \in 1 .. i - 1
      BY <1>3, <1>5, <2>2, <3>2
    <3> QED
      BY <1>1, <3>1, <3>3
  <2> QED
    BY <1>3, <2>1, <2>2
<1>8. AllOf(text, Q, i)
  <2> SUFFICES ASSUME NEW x \in 1 .. i, text[x] # 0
               PROVE  \E n \in 1 .. Len(Q) : \E k \in 1 .. Len(Q[n]) : Q[n][k] = x
    BY DEF AllOf
  <2>1. CASE x = i
    BY <1>3, <1>4, <2>1
  <2>2. CASE x \in 1 .. i - 1
    <3>1. PICK n \in 1 .. L : \E k \in 1 .. Len(P[n]) : P[n][k] = x
      BY <2>2 DEF Cut, AllOf, L
    <3> QED
      BY <1>2, <1>3, <3>1
  <2> QED
    BY <1>3, <2>1, <2>2
<1>9. \A n \in 1 .. Len(Q) : Fits(text, Q[n])
  <2> TAKE n \in 1 .. Len(Q)
  <2>1. CASE n = L + 1
    <3>1. Len(Q[n]) = 1
      BY <1>4, <2>1
    <3> QED
      BY <3>1 DEF Fits
  <2>2. CASE n \in 1 .. L
    BY <1>2, <2>2 DEF Cut, L
  <2> QED
    BY <1>3, <2>1, <2>2
<1> QED
  BY <1>2, <1>6, <1>7, <1>8, <1>9 DEF Cut, Q

\* A blank line is in no chunk.
LEMMA CutBlank ==
  ASSUME NEW text \in Seq(Nat), NEW i \in 1 .. Len(text), NEW P, Cut(text, P, i - 1),
         text[i] = 0
  PROVE  Cut(text, P, i)
<1>1. 1 .. i - 1 \subseteq 1 .. i /\ \A x \in 1 .. i : x \in 1 .. i - 1 \/ x = i
  OBVIOUS
<1>2. OfText(text, P, i)
  BY <1>1 DEF Cut, OfText
<1>3. AllOf(text, P, i)
  BY <1>1 DEF Cut, AllOf
<1> QED
  BY <1>2, <1>3 DEF Cut

\* The line i joins the last chunk, unless that would be too long.
LEMMA CutJoin ==
  ASSUME NEW text \in Seq(Nat), NEW i \in 1 .. Len(text), text[i] # 0,
         NEW D \in Seq(Seq(1 .. Len(text))), NEW s \in Seq(1 .. Len(text)),
         Cut(text, Append(D, s), i - 1), Fits(text, Append(s, i))
  PROVE  Cut(text, Append(D, Append(s, i)), i)
<1> DEFINE L == Len(D)
           M == Len(s)
           P == Append(D, s)
           r == Append(s, i)
           Q == Append(D, r)
<1>1. /\ L \in Nat /\ M \in Nat /\ i \in Nat
      /\ r \in Seq(1 .. Len(text)) /\ Len(r) = M + 1 /\ r[M + 1] = i
      /\ \A k \in 1 .. M : r[k] = s[k]
  BY AppendProperties
<1>2. /\ Len(P) = L + 1 /\ P[L + 1] = s /\ \A n \in 1 .. L : P[n] = D[n]
  BY AppendProperties
<1>3. /\ Q \in Seq(Seq(1 .. Len(text)))
      /\ Len(Q) = L + 1 /\ Q[L + 1] = r /\ \A n \in 1 .. L : Q[n] = D[n]
  BY <1>1, AppendProperties
<1> HIDE DEF L, M, P, r, Q
<1>4. /\ 1 .. i - 1 \subseteq 1 .. i /\ \A x \in 1 .. i : x \in 1 .. i - 1 \/ x = i
      /\ \A n \in 1 .. L + 1 : n \in 1 .. L \/ n = L + 1
      /\ 1 .. L \subseteq 1 .. L + 1 /\ L + 1 \in 1 .. L + 1
      /\ \A k \in 1 .. M + 1 : k \in 1 .. M \/ k = M + 1
      /\ 1 .. M \subseteq 1 .. M + 1 /\ M + 1 \in 1 .. M + 1
  BY <1>1
\* A place of Q is a place of P, with the same line, or the new one.
<1> DEFINE New(n, k) == n = L + 1 /\ k = M + 1
<1>5. ASSUME NEW n \in 1 .. L + 1, NEW k \in 1 .. Len(Q[n])
      PROVE  \/ New(n, k) /\ Q[n][k] = i
             \/ ~New(n, k) /\ k \in 1 .. Len(P[n]) /\ Q[n][k] = P[n][k]
  <2>1. CASE n \in 1 .. L
    BY <1>1, <1>2, <1>3, <2>1
  <2>2. CASE n = L + 1
    BY <1>1, <1>2, <1>3, <1>4, <2>2 DEF M
  <2> QED
    BY <1>4, <2>1, <2>2
<1>6. \A n \in 1 .. L + 1 : \A k \in 1 .. Len(P[n]) : P[n][k] \in 1 .. i - 1 /\ text[P[n][k]] # 0
  BY <1>2 DEF Cut, OfText, P
<1>7. OfText(text, Q, i)
  <2> SUFFICES ASSUME NEW n \in 1 .. L + 1, NEW k \in 1 .. Len(Q[n])
               PROVE  Q[n][k] \in 1 .. i /\ text[Q[n][k]] # 0
    BY <1>3 DEF OfText
  <2>1. CASE New(n, k) /\ Q[n][k] = i
    BY <1>1, <2>1
  <2>2. CASE k \in 1 .. Len(P[n]) /\ Q[n][k] = P[n][k]
    BY <1>4, <1>6, <2>2
  <2> QED
    BY <1>5, <2>1, <2>2
<1>8. InOrder(Q)
  <2> SUFFICES ASSUME NEW n \in 1 .. L + 1, NEW m \in 1 .. L + 1,
                      NEW k \in 1 .. Len(Q[n]), NEW l \in 1 .. Len(Q[m]),
                      n < m \/ (n = m /\ k < l)
               PROVE  Q[n][k] < Q[m][l]
    BY <1>3 DEF InOrder
  <2>1. ~New(n, k)
    <3> SUFFICES ASSUME n = L + 1, k = M + 1 PROVE FALSE
      OBVIOUS
    <3>1. n = m
      BY <1>1
    <3>2. l \in 1 .. M + 1
      BY <1>1, <1>3, <3>1
    <3> QED
      BY <1>1, <3>1, <3>2
  <2>2. k \in 1 .. Len(P[n]) /\ Q[n][k] = P[n][k]
    BY <1>5, <2>1
  <2>3. CASE New(m, l)
    <3>1. Q[m][l] = i
      BY <1>5, <2>3
    <3>2. P[n][k] \in 1 .. i - 1
      BY <1>6, <2>2
    <3>3. Q[n][k] \in 1 .. i - 1
      BY <2>2, <3>2, Zenon
    <3>4. \A v \in 1 .. i - 1 : v < i
      BY <1>1
    <3> QED
      BY <3>1, <3>3, <3>4, Zenon
  <2>4. CASE ~New(m, l)
    <3>1. l \in 1 .. Len(P[m]) /\ Q[m][l] = P[m][l]
      BY <1>5, <2>4
    <3> QED
      BY <1>2, <2>2, <3>1 DEF Cut, InOrder, P
  <2> QED
    BY <2>3, <2>4
<1>9. AllOf(text, Q, i)
  <2> SUFFICES ASSUME NEW x \in 1 .. i, text[x] # 0
               PROVE  \E n \in 1 .. L + 1 : \E k \in 1 .. Len(Q[n]) : Q[n][k] = x
    BY <1>3 DEF AllOf
  <2>1. CASE x = i
    BY <1>1, <1>3, <1>4, <2>1
  <2>2. CASE x \in 1 .. i - 1
    <3>1. PICK n \in 1 .. L + 1 : \E k \in 1 .. Len(P[n]) : P[n][k] = x
      BY <1>2, <2>2 DEF Cut, AllOf, P
    <3>2. PICK k \in 1 .. Len(P[n]) : P[n][k] = x
      BY <3>1
    <3>3. CASE n \in 1 .. L
      BY <1>2, <1>3, <3>2, <3>3
    <3>4. CASE n = L + 1
      <4>1. k \in 1 .. M /\ s[k] = x
        BY <1>2, <3>2, <3>4 DEF M
      <4>2. k \in 1 .. Len(Q[n]) /\ Q[n][k] = x
        BY <1>1, <1>3, <1>4, <3>4, <4>1
      <4> QED
        BY <4>2
    <3> QED
      BY <1>4, <3>3, <3>4
  <2> QED
    BY <1>4, <2>1, <2>2
<1>10. \A n \in 1 .. L + 1 : Fits(text, Q[n])
  <2> TAKE n \in 1 .. L + 1
  <2>1. CASE n \in 1 .. L
    <3>1. Fits(text, P[n])
      BY <1>2 DEF Cut, P
    <3> QED
      BY <1>2, <1>3, <2>1, <3>1
  <2>2. CASE n = L + 1
    BY <1>3, <2>2 DEF r
  <2> QED
    BY <1>4, <2>1, <2>2
<1>11. Cut(text, Q, i)
  BY <1>3, <1>7, <1>8, <1>9, <1>10 DEF Cut
<1> QED
  BY <1>11 DEF Q, r

\* A turn of smartSplit's loop.
LEMMA AddLineCuts ==
  ASSUME NEW text \in Seq(Nat), NEW i \in 1 .. Len(text), NEW c, Loop(text, c, i - 1)
  PROVE  Loop(text, AddLine(text, c, i), i)
<1> DEFINE L == Seq(1 .. Len(text))
           d == AddLine(text, c, i)
<1>1. /\ c.done \in Seq(L) /\ c.lines \in L /\ c.len \in Nat
      /\ Cut(text, Append(c.done, c.lines), i - 1)
      /\ c.len = Length(text, c.lines) /\ (c.lines = <<>> \/ c.len > PrefixLen)
      /\ c = [done |-> c.done, lines |-> c.lines, len |-> c.len]
  BY DEF Loop
<1>2. text[i] \in Nat /\ i \in Nat /\ PrefixLen \in Nat /\ ChunkSize \in Nat
  BY KnSizes
<1>3. CASE text[i] = 0
  <2>1. d = c
    BY <1>3 DEF AddLine
  <2> QED
    BY <1>3, <2>1, CutBlank DEF Loop
<1>4. CASE text[i] # 0 /\ c.len + text[i] > ChunkSize
  <2> DEFINE D == Append(c.done, c.lines)
  <2>1. d = [done |-> D, lines |-> <<i>>, len |-> PrefixLen + text[i] + 1]
    BY <1>4 DEF AddLine
  <2>2. D \in Seq(L) /\ <<i>> \in L
    BY <1>1, AppendProperties
  <2>3. Length(text, <<i>>) = PrefixLen + text[i] + 1
    <3>1. <<>> \in L /\ <<i>> = Append(<<>>, i)
      OBVIOUS
    <3> QED
      BY <3>1, LengthEmpty, LengthAppend
  <2>4. Cut(text, Append(D, <<i>>), i)
    BY <1>1, <1>4, CutFlush
  <2> HIDE DEF D, d, L
  <2>5. d \in [done: Seq(L), lines: L, len: Nat]
    BY <1>2, <2>1, <2>2
  <2>6. d.done = D /\ d.lines = <<i>> /\ d.len = PrefixLen + text[i] + 1 /\ d.len > PrefixLen
    BY <1>2, <2>1
  <2> QED
    BY <2>3, <2>4, <2>5, <2>6 DEF Loop, d, L
<1>5. CASE text[i] # 0 /\ ~(c.len + text[i] > ChunkSize)
  <2> DEFINE r == Append(c.lines, i)
  <2>1. d = [done |-> c.done, lines |-> r, len |-> c.len + text[i] + 1]
    BY <1>1, <1>5 DEF AddLine
  <2>2. r \in L /\ Length(text, r) = c.len + text[i] + 1
    BY <1>1, AppendProperties, LengthAppend
  <2>3. Fits(text, r)
    <3>1. c.len + text[i] + 1 <= ChunkSize + 1
      BY <1>1, <1>2, <1>5
    <3> HIDE DEF r
    <3> QED
      BY <2>2, <3>1 DEF Fits
  <2>4. Cut(text, Append(c.done, r), i)
    BY <1>1, <1>5, <2>3, CutJoin
  <2>5. c.len >= PrefixLen
    <3>1. CASE c.lines = <<>>
      BY <1>1, <1>2, <3>1, LengthEmpty
    <3> QED
      BY <1>1, <1>2, <3>1
  <2> HIDE DEF r, d, L
  <2>6. d \in [done: Seq(L), lines: L, len: Nat]
    BY <1>1, <1>2, <2>1, <2>2
  <2>7. d.done = c.done /\ d.lines = r /\ d.len = c.len + text[i] + 1 /\ d.len > PrefixLen
    BY <1>1, <1>2, <2>1, <2>5
  <2> QED
    BY <2>2, <2>4, <2>6, <2>7 DEF Loop, d, L
<1> QED
  BY <1>3, <1>4, <1>5

LEMMA AddLineType ==
  ASSUME NEW text \in Seq(Nat), NEW i \in 1 .. Len(text),
         NEW c \in [done: Seq(Seq(1 .. Len(text))), lines: Seq(1 .. Len(text)), len: Nat]
  PROVE  AddLine(text, c, i) \in
           [done: Seq(Seq(1 .. Len(text))), lines: Seq(1 .. Len(text)), len: Nat]
<1> DEFINE L == Seq(1 .. Len(text))
           D == Append(c.done, c.lines)
           r == Append(c.lines, i)
<1>1. /\ c.done \in Seq(L) /\ c.lines \in L /\ c.len \in Nat /\ <<i>> \in L
      /\ text[i] \in Nat /\ PrefixLen \in Nat
      /\ c = [done |-> c.done, lines |-> c.lines, len |-> c.len]
  BY KnSizes
<1>2. D \in Seq(L) /\ r \in L
  BY <1>1, AppendProperties
<1>3. AddLine(text, c, i) \in
        {c, [done |-> D, lines |-> <<i>>, len |-> PrefixLen + text[i] + 1],
         [done |-> c.done, lines |-> r, len |-> c.len + text[i] + 1]}
  BY <1>1 DEF AddLine
<1> DEFINE S == [done: Seq(L), lines: L, len: Nat]
<1>4. /\ PrefixLen + text[i] + 1 \in Nat /\ c.len + text[i] + 1 \in Nat /\ c \in S
  BY <1>1
<1> HIDE DEF L, D, r
<1>5. [done |-> D, lines |-> <<i>>, len |-> PrefixLen + text[i] + 1] \in S
  BY <1>1, <1>2, <1>4
<1>6. [done |-> c.done, lines |-> r, len |-> c.len + text[i] + 1] \in S
  BY <1>1, <1>2, <1>4
<1> QED
  BY <1>3, <1>4, <1>5, <1>6 DEF L

\* smartSplit cuts the whole text.
LEMMA SplitCuts ==
  ASSUME NEW text \in Seq(Nat)
  PROVE  Cut(text, Split(text), Len(text))
<1> DEFINE n == Len(text)
           start == [done |-> <<>>, lines |-> <<>>, len |-> PrefixLen]
           S == [done: Seq(Seq(1 .. n)), lines: Seq(1 .. n), len: Nat]
           Body(f) == [i \in 0 .. n |-> IF i = 0 THEN start ELSE AddLine(text, f[i - 1], i)]
           cut == CHOOSE f : f = Body(f)
           step == [i \in 1 .. n |-> [x \in S |-> AddLine(text, x, i)]]
           end == cut[n]
<1>0. n \in Nat /\ start \in S /\ PrefixLen \in Nat
  BY KnSizes
<1>1. \A i \in 0 + 1 .. n : \A x \in S : step[i][x] = AddLine(text, x, i) /\ step[i][x] \in S
  BY AddLineType
<1>2. PICK f : States(f, S, start, step, 0, n)
  <2> HIDE DEF step, n, S, start
  <2>1. Closed(step, S, 0, n) /\ 0 <= n
    BY <1>0, <1>1 DEF Closed
  <2> QED
    BY <1>0, <2>1, Recursion
<1>3. f = Body(f)
  <2>1. ASSUME NEW i \in 0 .. n, i # 0 PROVE f[i] = AddLine(text, f[i - 1], i)
    <3> HIDE DEF step, n, S
    <3>1. i \in 0 + 1 .. n /\ f[i - 1] \in S
      BY <1>0, <1>2, <2>1 DEF States
    <3> QED
      BY <1>1, <1>2, <3>1 DEF States
  <2> HIDE DEF step, n, S, start
  <2> QED
    BY <1>2, <2>1 DEF States
<1>4. cut = Body(cut)
  BY <1>3
<1>5. cut[0] = start /\ \A i \in 0 + 1 .. n : cut[i] = AddLine(text, cut[i - 1], i)
  <2> HIDE DEF cut, n, start
  <2>1. 0 \in 0 .. n /\ \A i \in 0 + 1 .. n : i \in 0 .. n /\ i # 0
    BY <1>0
  <2>2. \A i \in 0 .. n : cut[i] = IF i = 0 THEN start ELSE AddLine(text, cut[i - 1], i)
    BY <1>4
  <2> QED
    BY <2>1, <2>2
<1> DEFINE Ok == {i \in 0 .. n : Loop(text, cut[i], i)}
<1>6. 0 \in Ok
  <2>1. Loop(text, start, 0)
    <3> DEFINE P == Append(<<>>, <<>>)
    <3>1. /\ <<>> \in Seq(Seq(1 .. n)) /\ <<>> \in Seq(1 .. n) /\ Len(<<>>) = 0
      OBVIOUS
    <3>2. P \in Seq(Seq(1 .. n)) /\ Len(P) = 1 /\ P[1] = <<>>
      BY <3>1
    <3> HIDE DEF P
    <3>3. OfText(text, P, 0) /\ InOrder(P) /\ AllOf(text, P, 0)
      BY <3>1, <3>2 DEF OfText, InOrder, AllOf
    <3>4. \A k \in 1 .. Len(P) : Fits(text, P[k])
      BY <3>1, <3>2 DEF Fits
    <3>5. Cut(text, P, 0)
      BY <3>2, <3>3, <3>4 DEF Cut
    <3> QED
      BY <1>0, <3>5, LengthEmpty DEF Loop, P
  <2> HIDE DEF cut, start
  <2> QED
    BY <1>0, <1>5, <2>1
<1>7. ASSUME NEW i \in 0 + 1 .. n, i - 1 \in Ok PROVE i \in Ok
  <2> HIDE DEF cut
  <2>1. i \in 1 .. n /\ i \in 0 .. n /\ Loop(text, cut[i - 1], i - 1)
    BY <1>0, <1>7
  <2>2. Loop(text, AddLine(text, cut[i - 1], i), i)
    BY <2>1, AddLineCuts
  <2> QED
    BY <1>5, <2>1, <2>2
<1>8. Loop(text, end, n)
  <2>1. n \in 0 .. n
    BY <1>0
  <2> HIDE DEF Ok, n
  <2>2. 0 .. n \subseteq Ok
    BY <1>0, <1>6, <1>7, LoopInduction
  <2> QED
    BY <2>1, <2>2 DEF Ok
<1>9. Split(text) = IF end.len > PrefixLen THEN Append(end.done, end.lines) ELSE end.done
  BY DEF Split
<1> HIDE DEF end
<1>10. CASE end.len > PrefixLen
  BY <1>8, <1>9, <1>10 DEF Loop
<1>11. CASE ~(end.len > PrefixLen)
  <2> DEFINE D == end.done
             P == Append(D, <<>>)
  <2>1. D \in Seq(Seq(1 .. n)) /\ end.lines = <<>> /\ Cut(text, P, n) /\ Split(text) = D
    BY <1>8, <1>9, <1>11 DEF Loop
  <2>2. /\ Len(D) \in Nat /\ Len(P) = Len(D) + 1 /\ P[Len(D) + 1] = <<>>
        /\ \A k \in 1 .. Len(D) : P[k] = D[k] /\ k \in 1 .. Len(P)
        /\ \A k \in 1 .. Len(P) : k \in 1 .. Len(D) \/ k = Len(D) + 1
        /\ Len(<<>>) = 0
    <3>1. <<>> \in Seq(1 .. n) /\ Len(D) \in Nat /\ Len(<<>>) = 0
      BY <2>1
    <3>2. /\ Len(P) = Len(D) + 1 /\ P[Len(D) + 1] = <<>>
          /\ \A k \in 1 .. Len(D) : P[k] = D[k]
      BY <2>1, <3>1, AppendProperties
    <3> HIDE DEF P, D
    <3> QED
      BY <3>1, <3>2
  <2> HIDE DEF P, D, n
  <2>3. OfText(text, D, n)
    <3> SUFFICES ASSUME NEW m \in 1 .. Len(D), NEW k \in 1 .. Len(D[m])
                 PROVE  D[m][k] \in 1 .. n /\ text[D[m][k]] # 0
      BY DEF OfText
    <3>1. m \in 1 .. Len(P) /\ P[m] = D[m]
      BY <2>2
    <3> QED
      BY <2>1, <3>1 DEF Cut, OfText
  <2>4. InOrder(D)
    <3> SUFFICES ASSUME NEW k \in 1 .. Len(D), NEW m \in 1 .. Len(D),
                        NEW x \in 1 .. Len(D[k]), NEW y \in 1 .. Len(D[m]),
                        k < m \/ (k = m /\ x < y)
                 PROVE  D[k][x] < D[m][y]
      BY DEF InOrder
    <3>1. k \in 1 .. Len(P) /\ P[k] = D[k] /\ m \in 1 .. Len(P) /\ P[m] = D[m]
      BY <2>2
    <3> QED
      BY <2>1, <3>1 DEF Cut, InOrder
  <2>5. AllOf(text, D, n)
    <3> SUFFICES ASSUME NEW x \in 1 .. n, text[x] # 0
                 PROVE  \E m \in 1 .. Len(D) : \E k \in 1 .. Len(D[m]) : D[m][k] = x
      BY DEF AllOf
    <3>1. PICK m \in 1 .. Len(P) : \E k \in 1 .. Len(P[m]) : P[m][k] = x
      BY <2>1 DEF Cut, AllOf
    <3>2. m \in 1 .. Len(D)
      <4> SUFFICES ASSUME m = Len(D) + 1 PROVE FALSE
        BY <2>2
      <4> QED
        BY <2>2, <3>1
    <3>3. D[m] = P[m]
      BY <2>2, <3>2
    <3> QED
      BY <3>1, <3>2, <3>3, Zenon
  <2>6. \A k \in 1 .. Len(D) : Fits(text, D[k])
    BY <2>1, <2>2 DEF Cut
  <2> QED
    BY <2>1, <2>3, <2>4, <2>5, <2>6 DEF Cut, n
<1> QED
  BY <1>10, <1>11
=============================================================================
