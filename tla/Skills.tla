------------------------------- MODULE Skills -------------------------------
(***************************************************************************)
(* skills.MatchSkills: the registered skills whose keywords an instruction *)
(* names, by the number of hits.  Each loop of the code is a function of   *)
(* its index: the state after that many turns.                             *)
(***************************************************************************)
EXTENDS Naturals, Sequences, Functions

CONSTANT SkMaxResults \* bound on the results asked for

ASSUME SkBound == SkMaxResults \in Nat

VARIABLE skHits \* the instruction of a call: how many keywords of each
                \* registered skill, in order, it has

\* The skills with a hit.
Candidates(hits) ==
  LET c[i \in 0 .. Len(hits)] ==
        IF i = 0 THEN <<>>
        ELSE IF hits[i] > 0 THEN Append(c[i - 1], [skill |-> i, hits |-> hits[i]])
             ELSE c[i - 1]
  IN c[Len(hits)]

Exchange(c, i, j) ==
  [c EXCEPT ![i] = c[j], ![j] = c[i]]

\* Mutation: the comparison is turned round.
Descends(x, y) == y.hits < x.hits

\* The test of the inner loop.
OutOfOrder(x, y) == y.hits > x.hits

\* The inner loop of the sort, at place i.
Pass(c, i) ==
  LET p[j \in i .. Len(c)] ==
        IF j = i THEN c
        ELSE LET b == p[j - 1]
             IN IF OutOfOrder(b[i], b[j]) THEN Exchange(b, i, j) ELSE b
  IN p[Len(c)]

\* The outer loop.
Sorted(c) ==
  LET s[i \in 0 .. Len(c)] == IF i = 0 THEN c ELSE Pass(s[i - 1], i)
  IN s[Len(c)]

MatchSkills(hits, maxResults) ==
  LET sorted == Sorted(Candidates(hits))
  IN SubSeq(sorted, 1, IF Len(sorted) < maxResults THEN Len(sorted) ELSE maxResults)

-----------------------------------------------------------------------------
\* The best matches: no skill is matched twice or without a hit, as many are
\* returned as match and are allowed, and none left out has more hits.
BestMatches(hits, max) ==
  LET m == MatchSkills(hits, max)
      found == {i \in DOMAIN hits : hits[i] > 0}
      kept == {m[k].skill : k \in DOMAIN m}
  IN /\ IsInjective([k \in DOMAIN m |-> m[k].skill]) /\ kept \subseteq found
     /\ kept = found \/ Len(m) = max
     /\ \A k \in DOMAIN m : m[k].hits = hits[m[k].skill]
     /\ \A k \in 1 .. Len(m) - 1 : m[k].hits >= m[k + 1].hits
     /\ \A i \in kept, j \in found \ kept : hits[i] >= hits[j]

\* MatchSkills returns the best matches, for every number of results.
BestSkills == \A max \in 0 .. SkMaxResults : BestMatches(skHits, max)
=============================================================================
