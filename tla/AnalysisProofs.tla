---------------------------- MODULE AnalysisProofs ----------------------------
(***************************************************************************)
(* The numbers of an evaluation run and of its analysis agree, whatever is *)
(* on disk: for any number of runs, problems, samples and tests.           *)
(***************************************************************************)
EXTENDS Analysis, PackagingProofs

Key(r) == <<r.problem, r.sample>>

\* What the records of one variant are like.
Judgeable(E) == IsFiniteSet(E) /\ \A r \in E : EvaluationRecord(r) /\ Counted(r)

Matched(G, E) ==
  /\ IsFiniteSet(G) /\ Judgeable(E)
  /\ \A g \in G : g.status \in {"generated", "generation_error"}
  /\ \A g, h \in G : Key(g) = Key(h) => g = h
  /\ \A r, s \in E : Key(r) = Key(s) => r = s
  /\ \A r \in E : \E g \in Generated(G) : Key(g) = Key(r)

-----------------------------------------------------------------------------
(* The records on disk. *)

\* The members of a log are as many at most as it is long.
LEMMA LogIsFinite ==
  ASSUME NEW s, IsLog(s)
  PROVE  IsFiniteSet({s[i] : i \in DOMAIN s})
<1> DEFINE T == {s[i] : i \in DOMAIN s}
           f == [i \in DOMAIN s |-> s[i]]
<1>1. DOMAIN s = 1..Len(s) /\ Len(s) \in Nat
  BY LogLength
<1>2. IsFiniteSet(DOMAIN s)
  <2> DEFINE n == Len(s)
  <2>1. n \in Nat /\ DOMAIN s = 1..n
    BY <1>1
  <2> HIDE DEF n
  <2>2. QED BY <2>1, FS_Interval
<1>3. f \in Surjection(DOMAIN s, T)
  BY DEF Surjection
<1> HIDE DEF f
<1>4. QED BY <1>2, <1>3, FS_Surjection

\* No two answers of a variant are to the same problem and sample.
LEMMA AnswersDiffer ==
  ASSUME NEW r, NEW D, Configured(r, D), NEW v, Follows(r, v),
         NEW i \in DOMAIN r.generations[v], NEW k \in DOMAIN r.generations[v],
         Key(r.generations[v][i]) = Key(r.generations[v][k])
  PROVE  i = k
<1> DEFINE G == r.generations[v]
           s == r.samples
           n == Len(r.order)
           a == i - 1
           c == k - 1
<1>1. /\ s \in Nat \ {0} /\ n \in Nat /\ DOMAIN r.order = 1..n
      /\ DOMAIN G = 1..Len(G) /\ Len(G) \in Nat /\ Len(G) <= n * s
  BY LogLength DEF Configured, Follows, Wanted
<1>2. AsPlanned(G[i], r, a) /\ AsPlanned(G[k], r, c)
  BY DEF Follows
<1> HIDE DEF G
<1>3. /\ G[i].problem = r.order[(a \div s) + 1] /\ G[i].sample = (a % s)
      /\ G[k].problem = r.order[(c \div s) + 1] /\ G[k].sample = (c % s)
  BY <1>2 DEF AsPlanned
<1>4. a \in Nat /\ c \in Nat /\ i = a + 1 /\ k = c + 1 /\ a < n * s /\ c < n * s
  <2>1. i \in 1..Len(G) /\ k \in 1..Len(G) /\ n * s \in Nat
    BY <1>1 DEF G
  <2>2. QED BY <1>1, <2>1
<1> HIDE DEF a, c, s, n
<1>5. r.order[(a \div s) + 1] = r.order[(c \div s) + 1] /\ (a % s) = (c % s)
  BY <1>3 DEF Key, G
<1>6. /\ a \div s \in Nat /\ a \div s < n /\ (a % s) \in 0..(s - 1) /\ a = (a \div s) * s + (a % s)
      /\ c \div s \in Nat /\ c \div s < n /\ (c % s) \in 0..(s - 1) /\ c = (c \div s) * s + (c % s)
  BY <1>1, <1>4, DivMod, DivBelow
<1>7. a \div s = c \div s
  <2>1. (a \div s) + 1 \in DOMAIN r.order /\ (c \div s) + 1 \in DOMAIN r.order
    <3> DEFINE x == a \div s
               y == c \div s
    <3>1. x \in Nat /\ x < n /\ y \in Nat /\ y < n /\ n \in Nat
      BY <1>1, <1>6
    <3> HIDE DEF x, y
    <3>2. x + 1 \in 1..n /\ y + 1 \in 1..n
      BY <3>1
    <3>3. QED BY <1>1, <3>2 DEF x, y
  <2>2. (a \div s) + 1 = (c \div s) + 1
    BY <1>5, <2>1 DEF Configured
  <2>3. QED BY <1>6, <2>2
<1>8. QED BY <1>4, <1>5, <1>6, <1>7

LEMMA RecordsMatch ==
  ASSUME PairedInv, NEW e \in EvaluationRuns, evaluations[e] # None, NEW v \in ModelVariants
  PROVE  Matched(Gen(e, v), Judged(e, v))
<1> DEFINE r == evaluations[e]
           G == r.generations[v]
           J == r.judgements[v]
           A == Answered(G)
<1>1. Configured(r, DOMAIN runs) /\ Follows(r, v) /\ InOrder(r, v)
  BY DEF PairedInv, SoundEvaluation
<1>2. IsLog(G) /\ IsLog(J) /\ Len(J) <= Len(A)
  BY <1>1 DEF Follows, InOrder
<1>3. /\ \A i \in DOMAIN G : G[i].status \in {"generated", "generation_error"}
      /\ \A i \in DOMAIN J : /\ EvaluationRecord(J[i]) /\ Counted(J[i])
                             /\ Key(J[i]) = Key(A[i])
  BY <1>1 DEF Follows, AsPlanned, InOrder, Key
<1>4. \A i, k \in DOMAIN G : Key(G[i]) = Key(G[k]) => i = k
  BY <1>1, AnswersDiffer
<1>5. Gen(e, v) = {G[i] : i \in DOMAIN G} /\ Judged(e, v) = {J[i] : i \in DOMAIN J}
  BY DEF Gen, Judged
<1> HIDE DEF G, J, A, r
<1>6. IsFiniteSet(Gen(e, v)) /\ Judgeable(Judged(e, v))
  BY <1>2, <1>3, <1>5, LogIsFinite DEF Judgeable
<1>7. PICK p \in [DOMAIN A -> DOMAIN G] :
        /\ Len(A) \in Nat /\ DOMAIN A = 1..Len(A)
        /\ \A k \in DOMAIN A : A[k] = G[p[k]] /\ A[k].status = "generated"
        /\ \A k, l \in DOMAIN A : p[k] = p[l] => k = l
  BY <1>2, AnsweredPlaces DEF A
<1>8. \A i \in DOMAIN J : i \in DOMAIN A
  BY <1>2, <1>7, LogLength
<1>9. \A i, k \in DOMAIN J : Key(J[i]) = Key(J[k]) => i = k
  BY <1>3, <1>4, <1>7, <1>8
<1>10. \A i \in DOMAIN J : \E g \in Generated(Gen(e, v)) : Key(g) = Key(J[i])
  <2> SUFFICES ASSUME NEW i \in DOMAIN J PROVE \E g \in Generated(Gen(e, v)) : Key(g) = Key(J[i])
    OBVIOUS
  <2>1. p[i] \in DOMAIN G /\ G[p[i]].status = "generated" /\ Key(G[p[i]]) = Key(J[i])
    BY <1>3, <1>7, <1>8
  <2>2. G[p[i]] \in Generated(Gen(e, v))
    BY <1>5, <2>1 DEF Generated
  <2>3. QED BY <2>1, <2>2
<1>11. \A g, h \in Gen(e, v) : Key(g) = Key(h) => g = h
  BY <1>4, <1>5
<1>12. \A g \in Gen(e, v) : g.status \in {"generated", "generation_error"}
  BY <1>3, <1>5
<1>13. \A x, y \in Judged(e, v) : Key(x) = Key(y) => x = y
  BY <1>5, <1>9
<1>14. \A x \in Judged(e, v) : \E g \in Generated(Gen(e, v)) : Key(g) = Key(x)
  BY <1>5, <1>10
<1>15. QED BY <1>6, <1>11, <1>12, <1>13, <1>14 DEF Matched

LEMMA RecordsAreMatched ==
  ASSUME PairedInv, NEW e \in EvaluationRuns, evaluations[e] # None, NEW v \in ModelVariants
  PROVE  Matched(Samplings(e, v), Records(e, v))
<1>1. Matched({}, {})
  BY FS_EmptySet DEF Matched, Judgeable
<1>2. Matched(Gen(e, v), Judged(e, v))
  BY RecordsMatch
<1>3. QED BY <1>1, <1>2 DEF Samplings, Records
-----------------------------------------------------------------------------
(* Sums. *)

\* The recursion of MapThenSumSet over the subsets of S.
Unrolled(n, S, it) ==
  it = [s \in SUBSET S |-> IF s = {} THEN 0
                           ELSE n[CHOOSE x \in s : TRUE] + it[s \ {CHOOSE x \in s : TRUE}]]

\* A recursion over subsets exists, and adds up to what was counted: its value at a subset is
\* the number of things that are in one of its classes.
LEMMA CountsAddUp ==
  ASSUME NEW S, IsFiniteSet(S), NEW T, IsFiniteSet(T), NEW class, \A t \in T : class[t] \in S,
         NEW n, \A c \in S : n[c] = Cardinality({t \in T : class[t] = c})
  PROVE  /\ \E it : Unrolled(n, S, it)
         /\ \A it : Unrolled(n, S, it) => it[S] = Cardinality(T)
<1> DEFINE g == [s \in SUBSET S |-> Cardinality({t \in T : class[t] \in s})]
<1>1. g[{}] = 0
  <2>1. {t \in T : class[t] \in {}} = {}
    OBVIOUS
  <2>2. QED BY <2>1, FS_EmptySet
<1>2. ASSUME NEW s \in SUBSET S, s # {}
      PROVE  LET x == CHOOSE y \in s : TRUE IN
             x \in s /\ g[s] = n[x] + g[s \ {x}]
  <2> DEFINE x == CHOOSE y \in s : TRUE
             A == {t \in T : class[t] \in s}
             B == {t \in T : class[t] = x}
             C == {t \in T : class[t] \in s \ {x}}
  <2>1. x \in s
    BY <1>2
  <2>2. /\ g[s] = Cardinality(A) /\ g[s \ {x}] = Cardinality(C) /\ n[x] = Cardinality(B)
    BY <2>1
  <2>3. B \cup C = A /\ B \cap C = {} /\ B \subseteq T /\ C \subseteq T
    BY <2>1
  <2> HIDE DEF x, A, B, C, g
  <2>4. IsFiniteSet(B) /\ IsFiniteSet(C)
    BY <2>3, FS_Subset
  <2>5. Cardinality(A) = Cardinality(B) + Cardinality(C)
    <3>1. Cardinality(B \cup C) = Cardinality(B) + Cardinality(C) - Cardinality(B \cap C)
      BY <2>4, FS_Union
    <3>2. Cardinality(B) \in Nat /\ Cardinality(C) \in Nat /\ Cardinality(B \cap C) = 0
      BY <2>3, <2>4, FS_EmptySet, FS_CardinalityType
    <3>3. QED BY <2>3, <3>1, <3>2
  <2>6. g[s] = n[x] + g[s \ {x}]
    BY <2>2, <2>5
  <2>7. QED BY <2>1, <2>6 DEF x
<1>3. g[S] = Cardinality(T)
  <2>1. {t \in T : class[t] \in S} = T
    OBVIOUS
  <2>2. QED BY <2>1
<1>4. g = [s \in SUBSET S |-> g[s]]
  OBVIOUS
<1> HIDE DEF g
<1>5. Unrolled(n, S, g)
  <2>1. \A s \in SUBSET S : g[s] = IF s = {} THEN 0
                           ELSE n[CHOOSE x \in s : TRUE] + g[s \ {CHOOSE x \in s : TRUE}]
    BY <1>1, <1>2
  <2>2. QED BY <1>4, <2>1 DEF Unrolled
<1>6. ASSUME NEW it, Unrolled(n, S, it) PROVE \A s \in SUBSET S : it[s] = g[s]
  <2> DEFINE bad == {s \in SUBSET S : it[s] # g[s]}
             sizes == {Cardinality(s) : s \in bad}
  <2> SUFFICES bad = {}
    OBVIOUS
  <2>1. \A s \in SUBSET S : IsFiniteSet(s) /\ Cardinality(s) \in Nat
    BY FS_Subset, FS_CardinalityType
  <2>2. CASE bad # {}
    <3>1. sizes \in SUBSET Nat /\ sizes # {}
      BY <2>1, <2>2
    <3>2. PICK s \in bad : \A r \in bad : Cardinality(s) <= Cardinality(r)
      <4> HIDE DEF bad
      <4>1. \E k \in sizes : \A m \in sizes : k <= m
        <5> HIDE DEF sizes
        <5>1. QED BY <3>1, LeastOf
      <4>2. QED BY <4>1
    <3> DEFINE x == CHOOSE y \in s : TRUE
               r == s \ {x}
    <3>3. s # {}
      BY <1>1, <1>6, <3>2 DEF Unrolled
    <3>4. x \in s /\ g[s] = n[x] + g[r] /\ it[s] = n[x] + it[r]
      BY <1>2, <1>6, <3>2, <3>3 DEF Unrolled
    <3> HIDE DEF x
    <3>5. r \in SUBSET S /\ Cardinality(r) < Cardinality(s)
      BY <2>1, <3>2, <3>4, FS_RemoveElement
    <3>6. r \notin bad
      <4>1. Cardinality(r) \in Nat /\ Cardinality(s) \in Nat
        BY <2>1, <3>2, <3>5
      <4> HIDE DEF bad, r
      <4>2. QED BY <3>2, <3>5, <4>1
    <3>7. QED BY <3>2, <3>4, <3>5, <3>6
  <2>3. QED BY <2>2
<1>7. QED BY <1>3, <1>5, <1>6

\* The same for what is counted, said in one word.
ClassesOf(n, S, T, class) ==
  /\ \A t \in T : class[t] \in S
  /\ \A c \in S : n[c] = Cardinality({t \in T : class[t] = c})
Sums(n, S, T) ==
  /\ \E it : Unrolled(n, S, it)
  /\ \A it : Unrolled(n, S, it) => it[S] = Cardinality(T)

LEMMA SumsOfCounts ==
  \A S, T, class, n :
    IsFiniteSet(S) /\ IsFiniteSet(T) /\ ClassesOf(n, S, T, class) => Sums(n, S, T)
<1> SUFFICES ASSUME NEW S, IsFiniteSet(S), NEW T, IsFiniteSet(T), NEW class, NEW n,
                    ClassesOf(n, S, T, class)
             PROVE  Sums(n, S, T)
  OBVIOUS
<1>1. /\ \A t \in T : class[t] \in S
      /\ \A c \in S : n[c] = Cardinality({t \in T : class[t] = c})
  BY DEF ClassesOf
<1>2. QED BY <1>1, CountsAddUp DEF Sums

\* Things that are counted by class are counted once.
LEMMA TotalOfCounts ==
  ASSUME NEW S, IsFiniteSet(S), NEW T, IsFiniteSet(T), NEW class, \A t \in T : class[t] \in S,
         NEW n, DOMAIN n = S, \A c \in S : n[c] = Cardinality({t \in T : class[t] = c})
  PROVE  Total(n) = Cardinality(T)
<1>1. /\ \E it : Unrolled(n, S, it)
      /\ \A it : Unrolled(n, S, it) => it[S] = Cardinality(T)
  BY CountsAddUp
<1> HIDE <1>1
<1>2. \E it : Unrolled(n, S, it) /\ MapThenSumSet(LAMBDA c : n[c], S) = it[S]
  <2> SUFFICES ASSUME NEW g, Unrolled(n, S, g)
               PROVE  \E it : Unrolled(n, S, it) /\ MapThenSumSet(LAMBDA c : n[c], S) = it[S]
    BY <1>1
  <2>1. QED BY DEF MapThenSumSet, MapThenFoldSet, Unrolled
<1>3. MapThenSumSet(LAMBDA c : n[c], S) = Cardinality(T)
  BY <1>1, <1>2
<1>4. QED BY <1>3 DEF Total
-----------------------------------------------------------------------------
(* Error profiles. *)

\* Sets that have the same keys, each key once, have as many members.
LEMMA SameKeys ==
  ASSUME NEW S, IsFiniteSet(S), NEW T, IsFiniteSet(T),
         \A x, y \in S : Key(x) = Key(y) => x = y, \A x, y \in T : Key(x) = Key(y) => x = y,
         \A x \in S : \E y \in T : Key(y) = Key(x), \A y \in T : \E x \in S : Key(x) = Key(y)
  PROVE  Cardinality(S) = Cardinality(T)
<1> DEFINE f == [x \in S |-> CHOOSE y \in T : Key(y) = Key(x)]
<1>1. \A x \in S : f[x] \in T /\ Key(f[x]) = Key(x)
  OBVIOUS
<1>2. f \in [S -> T]
  BY <1>1
<1> HIDE DEF f
<1>3. f \in Bijection(S, T)
  BY <1>1, <1>2 DEF Bijection, Injection, Surjection, IsInjective
<1>4. QED BY <1>3, FS_Bijection DEF ExistsBijection

\* The record of an answer, and what the analysis makes of the answer.
LEMMA Classes ==
  ASSUME NEW G, NEW E, Matched(G, E), NEW memory, NEW g \in Classified(G, E)
  PROVE  /\ Classify(g, E, memory) \in ErrorCategories \cup {"none"}
         /\ Classify(g, E, memory) = "generation_failure" <=> g.status = "generation_error"
         /\ \A t \in ErrorTypes \ {"runtime_error"} :
              Classify(g, E, memory) = t => \E r \in E : Key(r) = Key(g) /\ r.type = t
         /\ Classify(g, E, memory) \in {"runtime_error", "memory_error"} =>
              \E r \in E : Key(r) = Key(g) /\ r.type = "runtime_error"
         /\ \A r \in E : Key(r) = Key(g) =>
              /\ g.status # "generation_error"
              /\ r.type = "runtime_error" =>
                   Classify(g, E, memory) \in {"runtime_error", "memory_error"}
              /\ r.type \notin {"none", "runtime_error"} => Classify(g, E, memory) = r.type
<1> DEFINE c == Classify(g, E, memory)
           x == CHOOSE r \in E : <<r.problem, r.sample>> = <<g.problem, g.sample>>
<1>1. ASSUME NEW r \in E, Key(r) = Key(g) PROVE g.status # "generation_error" /\ r = x
  <2>1. PICK h \in Generated(G) : Key(h) = Key(r)
    BY DEF Matched
  <2>2. h = g /\ h.status = "generated"
    BY <1>1, <2>1 DEF Matched, Generated, Classified
  <2>3. x \in E /\ Key(x) = Key(g)
    BY <1>1 DEF Key
  <2> HIDE DEF x
  <2>4. QED BY <1>1, <2>2, <2>3 DEF Matched
<1>2. CASE g.status = "generation_error"
  BY <1>1, <1>2 DEF Classify, ErrorCategories, ErrorTypes
<1>3. CASE g.status # "generation_error"
  <2>1. x \in E /\ Key(x) = Key(g)
    BY <1>3 DEF Classified, Key
  <2>2. /\ x.type \in ErrorTypes \cup {"none"} /\ (x.status = "passed" <=> x.type = "none")
        /\ \A r \in E : Key(r) = Key(g) => r = x
    BY <1>1, <2>1 DEF Matched, Judgeable, EvaluationRecord
  <2>3. c = IF x.status = "passed" THEN "none"
            ELSE IF x.type = "runtime_error" /\ <<g.problem, g.sample>> \in memory THEN "memory_error"
            ELSE x.type
    BY <1>3 DEF Classify
  <2> HIDE DEF c, x
  <2>4. c \in {x.type, "memory_error"} /\ (c = "memory_error" => x.type = "runtime_error")
    <3>1. (x.status = "passed" => x.type = "none") /\ x.type # "memory_error"
      BY <2>2 DEF ErrorTypes
    <3> HIDE <2>2
    <3>2. QED BY <2>3, <3>1
  <2>5. x.type # "runtime_error" => c = x.type
    BY <2>4
  <2>6. c \in ErrorCategories \cup {"none"} /\ c # "generation_failure"
    BY <2>2, <2>4 DEF ErrorTypes, ErrorCategories
  <2>7. \A t \in ErrorTypes \ {"runtime_error"} : c = t => x.type = t
    BY <2>4 DEF ErrorTypes
  <2>8. c \in {"runtime_error", "memory_error"} => x.type = "runtime_error"
    BY <2>4
  <2>9. x.type = "runtime_error" => c \in {"runtime_error", "memory_error"}
    BY <2>4
  <2>10. c = Classify(g, E, memory)
    BY DEF c
  <2>11. QED BY <1>3, <2>1, <2>2, <2>5, <2>6, <2>7, <2>8, <2>9, <2>10
<1>4. QED BY <1>2, <1>3

\* build_error_profile counts what build_failure_analysis counts.
LEMMA ProfilesMatch ==
  ASSUME NEW G, NEW E, Matched(G, E), NEW memory
  PROVE  LET f == FailureAnalysis(G, E)
             n == ErrorProfile(G, E, memory)
         IN  /\ n["generation_failure"] = f["generation_error"]
             /\ n["runtime_error"] + n["memory_error"] = f["runtime_error"]
             /\ \A t \in ErrorTypes \ {"runtime_error"} : n[t] = f[t]
             /\ Total(n) = Cardinality(Classified(G, E))
<1> DEFINE C == Classified(G, E)
           Of(c) == {g \in C : Classify(g, E, memory) = c}
           Typed(t) == {r \in E : r.type = t}
           f == FailureAnalysis(G, E)
           n == ErrorProfile(G, E, memory)
           S == ErrorCategories \cup {"none"}
<1>1. /\ f["generation_error"] = Cardinality(G \ Generated(G))
      /\ \A t \in ErrorTypes : f[t] = Cardinality(Typed(t))
  BY DEF FailureAnalysis, ErrorTypes
<1>2. DOMAIN n = S /\ \A c \in S : n[c] = Cardinality(Of(c))
  BY DEF ErrorProfile
<1>3. ErrorTypes \cup {"memory_error", "generation_failure"} \subseteq S /\ "runtime_error" \in ErrorTypes
  BY DEF ErrorCategories, ErrorTypes
<1>4. /\ IsFiniteSet(C) /\ C \subseteq G /\ \A c : Of(c) \subseteq G /\ IsFiniteSet(Of(c))
      /\ \A t : IsFiniteSet(Typed(t))
  BY FS_Subset DEF Classified, Matched, Judgeable
<1> HIDE DEF f, n
<1>5. n["generation_failure"] = f["generation_error"]
  <2>1. Of("generation_failure") = G \ Generated(G)
    BY Classes DEF Classified, Generated, Matched
  <2>2. QED BY <1>1, <1>2, <1>3, <2>1
<1>6. ASSUME NEW A, NEW t \in ErrorTypes, A \subseteq C, IsFiniteSet(A),
             \A g \in A : \E r \in Typed(t) : Key(r) = Key(g),
             \A r \in Typed(t) : \A g \in C : Key(g) = Key(r) => g \in A
      PROVE  Cardinality(A) = f[t]
  <2>1. \A x, y \in A : Key(x) = Key(y) => x = y
    BY <1>4, <1>6 DEF Matched
  <2>2. \A x, y \in Typed(t) : Key(x) = Key(y) => x = y
    BY DEF Matched
  <2>3. \A r \in Typed(t) : \E g \in A : Key(g) = Key(r)
    <3> SUFFICES ASSUME NEW r \in Typed(t) PROVE \E g \in A : Key(g) = Key(r)
      OBVIOUS
    <3>1. PICK g \in Generated(G) : Key(g) = Key(r)
      BY DEF Matched
    <3>2. g \in C
      BY <3>1 DEF Generated, Classified, Key
    <3>3. QED BY <1>6, <3>1, <3>2
  <2> HIDE DEF Typed, C
  <2>4. QED BY <1>1, <1>4, <1>6, <2>1, <2>2, <2>3, SameKeys
<1>7. ASSUME NEW t \in ErrorTypes \ {"runtime_error"} PROVE n[t] = f[t]
  <2>1. \A g \in Of(t) : \E r \in Typed(t) : Key(r) = Key(g)
    BY Classes
  <2>2. t # "none"
    BY DEF ErrorTypes
  <2>3. \A r \in Typed(t) : \A g \in C : Key(g) = Key(r) => g \in Of(t)
    BY <2>2, Classes
  <2>4. Cardinality(Of(t)) = f[t]
    <3> Of(t) \subseteq C
      OBVIOUS
    <3> HIDE DEF Of, Typed, C
    <3>1. QED BY <1>4, <1>6, <2>1, <2>3
  <2>5. QED BY <1>2, <1>3, <2>4
<1>8. n["runtime_error"] + n["memory_error"] = f["runtime_error"]
  <2> DEFINE A == Of("runtime_error")
             M == Of("memory_error")
  <2>1. \A g \in A \cup M : \E r \in Typed("runtime_error") : Key(r) = Key(g)
    BY Classes
  <2>2. \A r \in Typed("runtime_error") : \A g \in C : Key(g) = Key(r) => g \in A \cup M
    BY Classes
  <2>3. A \cup M \subseteq C /\ A \cap M = {} /\ IsFiniteSet(A) /\ IsFiniteSet(M)
    BY <1>4
  <2>4. n["runtime_error"] = Cardinality(A) /\ n["memory_error"] = Cardinality(M)
    BY <1>2, <1>3
  <2> HIDE DEF A, M, Typed, C
  <2>5. IsFiniteSet(A \cup M) /\ Cardinality(A \cup M) = Cardinality(A) + Cardinality(M) - Cardinality(A \cap M)
    BY <2>3, FS_Union
  <2>6. Cardinality(A) \in Nat /\ Cardinality(M) \in Nat /\ Cardinality(A \cap M) = 0
    BY <2>3, FS_EmptySet, FS_CardinalityType
  <2>7. Cardinality(A \cup M) = f["runtime_error"]
    BY <1>3, <1>6, <2>1, <2>2, <2>3, <2>5
  <2>8. QED BY <2>4, <2>5, <2>6, <2>7
<1>9. Total(n) = Cardinality(C)
  <2> DEFINE class == [g \in C |-> Classify(g, E, memory)]
  <2>1. \A g \in C : class[g] \in S
    BY Classes
  <2>2. \A c \in S : Of(c) = {g \in C : class[g] = c}
    OBVIOUS
  <2>3. IsFiniteSet(S)
    <3> DEFINE U == {"syntax_error", "import_error", "runtime_error"}
               V == {"assertion_failure", "timeout", "infrastructure_error"}
               W == {"generation_failure", "memory_error", "none"}
    <3>1. S = (U \cup V) \cup W
      BY DEF ErrorCategories, ErrorTypes
    <3>2. IsFiniteSet(U) /\ IsFiniteSet(V) /\ IsFiniteSet(W)
      BY TriplesAreFinite
    <3> HIDE DEF U, V, W
    <3>3. IsFiniteSet((U \cup V) \cup W)
      BY <3>2, FS_Union
    <3>4. QED BY <3>1, <3>3
  <2> HIDE DEF class, S, C, Of
  <2>4. \A c \in S : n[c] = Cardinality({g \in C : class[g] = c})
    BY <1>2, <2>2
  <2>5. QED BY <1>2, <1>4, <2>1, <2>3, <2>4, TotalOfCounts
<1>10. QED BY <1>5, <1>7, <1>8, <1>9 DEF f, n
-----------------------------------------------------------------------------
(* Fractions. *)

Fractions == Nat \X (Nat \ {0})

LEMMA Products ==
  ASSUME NEW a \in Int, NEW b \in Int, NEW c \in Nat
  PROVE  /\ a * c \in Int /\ a * b \in Int
         /\ a >= b => a * c >= b * c
         /\ c > 0 /\ a * c >= b * c => a >= b
         /\ c > 0 /\ a * c = b * c => a = b
OBVIOUS

LEMMA Reorder ==
  ASSUME NEW a \in Int, NEW b \in Int, NEW c \in Int
  PROVE  /\ (a * b) * c = (a * c) * b /\ (a * b) * c = a * (b * c) /\ (a * b) * c = (b * a) * c
         /\ a * (b + c) = a * b + a * c /\ (a + b) * c = a * c + b * c /\ a * b = b * a
OBVIOUS

LEMMA AtLeastIsTransitive ==
  ASSUME NEW x \in Fractions, NEW y \in Fractions, NEW z \in Fractions, AtLeast(x, y), AtLeast(y, z)
  PROVE  AtLeast(x, z)
<1>1. \E a, c, e \in Nat : \E b, d, f \in Nat \ {0} : x = <<a, b>> /\ y = <<c, d>> /\ z = <<e, f>>
  BY DEF Fractions
<1>2. PICK a \in Nat, c \in Nat, e \in Nat, b \in Nat \ {0}, d \in Nat \ {0}, f \in Nat \ {0} :
        x = <<a, b>> /\ y = <<c, d>> /\ z = <<e, f>>
  BY <1>1
<1>3. a * d >= c * b /\ c * f >= e * d
  BY <1>2 DEF AtLeast
<1>4. a * f >= e * b
  <2>1. (a * d) * f >= (c * b) * f /\ (c * f) * b >= (e * d) * b
    BY <1>3, Products
  <2>2. (a * d) * f = (a * f) * d /\ (c * b) * f = (c * f) * b /\ (e * d) * b = (e * b) * d
    BY Reorder
  <2>3. (a * f) * d \in Int /\ (e * b) * d \in Int /\ (c * f) * b \in Int
    BY Products
  <2>4. (a * f) * d >= (e * b) * d
    BY <2>1, <2>2, <2>3
  <2>5. QED BY <2>4, Products
<1>5. QED BY <1>2, <1>4 DEF AtLeast

LEMMA AtLeastIsTotal ==
  ASSUME NEW x \in Fractions, NEW y \in Fractions
  PROVE  AtLeast(x, y) \/ AtLeast(y, x)
BY DEF Fractions, AtLeast

\* There is a best one among finitely many.
LEMMA BestRate ==
  ASSUME NEW R \in SUBSET Fractions, IsFiniteSet(R), R # {}
  PROVE  \E x \in R : \A y \in R : AtLeast(x, y)
<1> DEFINE Better(x) == {y \in R : ~AtLeast(x, y)}
           counts == {Cardinality(Better(x)) : x \in R}
<1>1. \A x \in R : IsFiniteSet(Better(x)) /\ Cardinality(Better(x)) \in Nat
  BY FS_Subset, FS_CardinalityType
<1>2. PICK x \in R : \A y \in R : Cardinality(Better(x)) <= Cardinality(Better(y))
  <2>1. counts \in SUBSET Nat /\ counts # {}
    BY <1>1
  <2> HIDE DEF counts
  <2>2. \E k \in counts : \A m \in counts : k <= m
    BY <2>1, LeastOf
  <2>3. QED BY <2>2 DEF counts
<1>3. ASSUME NEW y \in R, ~AtLeast(x, y) PROVE FALSE
  <2>1. y \in Fractions /\ x \in Fractions /\ R \subseteq Fractions
    OBVIOUS
  <2>2. AtLeast(y, x) /\ AtLeast(y, y)
    BY <1>3, <2>1, AtLeastIsTotal
  <2>3. \A z \in R : AtLeast(x, z) => AtLeast(y, z)
    BY <2>1, <2>2, AtLeastIsTransitive
  <2>4. Better(y) \subseteq Better(x) /\ y \in Better(x) /\ y \notin Better(y)
    BY <1>3, <2>2, <2>3
  <2> HIDE DEF Better
  <2>5. Cardinality(Better(y)) <= Cardinality(Better(x)) /\ Cardinality(Better(x)) # Cardinality(Better(y))
    BY <1>1, <2>4, FS_Subset
  <2>6. QED BY <1>1, <1>2, <2>5
<1>4. QED BY <1>2, <1>3

-----------------------------------------------------------------------------
(* Outcomes. *)

LEMMA JudgedCounts ==
  ASSUME NEW E, Judgeable(E), NEW r \in E
  PROVE  /\ r.passed \in Nat /\ r.total \in Nat /\ r.passed <= r.total
         /\ PassRate(r) \in Fractions
<1>1. /\ r.passed \in Nat /\ r.failed \in Nat /\ r.errors \in Nat /\ r.skipped \in Nat
      /\ r.passed + r.failed + r.errors + r.skipped = r.total
  BY DEF Judgeable, EvaluationRecord, Counted
<1>2. r.total \in Nat /\ r.passed <= r.total
  BY <1>1
<1>3. Zero \in Fractions
  BY DEF Zero, Fractions
<1>4. r.total > 0 => <<r.passed, r.total>> \in Fractions
  BY <1>1, <1>2 DEF Fractions
<1>5. QED BY <1>1, <1>2, <1>3, <1>4 DEF PassRate

LEMMA EvaluableIsValid ==
  ASSUME NEW E, Judgeable(E), NEW p
  PROVE  Evaluable(E, p) = Valid(OfProblem(E, p))
BY DEF Judgeable, Counted, Evaluable, Valid, OfProblem, IsInfrastructureError

LEMMA SolvedIsSolvedByTests ==
  ASSUME NEW E, Judgeable(E), PassedLate(E) = {}, NEW p
  PROVE  SolvedByTests(E, p) <=> Solved(E, p)
<1>1. \A r \in Valid(OfProblem(E, p)) : r.total > 0 /\ r.passed = r.total <=> Correct(r)
  BY DEF PassedLate, Valid, OfProblem, Correct
<1>2. QED BY <1>1, EvaluableIsValid DEF SolvedByTests, Solved

\* The score of a problem is 1 where a sample passed all of its tests, and less than 1 where none did.
LEMMA ScoreOfSolved ==
  ASSUME NEW E, Judgeable(E), NEW p
  PROVE  /\ Score(E, p) \in Fractions
         /\ SolvedByTests(E, p) => Score(E, p)[1] = Score(E, p)[2]
         /\ ~SolvedByTests(E, p) => Score(E, p)[1] < Score(E, p)[2]
<1> DEFINE V == Evaluable(E, p)
           R == {PassRate(r) : r \in V}
           x == Score(E, p)
<1>1. \A r \in V : /\ r \in E /\ r.passed \in Nat /\ r.total \in Nat /\ r.passed <= r.total
                   /\ PassRate(r) \in Fractions
  BY JudgedCounts DEF Evaluable, OfProblem
<1>2. CASE V = {}
  BY <1>2 DEF Score, SolvedByTests, Zero, Fractions
<1>3. CASE V # {}
  <2>1. R \in SUBSET Fractions /\ R # {}
    BY <1>1, <1>3
  <2>2. IsFiniteSet(R)
    <3>1. IsFiniteSet(V)
      BY FS_Subset DEF Evaluable, OfProblem, Judgeable
    <3> DEFINE f == [r \in V |-> PassRate(r)]
    <3>2. f \in Surjection(V, R)
      BY DEF Surjection
    <3> HIDE DEF V, R, f
    <3>3. QED BY <3>1, <3>2, FS_Surjection
  <2>3. x = CHOOSE y \in R : \A z \in R : AtLeast(y, z)
    BY <1>3 DEF Score
  <2>4. x \in R /\ \A z \in R : AtLeast(x, z)
    <3> HIDE DEF R, x
    <3>1. QED BY <2>1, <2>2, <2>3, BestRate
  <2> HIDE DEF x
  <2>5. PICK r \in V : x = PassRate(r)
    BY <2>4
  <2>6. x \in Fractions
    BY <2>1, <2>4
  <2>7. CASE SolvedByTests(E, p)
    <3>1. PICK s \in V : s.total > 0 /\ s.passed = s.total
      BY <2>7 DEF SolvedByTests
    <3>2. AtLeast(x, <<s.total, s.total>>)
      BY <2>4, <3>1 DEF PassRate
    <3>3. x[1] \in Nat /\ x[2] \in Nat /\ s.total \in Nat /\ x[1] * s.total >= s.total * x[2]
      BY <1>1, <2>6, <3>2 DEF AtLeast, Fractions
    <3>4. x[1] >= x[2]
      <4>1. s.total * x[2] = x[2] * s.total
        BY <3>3
      <4>2. QED BY <3>1, <3>3, <4>1, Products
    <3>5. x[1] <= x[2]
      BY <1>1, <2>5 DEF PassRate, Zero
    <3>6. QED BY <2>6, <2>7, <3>3, <3>4, <3>5 DEF x
  <2>8. CASE ~SolvedByTests(E, p)
    <3>1. ~(r.total > 0 /\ r.passed = r.total)
      BY <2>8 DEF SolvedByTests
    <3>2. x[1] < x[2]
      BY <1>1, <2>5, <3>1 DEF PassRate, Zero
    <3>3. QED BY <2>6, <2>8, <3>2 DEF x
  <2>9. QED BY <2>7, <2>8
<1>4. QED BY <1>2, <1>3

LEMMA OutcomeOfOne ==
  ASSUME NEW b \in Fractions, NEW d \in Fractions
  PROVE  /\ b[1] < b[2] /\ d[1] = d[2] =>
              ClassifyOutcome(b, d) \in {"complete_improvement", "partial_improvement"}
         /\ b[1] = b[2] /\ d[1] < d[2] =>
              ClassifyOutcome(b, d) \in {"complete_regression", "partial_regression"}
<1>1. /\ b[1] \in Nat /\ b[2] \in Nat \ {0} /\ d[1] \in Nat /\ d[2] \in Nat \ {0}
  BY DEF Fractions
<1>2. ASSUME b[1] < b[2], d[1] = d[2] PROVE ~Same(b, d) /\ AtLeast(d, b)
  <2>1. b[2] >= b[1] /\ d[2] \in Nat
    BY <1>1, <1>2
  <2>2. b[2] * d[2] >= b[1] * d[2]
    BY <1>1, <2>1, Products
  <2>3. b[1] * d[2] # b[2] * d[2]
    BY <1>1, <1>2, Products
  <2>4. d[1] * b[2] = b[2] * d[2]
    BY <1>1, <1>2, Reorder
  <2>5. QED BY <2>2, <2>3, <2>4 DEF Same, AtLeast
<1>3. ASSUME b[1] = b[2], d[1] < d[2] PROVE ~Same(b, d) /\ ~AtLeast(d, b)
  <2>1. d[2] > d[1] /\ b[2] \in Nat
    BY <1>1, <1>3
  <2>2. ~(d[1] * b[2] >= d[2] * b[2])
    <3> DEFINE x == d[1]
               y == d[2]
               z == b[2]
    <3>1. x \in Int /\ y \in Int /\ z \in Nat /\ z > 0 /\ ~(x >= y)
      BY <1>1, <2>1
    <3> HIDE DEF x, y, z
    <3>2. ~(x * z >= y * z)
      BY <3>1, Products
    <3>3. QED BY <3>2 DEF x, y, z
  <2>3. b[1] * d[2] = d[2] * b[2]
    BY <1>1, <1>3, Reorder
  <2>4. d[1] * b[2] \in Int /\ d[2] * b[2] \in Int
    BY <1>1, Products
  <2>5. QED BY <2>2, <2>3, <2>4 DEF Same, AtLeast
<1>4. QED BY <1>2, <1>3 DEF ClassifyOutcome
\* OutcomesAgree, for what any two variants left on disk.
LEMMA OutcomesMatch ==
  ASSUME NEW B, NEW D, Judgeable(B), Judgeable(D)
  PROVE  LET O == ProblemOutcomes(B, D)
             problems(examples) == {o.problem : o \in examples}
         IN  /\ PassedLate(B) \cup PassedLate(D) = {} =>
                  /\ problems(SuccessfulDpoExamples(O)) = Compare(B, D)[1]
                  /\ problems(RegressionExamples(O)) = Compare(B, D)[-1]
                  /\ problems(HardExamples(O)) \subseteq Compare(B, D)[0]
             /\ SuccessfulDpoExamples(O) \subseteq Improvements(O)
             /\ RegressionExamples(O) \subseteq Regressions(O)
<1> DEFINE O == ProblemOutcomes(B, D)
           problems(examples) == {o.problem : o \in examples}
<1>1. ASSUME NEW p
      PROVE  LET o == ProblemOutcome(B, D, p) IN
             /\ o.problem = p /\ o.base = SolvedByTests(B, p) /\ o.dpo = SolvedByTests(D, p)
             /\ ~o.base /\ o.dpo => o.outcome \in {"complete_improvement", "partial_improvement"}
             /\ o.base /\ ~o.dpo => o.outcome \in {"complete_regression", "partial_regression"}
  BY ScoreOfSolved, OutcomeOfOne DEF ProblemOutcome
<1>2. O = {ProblemOutcome(B, D, p) : p \in Paired(B, D)}
  BY DEF ProblemOutcomes, Paired
<1> HIDE DEF O
<1>3. SuccessfulDpoExamples(O) \subseteq Improvements(O) /\ RegressionExamples(O) \subseteq Regressions(O)
  BY <1>1, <1>2 DEF SuccessfulDpoExamples, RegressionExamples, Improvements, Regressions
<1>4. ASSUME PassedLate(B) \cup PassedLate(D) = {}
      PROVE  /\ problems(SuccessfulDpoExamples(O)) = Compare(B, D)[1]
             /\ problems(RegressionExamples(O)) = Compare(B, D)[-1]
             /\ problems(HardExamples(O)) \subseteq Compare(B, D)[0]
  <2>1. \A p : (SolvedByTests(B, p) <=> Solved(B, p)) /\ (SolvedByTests(D, p) <=> Solved(D, p))
    BY <1>4, SolvedIsSolvedByTests
  <2>2. \A i \in {-1, 0, 1} : Compare(B, D)[i] = {p \in Paired(B, D) : ProblemComparison(B, D, p) = i}
    BY DEF Compare
  <2>3. /\ problems(SuccessfulDpoExamples(O)) = {p \in Paired(B, D) : ~Solved(B, p) /\ Solved(D, p)}
        /\ problems(RegressionExamples(O)) = {p \in Paired(B, D) : Solved(B, p) /\ ~Solved(D, p)}
        /\ problems(HardExamples(O)) = {p \in Paired(B, D) : ~Solved(B, p) /\ ~Solved(D, p)}
    BY <1>1, <1>2, <2>1 DEF SuccessfulDpoExamples, RegressionExamples, HardExamples
  <2>4. \A p : /\ ProblemComparison(B, D, p) = 1 <=> ~Solved(B, p) /\ Solved(D, p)
               /\ ProblemComparison(B, D, p) = -1 <=> Solved(B, p) /\ ~Solved(D, p)
               /\ ~Solved(B, p) /\ ~Solved(D, p) => ProblemComparison(B, D, p) = 0
    BY DEF ProblemComparison
  <2>5. QED BY <2>2, <2>3, <2>4
<1>5. QED BY <1>3, <1>4 DEF O

-----------------------------------------------------------------------------
(* Decisions. *)

Recommendations == {"add_data", "expand_benchmark", "investigate_regression",
                    "investigate_mode_collapse", "increase_problem_difficulty",
                    "refine_preference_pairs", "adjust_dpo_hyperparameters"}

\* The recommendations leave room for the one that carries a decision out.
RoomForCarrier ==
  \/ Settings.maxRecommendations >= 6
  \/ Settings.maxRecommendations >= 5 /\ Settings.weights = DefaultWeights

\* What is estimated are numbers, also what a minimum caps.
LEMMA EstimatesAreNumbers ==
  ASSUME NEW n \in Nat, NEW c \in Recommendations
  PROVE  LET x == Estimated(c, n) IN x.impact \in Int /\ x.evidence \in Int /\ x.cost \in Int
<1> DEFINE k == 30 + 10 * n
           S == {100, k}
<1>1. k \in Int
  OBVIOUS
<1> HIDE DEF k
<1>2. \E x \in S : \A y \in S : x <= y
  BY <1>1
<1>3. Min(S) \in S
  BY <1>2 DEF Min
<1>4. Min({100, 30 + 10 * n}) \in Int
  BY <1>1, <1>3 DEF k
<1>5. CASE c = "add_data"
  BY <1>4, <1>5 DEF Estimated, Estimate
<1>6. CASE c # "add_data"
  BY <1>6 DEF Estimated, Estimate, Recommendations
<1>7. QED BY <1>5, <1>6

LEMMA ScoresAreNumbers ==
  ASSUME NEW n \in Nat, NEW c \in Recommendations
  PROVE  RecommendationScore(c, n) \in Int
<1> DEFINE x == Estimated(c, n)
           w == Settings.weights
<1>1. w.impact \in Int /\ w.evidence \in Int /\ w.cost \in Int
  BY SettingsAssumption DEF AnalysisConfig
<1>2. x.impact \in Int /\ x.evidence \in Int /\ x.cost \in Int
  BY EstimatesAreNumbers
<1> HIDE DEF x, w
<1>3. w.impact * x.impact \in Int /\ w.evidence * x.evidence \in Int /\ w.cost * (100 - x.cost) \in Int
  BY <1>1, <1>2
<1>4. w.impact * x.impact + w.evidence * x.evidence + w.cost * (100 - x.cost) \in Int
  BY <1>3
<1>5. QED BY <1>4 DEF RecommendationScore, x, w

\* The default weights: half the impact, three tenths of the evidence and a fifth of the ease.
LEMMA DefaultScores ==
  ASSUME NEW n \in Nat, Settings.weights = DefaultWeights
  PROVE  /\ RecommendationScore("expand_benchmark", n) = 6700
         /\ RecommendationScore("investigate_regression", n) = 7300
         /\ RecommendationScore("investigate_mode_collapse", n) = 5500
         /\ RecommendationScore("increase_problem_difficulty", n) = 4400
         /\ RecommendationScore("refine_preference_pairs", n) = 6400
         /\ RecommendationScore("adjust_dpo_hyperparameters", n) = 5600
BY DEF RecommendationScore, DefaultWeights, Estimated, Estimate

\* With the default weights, mode collapse is behind five others at most, and regressions behind
\* a call for more data only.
LEMMA FewAreAhead ==
  ASSUME NEW P \in SUBSET Recommendations, NEW n \in Nat, Settings.weights = DefaultWeights
  PROVE  LET ahead(c) == {d \in P : Ahead(d, c, n)} IN
         /\ ahead("investigate_regression") \subseteq {"add_data"}
         /\ ahead("investigate_mode_collapse") \subseteq
              {"add_data", "expand_benchmark", "refine_preference_pairs",
               "adjust_dpo_hyperparameters", "investigate_regression"}
<1> DEFINE s(d) == RecommendationScore(d, n)
<1>1. /\ s("add_data") \in Int /\ s("expand_benchmark") = 6700
      /\ s("investigate_regression") = 7300 /\ s("investigate_mode_collapse") = 5500
      /\ s("increase_problem_difficulty") = 4400 /\ s("refine_preference_pairs") = 6400
      /\ s("adjust_dpo_hyperparameters") = 5600
  BY ScoresAreNumbers, DefaultScores DEF Recommendations
<1>2. \A c, d \in Recommendations : Ahead(d, c, n) => s(d) >= s(c) /\ d # c
  <2>1. \A c \in Recommendations : Alphabetical[c] \in Int /\ s(c) \in Int
    BY ScoresAreNumbers DEF Recommendations, Alphabetical
  <2>2. QED BY <2>1 DEF Ahead
<1> HIDE DEF s
<1>3. ASSUME NEW d \in P
      PROVE  /\ Ahead(d, "investigate_regression", n) => d = "add_data"
             /\ Ahead(d, "investigate_mode_collapse", n) =>
                  d \in {"add_data", "expand_benchmark", "refine_preference_pairs",
                         "adjust_dpo_hyperparameters", "investigate_regression"}
  <2>1. \/ d = "add_data"
        \/ d = "expand_benchmark" \/ d = "investigate_regression" \/ d = "investigate_mode_collapse"
        \/ d = "increase_problem_difficulty" \/ d = "refine_preference_pairs"
        \/ d = "adjust_dpo_hyperparameters"
    BY DEF Recommendations
  <2>2. {d, "investigate_regression", "investigate_mode_collapse"} \subseteq Recommendations
    BY DEF Recommendations
  <2>3. /\ Ahead(d, "investigate_regression", n) =>
             s(d) >= s("investigate_regression") /\ d # "investigate_regression"
        /\ Ahead(d, "investigate_mode_collapse", n) =>
             s(d) >= s("investigate_mode_collapse") /\ d # "investigate_mode_collapse"
    BY <1>2, <2>2
  <2>4. QED BY <1>1, <2>1, <2>3
<1>4. QED BY <1>3

LEMMA FourAreFew ==
  ASSUME NEW w, NEW x, NEW y, NEW z, NEW A \in SUBSET {w, x, y, z}
  PROVE  IsFiniteSet(A) /\ Cardinality(A) \in Nat /\ Cardinality(A) <= 4
<1> DEFINE S == {w, x, y}
<1>1. /\ IsFiniteSet({}) /\ Cardinality({}) = 0 /\ {w} = {} \cup {w} /\ {w, x} = {w} \cup {x}
      /\ {w, x, y} = {w, x} \cup {y} /\ {w, x, y, z} = {w, x, y} \cup {z}
  BY FS_EmptySet
<1>2. IsFiniteSet({w}) /\ Cardinality({w}) = 1
  BY FS_Singleton
<1>3. IsFiniteSet({w, x}) /\ Cardinality({w, x}) \in 0..2
  BY <1>1, <1>2, FS_AddElement
<1>4. IsFiniteSet({w, x, y}) /\ Cardinality({w, x, y}) \in 0..3
  BY <1>1, <1>3, FS_AddElement
<1>5. IsFiniteSet({w, x, y, z}) /\ Cardinality({w, x, y, z}) \in 0..4
  BY <1>1, <1>4, FS_AddElement
<1>6. QED BY <1>5, FS_Subset, FS_CardinalityType

LEMMA FiveAreFew ==
  ASSUME NEW v, NEW w, NEW x, NEW y, NEW z, NEW A \in SUBSET {v, w, x, y, z}
  PROVE  IsFiniteSet(A) /\ Cardinality(A) \in Nat /\ Cardinality(A) <= 5
<1> DEFINE S == {w, x, y, z}
<1>1. IsFiniteSet(S) /\ Cardinality(S) \in 0..4
  <2>1. S \in SUBSET {w, x, y, z}
    OBVIOUS
  <2> HIDE DEF S
  <2>2. IsFiniteSet(S) /\ Cardinality(S) \in Nat /\ Cardinality(S) <= 4
    BY <2>1, FourAreFew
  <2>3. QED BY <2>2
<1>2. {v, w, x, y, z} = S \cup {v}
  OBVIOUS
<1> HIDE DEF S
<1>3. IsFiniteSet(S \cup {v}) /\ Cardinality(S \cup {v}) \in 0..5
  BY <1>1, FS_AddElement
<1>4. A \in SUBSET (S \cup {v})
  BY <1>2
<1>5. QED BY <1>3, <1>4, FS_Subset, FS_CardinalityType

LEMMA AheadIsStrict ==
  ASSUME NEW n \in Nat, NEW c \in Recommendations, NEW d \in Recommendations
  PROVE  ~(Ahead(d, c, n) /\ Ahead(c, d, n)) /\ ~Ahead(c, c, n)
<1>1. /\ RecommendationScore(c, n) \in Int /\ RecommendationScore(d, n) \in Int
      /\ Alphabetical[c] \in Int /\ Alphabetical[d] \in Int
  BY ScoresAreNumbers DEF Recommendations, Alphabetical
<1>2. QED BY <1>1 DEF Ahead

\* A decision is carried out by a recommendation that is made.
LEMMA DecisionsAreCarriedOut ==
  ASSUME RoomForCarrier, NEW O, NEW problems, NEW starved, NEW unmeasured,
         NEW overlap, IsFiniteSet(overlap), NEW tooEasy \in BOOLEAN, NEW collapse \in BOOLEAN,
         NEW wide \in BOOLEAN, NEW curve
  PROVE  LET decision == DecideIteration(problems, wide, O, starved, unmeasured, collapse)
             made == BuildRecommendations(O, starved, overlap, unmeasured, tooEasy, collapse, curve)
             carriers == [adjust_training  |-> {"investigate_regression", "investigate_mode_collapse"},
                          refine_data      |-> {"add_data"},
                          expand_benchmark |-> {"expand_benchmark"}]
         IN  /\ decision \in DOMAIN carriers => made \cap carriers[decision] # {}
             /\ decision = "accept_model" => \A d \in DOMAIN carriers : made \cap carriers[d] = {}
<1> DEFINE decision == DecideIteration(problems, wide, O, starved, unmeasured, collapse)
           made == BuildRecommendations(O, starved, overlap, unmeasured, tooEasy, collapse, curve)
           carriers == [adjust_training  |-> {"investigate_regression", "investigate_mode_collapse"},
                        refine_data      |-> {"add_data"},
                        expand_benchmark |-> {"expand_benchmark"}]
           P == Proposed(O, starved, unmeasured, tooEasy, collapse, curve)
           n == Cardinality(overlap)
           worse == Cardinality(Regressions(O)) > Cardinality(Improvements(O))
           max == Settings.maxRecommendations
<1>1. /\ max \in Nat /\ max >= 5 /\ n \in Nat
      /\ max >= 6 \/ Settings.weights = DefaultWeights
  BY SettingsAssumption, FS_CardinalityType DEF RoomForCarrier
<1>2. P \in SUBSET Recommendations
  BY DEF Proposed, Recommendations
<1>3. /\ "add_data" \in P <=> starved # {}
      /\ "expand_benchmark" \in P <=> unmeasured # {}
      /\ "investigate_regression" \in P <=> worse
      /\ "investigate_mode_collapse" \in P <=> collapse
  BY DEF Proposed
<1>4. /\ decision = "adjust_training" => collapse \/ worse
      /\ decision = "refine_data" => ~collapse /\ ~worse /\ starved # {}
      /\ decision = "expand_benchmark" => ~collapse /\ ~worse /\ starved = {} /\ unmeasured # {}
      /\ decision = "accept_model" => ~collapse /\ ~worse /\ starved = {} /\ unmeasured = {}
  BY DEF DecideIteration
<1>5. /\ made \subseteq P \cup {"no_action"}
      /\ \A c \in P : Cardinality({d \in P : Ahead(d, c, n)}) < max => c \in made
  BY DEF BuildRecommendations
<1> HIDE DEF decision, made, P, n, worse, max
<1>6. ASSUME NEW c \in P, NEW w, NEW x, NEW y, NEW z, {d \in P : Ahead(d, c, n)} \subseteq {w, x, y, z}
      PROVE  c \in made
  <2> DEFINE A == {d \in P : Ahead(d, c, n)}
  <2>1. Cardinality(A) \in Nat /\ Cardinality(A) <= 4
    <3> A \in SUBSET {w, x, y, z}
      BY <1>6
    <3> HIDE DEF A
    <3>1. QED BY FourAreFew
  <2>2. Cardinality(A) < max
    BY <1>1, <2>1
  <2>3. QED BY <1>5, <2>2
<1>7. ASSUME max >= 6, NEW c \in P, NEW v, NEW w, NEW x, NEW y, NEW z,
             {d \in P : Ahead(d, c, n)} \subseteq {v, w, x, y, z}
      PROVE  c \in made
  <2> DEFINE A == {d \in P : Ahead(d, c, n)}
  <2>1. Cardinality(A) \in Nat /\ Cardinality(A) <= 5
    <3> A \in SUBSET {v, w, x, y, z}
      BY <1>7
    <3> HIDE DEF A
    <3>1. QED BY FiveAreFew
  <2>2. Cardinality(A) < max
    BY <1>1, <1>7, <2>1
  <2>3. QED BY <1>5, <2>2
\* No two are ahead of each other.
<1>8. \A c, d \in P : ~(Ahead(d, c, n) /\ Ahead(c, d, n)) /\ ~Ahead(c, c, n)
  BY <1>1, <1>2, AheadIsStrict
<1>9. worse \/ collapse => made \cap {"investigate_regression", "investigate_mode_collapse"} # {}
  <2>1. CASE max >= 6
    <3>1. ASSUME NEW c \in P, c \in {"investigate_regression", "investigate_mode_collapse"},
                 \A d \in P \cap {"investigate_regression", "investigate_mode_collapse"} : ~Ahead(d, c, n)
          PROVE  c \in made
      <4>1. {d \in P : Ahead(d, c, n)} \subseteq
              {"add_data", "expand_benchmark", "increase_problem_difficulty",
               "refine_preference_pairs", "adjust_dpo_hyperparameters"}
        BY <1>2, <3>1 DEF Recommendations
      <4>2. QED BY <1>7, <2>1, <4>1
    <3>2. QED BY <1>3, <1>8, <3>1
  <2>2. CASE Settings.weights = DefaultWeights
    <3>1. worse => "investigate_regression" \in made
      <4>1. {d \in P : Ahead(d, "investigate_regression", n)} \subseteq
              {"add_data", "add_data", "add_data", "add_data"}
        BY <1>1, <1>2, <2>2, FewAreAhead
      <4>2. QED BY <1>3, <1>6, <4>1
    <3>2. ~worse /\ collapse => "investigate_mode_collapse" \in made
      <4>1. ~worse => {d \in P : Ahead(d, "investigate_mode_collapse", n)} \subseteq
              {"add_data", "expand_benchmark", "refine_preference_pairs", "adjust_dpo_hyperparameters"}
        BY <1>1, <1>2, <1>3, <2>2, FewAreAhead
      <4>2. QED BY <1>3, <1>6, <4>1
    <3>3. QED BY <3>1, <3>2
  <2>3. QED BY <1>1, <2>1, <2>2
<1>10. ~worse /\ ~collapse /\ starved # {} => "add_data" \in made
  <2>1. ~worse /\ ~collapse /\ starved # {} => {d \in P : Ahead(d, "add_data", n)} \subseteq
          {"expand_benchmark", "increase_problem_difficulty", "refine_preference_pairs",
           "adjust_dpo_hyperparameters"}
    BY <1>2, <1>3, <1>8 DEF Recommendations
  <2>2. QED BY <1>3, <1>6, <2>1
<1>11. ~worse /\ ~collapse /\ starved = {} /\ unmeasured # {} => "expand_benchmark" \in made
  <2>1. ~worse /\ ~collapse /\ starved = {} /\ unmeasured # {} =>
          {d \in P : Ahead(d, "expand_benchmark", n)} \subseteq
          {"increase_problem_difficulty", "increase_problem_difficulty", "refine_preference_pairs",
           "adjust_dpo_hyperparameters"}
    BY <1>2, <1>3, <1>8 DEF Recommendations
  <2>2. QED BY <1>3, <1>6, <2>1
<1>12. decision \in DOMAIN carriers => made \cap carriers[decision] # {}
  BY <1>4, <1>9, <1>10, <1>11
<1>13. decision = "accept_model" => \A d \in DOMAIN carriers : made \cap carriers[d] = {}
  BY <1>3, <1>4, <1>5
<1>14. QED BY <1>12, <1>13 DEF decision, made
-----------------------------------------------------------------------------
(* The theorem. *)

\* The categories that are starved and of which a problem is unsolved are finitely many.
LEMMA OverlapIsFinite ==
  ASSUME PairedInv, NEW e, NEW attribute, NEW X
  PROVE  IsFiniteSet(With(Gaps(e, attribute), "underrepresented") \cap X)
<1> DEFINE K == KnownProblems
           S == {attribute[p] : p \in K}
           f == [p \in K |-> attribute[p]]
           W == With(Gaps(e, attribute), "underrepresented") \cap X
<1>1. IsFiniteSet(K)
  BY CatalogsAssumption DEF KnownProblems, PairedInv
<1>2. f \in Surjection(K, S)
  BY DEF Surjection
<1>3. IsFiniteSet(S)
  <2> HIDE DEF K, S, f
  <2>1. QED BY <1>1, <1>2, FS_Surjection
<1>4. W \subseteq S
  BY DEF With, Gaps
<1> HIDE DEF W, S
<1>5. QED BY <1>3, <1>4, FS_Subset DEF W

LEMMA RefinedAvoidsBenchmark ==
  ASSUME NEW e, evaluations[e].recorded
  PROVE  {p.problem : p \in RefinedPreferences(e)} \cap evaluations[e].benchmark = {}
BY DEF RefinedPreferences, PlanRefinement, BenchmarkProblems

LEMMA AnalysisFollows ==
  ASSUME RoomForCarrier, PairedInv
  PROVE  AnalysisAgrees
<1> SUFFICES ASSUME NEW e \in EvaluationRuns, evaluations[e] # None
             PROVE  /\ OutcomesAgree(e) /\ ProfilesAgree(e) /\ DecisionIsRecommended(e)
                    /\ evaluations[e].recorded =>
                         {p.problem : p \in RefinedPreferences(e)} \cap evaluations[e].benchmark = {}
  BY DEF AnalysisAgrees
<1>1. \A v \in ModelVariants : Matched(Samplings(e, v), Records(e, v))
  BY RecordsAreMatched
<1>2. OutcomesAgree(e)
  <2> DEFINE B == Records(e, "base")
             D == Records(e, "dpo")
  <2>1. Judgeable(B) /\ Judgeable(D)
    BY <1>1 DEF Matched, ModelVariants
  <2> HIDE DEF B, D
  <2>2. /\ PassedLate(B) \cup PassedLate(D) = {} =>
              /\ {o.problem : o \in SuccessfulDpoExamples(ProblemOutcomes(B, D))} = Compare(B, D)[1]
              /\ {o.problem : o \in RegressionExamples(ProblemOutcomes(B, D))} = Compare(B, D)[-1]
              /\ {o.problem : o \in HardExamples(ProblemOutcomes(B, D))} \subseteq Compare(B, D)[0]
        /\ SuccessfulDpoExamples(ProblemOutcomes(B, D)) \subseteq Improvements(ProblemOutcomes(B, D))
        /\ RegressionExamples(ProblemOutcomes(B, D)) \subseteq Regressions(ProblemOutcomes(B, D))
    BY <2>1, OutcomesMatch
  <2>3. QED BY <2>2 DEF OutcomesAgree, B, D
<1>3. ProfilesAgree(e)
  BY <1>1, ProfilesMatch DEF ProfilesAgree
<1>4. DecisionIsRecommended(e)
  <2> DEFINE O == ProblemOutcomes(Records(e, "base"), Records(e, "dpo"))
  <2> SUFFICES ASSUME NEW a \in Attributions, NEW collapse \in BOOLEAN, NEW wide \in BOOLEAN,
                      NEW curve \in Curves
               PROVE  LET categories   == Gaps(e, a.category)
                          tooEasy      == TooEasy(Gaps(e, a.difficulty))
                          starved      == With(categories, "underrepresented")
                          unmeasured   == With(categories, "not_in_benchmark")
                          overlap      == starved \cap {a.category[o.problem] : o \in {x \in O : ~x.dpo}}
                          carriers     == [adjust_training  |-> {"investigate_regression", "investigate_mode_collapse"},
                                           refine_data      |-> {"add_data"},
                                           expand_benchmark |-> {"expand_benchmark"}]
                          decision == DecideIteration(BenchmarkProblems(e), wide, O, starved, unmeasured, collapse)
                          made     == BuildRecommendations(O, starved, overlap, unmeasured, tooEasy, collapse, curve)
                      IN  /\ decision \in DOMAIN carriers => made \cap carriers[decision] # {}
                          /\ decision = "accept_model" => \A d \in DOMAIN carriers : made \cap carriers[d] = {}
    BY DEF DecisionIsRecommended
  <2> DEFINE categories   == Gaps(e, a.category)
             tooEasy      == TooEasy(Gaps(e, a.difficulty))
             starved      == With(categories, "underrepresented")
             unmeasured   == With(categories, "not_in_benchmark")
             overlap      == starved \cap {a.category[o.problem] : o \in {x \in O : ~x.dpo}}
             problems     == BenchmarkProblems(e)
  <2>1. IsFiniteSet(overlap)
    BY OverlapIsFinite
  <2>2. tooEasy \in BOOLEAN
    BY DEF TooEasy
  <2> HIDE DEF O, tooEasy, starved, unmeasured, overlap, problems
  <2>3. LET carriers == [adjust_training  |-> {"investigate_regression", "investigate_mode_collapse"},
                         refine_data      |-> {"add_data"},
                         expand_benchmark |-> {"expand_benchmark"}]
            decision == DecideIteration(problems, wide, O, starved, unmeasured, collapse)
            made     == BuildRecommendations(O, starved, overlap, unmeasured, tooEasy, collapse, curve)
        IN  /\ decision \in DOMAIN carriers => made \cap carriers[decision] # {}
            /\ decision = "accept_model" => \A d \in DOMAIN carriers : made \cap carriers[d] = {}
    BY <2>1, <2>2, DecisionsAreCarriedOut
  <2>4. QED BY <2>3 DEF O, tooEasy, starved, unmeasured, overlap, problems
<1>5. QED BY <1>2, <1>3, <1>4, RefinedAvoidsBenchmark

\* analysis/: for any number of runs, problems, samples and tests, and whatever is on disk while
\* training, packaging and evaluation go on, the analysis of an evaluation run says of its failures
\* and of its outcomes what the evaluation's own report says, a decision comes with the
\* recommendation that carries it out, and the refined dataset keeps clear of the benchmark.  The
\* premise is needed: where fewer recommendations are asked for than six, or than five by the default
\* weights, others that score higher can crowd out the one that the decision relies on.
THEOREM AnalysesAgree ==
  ASSUME RoomForCarrier
  PROVE  ModelsSpec => []AnalysisAgrees
<1>1. ModelsInit => IInv /\ PairedInv
  BY InitialInv, PairedInitial
<1>2. IInv /\ PairedInv /\ [ModelsNext]_mvars => (IInv /\ PairedInv)'
  BY InvStep, PairedStep DEF IInv
<1>3. PairedInv => AnalysisAgrees
  BY AnalysisFollows
<1>4. QED BY <1>1, <1>2, <1>3, PTL DEF ModelsSpec
-----------------------------------------------------------------------------
(* Binomial coefficients. *)

\* The recursion of the factorial, up to n.
UpTo(h, n) == h = [i \in 0..n |-> IF i = 0 THEN 1 ELSE i * h[i - 1]]

LEMMA FactorialExists ==
  \E f : f = [n \in Nat |-> IF n = 0 THEN 1 ELSE n * f[n - 1]]
<1>1. \A n \in Nat : \E h : UpTo(h, n)
  <2> DEFINE bad == {n \in Nat : ~\E h : UpTo(h, n)}
  <2>1. CASE bad # {}
    <3>1. PICK n \in bad : \A m \in bad : n <= m
      <4> HIDE DEF bad
      <4>1. bad \in SUBSET Nat
        BY DEF bad
      <4>2. QED BY <2>1, <4>1, LeastOf
    <3>2. n \in Nat /\ ~\E h : UpTo(h, n)
      OBVIOUS
    <3>3. n # 0
      <4> DEFINE one == [i \in 0..0 |-> 1]
      <4>1. UpTo(one, 0)
        BY DEF UpTo
      <4>2. QED BY <3>2, <4>1
    <3>4. PICK h : UpTo(h, n - 1)
      BY <3>1, <3>3
    <3> DEFINE g == [i \in 0..n |-> IF i = 0 THEN 1 ELSE i * h[i - 1]]
    <3>5. \A i \in 0..(n - 1) : g[i] = h[i]
      BY <3>2, <3>4 DEF UpTo
    <3>6. \A i \in 0..n : g[i] = IF i = 0 THEN 1 ELSE i * g[i - 1]
      <4> SUFFICES ASSUME NEW i \in 0..n PROVE g[i] = IF i = 0 THEN 1 ELSE i * g[i - 1]
        OBVIOUS
      <4>1. i # 0 => i - 1 \in 0..(n - 1)
        BY <3>2
      <4>2. g[i] = IF i = 0 THEN 1 ELSE i * h[i - 1]
        OBVIOUS
      <4> HIDE DEF g
      <4>3. QED BY <3>5, <4>1, <4>2
    <3>7. g = [i \in 0..n |-> g[i]]
      OBVIOUS
    <3> HIDE DEF g
    <3>8. UpTo(g, n)
      BY <3>6, <3>7 DEF UpTo
    <3>9. QED BY <3>2, <3>8
  <2>2. QED BY <2>1
<1>2. ASSUME NEW n \in Nat, NEW m \in Nat, NEW g, NEW h, UpTo(g, n), UpTo(h, m), n <= m
      PROVE  \A i \in 0..n : g[i] = h[i]
  <2> DEFINE bad == {i \in 0..n : g[i] # h[i]}
  <2>1. CASE bad # {}
    <3>1. PICK i \in bad : \A j \in bad : i <= j
      <4>1. bad \in SUBSET Nat
        OBVIOUS
      <4> HIDE DEF bad
      <4>2. QED BY <2>1, <4>1, LeastOf
    <3>2. i \in 0..n /\ i \in 0..m /\ i # 0 => i - 1 \in 0..n
      BY <1>2
    <3>3. i \in 0..n /\ i \in 0..m
      BY <1>2
    <3>4. /\ g[i] = IF i = 0 THEN 1 ELSE i * g[i - 1]
          /\ h[i] = IF i = 0 THEN 1 ELSE i * h[i - 1]
      BY <1>2, <3>3 DEF UpTo
    <3>5. i # 0 => i - 1 \notin bad
      BY <3>1, <3>3
    <3>6. i # 0 => g[i - 1] = h[i - 1]
      BY <3>2, <3>3, <3>5
    <3>7. g[i] # h[i]
      BY <3>1
    <3> HIDE DEF bad
    <3>8. QED BY <3>4, <3>6, <3>7
  <2>2. QED BY <2>1
<1> DEFINE part == [n \in Nat |-> CHOOSE h : UpTo(h, n)]
           f == [n \in Nat |-> part[n][n]]
<1>3. \A n \in Nat : UpTo(part[n], n)
  BY <1>1
<1> HIDE DEF part
<1>4. ASSUME NEW n \in Nat PROVE f[n] = IF n = 0 THEN 1 ELSE n * f[n - 1]
  <2>1. part[n][n] = IF n = 0 THEN 1 ELSE n * part[n][n - 1]
    <3>1. n \in 0..n /\ UpTo(part[n], n)
      BY <1>3
    <3>2. QED BY <3>1 DEF UpTo
  <2>2. CASE n = 0
    BY <2>1, <2>2
  <2>3. CASE n # 0
    <3>1. n - 1 \in Nat /\ n - 1 <= n /\ n - 1 \in 0..(n - 1)
      BY <2>3
    <3>2. part[n - 1][n - 1] = part[n][n - 1]
      BY <1>2, <1>3, <3>1
    <3>3. QED BY <2>1, <2>3, <3>1, <3>2
  <2>4. QED BY <2>2, <2>3
<1>5. f = [n \in Nat |-> f[n]]
  OBVIOUS
<1> HIDE DEF f
<1>6. f = [n \in Nat |-> IF n = 0 THEN 1 ELSE n * f[n - 1]]
  BY <1>4, <1>5
<1>7. QED BY <1>6

LEMMA Factorials ==
  /\ factorial[0] = 1
  /\ \A n \in Nat : n # 0 => factorial[n] = n * factorial[n - 1]
  /\ \A n \in Nat : factorial[n] \in Nat \ {0}
<1>1. factorial = [n \in Nat |-> IF n = 0 THEN 1 ELSE n * factorial[n - 1]]
  BY FactorialExists DEF factorial
<1>2. \A n \in Nat : factorial[n] = IF n = 0 THEN 1 ELSE n * factorial[n - 1]
  BY <1>1
<1> HIDE <1>1
<1>3. \A n \in Nat : factorial[n] \in Nat \ {0}
  <2> DEFINE bad == {n \in Nat : factorial[n] \notin Nat \ {0}}
  <2>1. CASE bad # {}
    <3>1. PICK n \in bad : \A m \in bad : n <= m
      <4>1. bad \in SUBSET Nat
        OBVIOUS
      <4> HIDE DEF bad
      <4>2. QED BY <2>1, <4>1, LeastOf
    <3>2. n \in Nat /\ n # 0 /\ factorial[n] = n * factorial[n - 1]
      BY <1>2
    <3>3. n - 1 \in Nat /\ n - 1 \notin bad
      BY <3>1, <3>2
    <3>4. factorial[n - 1] \in Nat \ {0}
      BY <3>3
    <3>5. n * factorial[n - 1] \in Nat \ {0}
      BY <3>2, <3>4
    <3>6. QED BY <3>1, <3>2, <3>5
  <2>2. QED BY <2>1
<1>4. QED BY <1>2, <1>3

\* A set has choose(n, k) subsets of k members.
LEMMA PascalsTriangle ==
  ASSUME NEW n \in Nat \ {0}, NEW k \in 1..n, NEW a \in Nat, NEW b \in Nat,
         b * (factorial[k - 1] * factorial[n - k]) = factorial[n - 1],
         k = n => a = 0,
         k < n => a * (factorial[k] * factorial[n - 1 - k]) = factorial[n - 1]
  PROVE  (a + b) * (factorial[k] * factorial[n - k]) = factorial[n]
<1> DEFINE p == factorial[k - 1]
           q == factorial[n - k]
           f == factorial[n - 1]
           r == factorial[n - 1 - k]
           d == n - k
<1>1. k \in Nat /\ k # 0 /\ k - 1 \in Nat /\ n - k \in Nat /\ n - 1 \in Nat /\ n = d + k /\ d \in Nat
  OBVIOUS
<1>2. p \in Nat /\ q \in Nat /\ f \in Nat /\ factorial[k] = k * p /\ factorial[n] = n * f
  BY <1>1, Factorials
<1>3. b * (p * q) = f
  OBVIOUS
<1>4. b * ((k * p) * q) = k * f
  <2>1. b * ((k * p) * q) = k * (b * (p * q))
    <3> HIDE DEF p, q
    <3>1. (k * p) * q = k * (p * q) /\ p * q \in Nat
      BY <1>1, <1>2, Reorder
    <3>2. b * (k * (p * q)) = k * (b * (p * q))
      <4> DEFINE m == p * q
      <4>1. m \in Nat
        BY <3>1
      <4> HIDE DEF m
      <4>2. b * (k * m) = (b * k) * m /\ (b * k) * m = (k * b) * m /\ (k * b) * m = k * (b * m)
        BY <1>1, <4>1, Reorder
      <4>3. QED BY <4>2 DEF m
    <3>3. QED BY <3>1, <3>2
  <2>2. QED BY <1>3, <2>1
<1>5. a * ((k * p) * q) = d * f
  <2>1. CASE k = n
    <3>1. a = 0 /\ d = 0 /\ (k * p) * q \in Int
      BY <1>1, <1>2, <2>1
    <3>2. QED BY <1>2, <3>1
  <2>2. CASE k < n
    <3>1. n - 1 - k \in Nat /\ d # 0 /\ d - 1 = n - 1 - k
      BY <1>1, <2>2
    <3>2. q = d * r /\ r \in Nat
      BY <1>1, <3>1, Factorials
    <3>3. a * ((k * p) * r) = f
      BY <1>2, <2>2
    <3> HIDE DEF p, q, f, r, d
    <3> DEFINE m == k * p
    <3>4. m \in Nat
      BY <1>1, <1>2
    <3> HIDE DEF m
    <3>5. a * (m * (d * r)) = d * (a * (m * r))
      <4>1. m * (d * r) = d * (m * r) /\ m * r \in Nat
        BY <1>1, <3>2, <3>4, Reorder
      <4> DEFINE z == m * r
      <4>2. a * (d * z) = d * (a * z)
        <5>1. z \in Nat
          BY <4>1
        <5> HIDE DEF z
        <5>2. a * (d * z) = (a * d) * z /\ (a * d) * z = (d * a) * z /\ (d * a) * z = d * (a * z)
          BY <1>1, <5>1, Reorder
        <5>3. QED BY <5>2
      <4>3. QED BY <4>1, <4>2
    <3>6. QED BY <3>2, <3>3, <3>5 DEF m
  <2>3. k \in Int /\ n \in Int /\ k <= n
    OBVIOUS
  <2>4. QED BY <2>1, <2>2, <2>3
<1>6. (a + b) * ((k * p) * q) = n * f
  <2> DEFINE w == (k * p) * q
  <2>1. w \in Nat
    BY <1>1, <1>2
  <2>2. (a + b) * w = a * w + b * w
    <3> HIDE DEF w
    <3>1. QED BY <2>1, Reorder
  <2>3. a * w = d * f /\ b * w = k * f
    BY <1>4, <1>5
  <2>4. d * f + k * f = n * f
    <3> HIDE DEF f, d
    <3>1. (d + k) * f = d * f + k * f
      BY <1>1, <1>2, Reorder
    <3>2. QED BY <1>1, <3>1
  <2> HIDE DEF w
  <2>5. QED BY <2>2, <2>3, <2>4 DEF w
<1>7. QED BY <1>2, <1>6

LEMMA SubsetsAreFinite ==
  ASSUME NEW S, IsFiniteSet(S), NEW k
  PROVE  IsFiniteSet(kSubset(k, S)) /\ Cardinality(kSubset(k, S)) \in Nat
<1>1. IsFiniteSet(SUBSET S) /\ kSubset(k, S) \subseteq SUBSET S
  BY FS_SUBSET DEF kSubset
<1>2. QED BY <1>1, FS_Subset, FS_CardinalityType

\* The subsets with a given member, and those without.
LEMMA SubsetsSplit ==
  ASSUME NEW S, IsFiniteSet(S), NEW x \in S, NEW k \in Nat \ {0}
  PROVE  Cardinality(kSubset(k, S)) =
           Cardinality(kSubset(k, S \ {x})) + Cardinality(kSubset(k - 1, S \ {x}))
<1> DEFINE R == S \ {x}
           A == kSubset(k, R)
           B == kSubset(k - 1, R)
           C == {t \cup {x} : t \in B}
           f == [t \in B |-> t \cup {x}]
<1>1. IsFiniteSet(R) /\ \A t \in SUBSET R : IsFiniteSet(t) /\ x \notin t
  BY FS_RemoveElement, FS_Subset
<1>2. f \in Bijection(B, C)
  <2>1. \A t, u \in B : t \cup {x} = u \cup {x} => t = u
    BY <1>1 DEF kSubset
  <2>2. QED BY <2>1 DEF Bijection, Injection, Surjection, IsInjective
<1>3. IsFiniteSet(A) /\ IsFiniteSet(B) /\ Cardinality(A) \in Nat /\ Cardinality(B) \in Nat
  <2> HIDE DEF R
  <2>1. QED BY <1>1, SubsetsAreFinite
<1>4. IsFiniteSet(C) /\ Cardinality(C) = Cardinality(B)
  <2> HIDE DEF B, C, f
  <2>1. QED BY <1>2, <1>3, FS_Bijection DEF ExistsBijection
<1>5. A \cap C = {}
  BY <1>1 DEF kSubset
<1>6. kSubset(k, S) = A \cup C
  <2>1. \A s \in A : s \in kSubset(k, S)
    BY DEF kSubset
  <2>2. \A t \in B : t \cup {x} \in kSubset(k, S)
    <3> SUFFICES ASSUME NEW t \in B PROVE t \cup {x} \in kSubset(k, S)
      OBVIOUS
    <3>1. t \in SUBSET R /\ IsFiniteSet(t) /\ x \notin t /\ Cardinality(t) = k - 1
      BY <1>1 DEF kSubset
    <3>2. Cardinality(t \cup {x}) = (k - 1) + 1
      BY <3>1, FS_AddElement
    <3>3. QED BY <3>1, <3>2 DEF kSubset
  <2>3. ASSUME NEW s \in kSubset(k, S), x \notin s PROVE s \in A
    BY <2>3 DEF kSubset
  <2>4. ASSUME NEW s \in kSubset(k, S), x \in s PROVE s \in C
    <3> DEFINE t == s \ {x}
    <3>1. s \in SUBSET S /\ IsFiniteSet(s) /\ Cardinality(s) = k
      BY FS_Subset DEF kSubset
    <3>2. Cardinality(t) = k - 1
      BY <2>4, <3>1, FS_RemoveElement
    <3>3. t \in B /\ s = t \cup {x}
      BY <2>4, <3>1, <3>2 DEF kSubset
    <3> HIDE DEF t
    <3>4. QED BY <3>3
  <2> HIDE DEF A, B
  <2>5. QED BY <2>1, <2>2, <2>3, <2>4
<1> HIDE DEF A, C
<1>7. Cardinality(A \cup C) = Cardinality(A) + Cardinality(C) - Cardinality(A \cap C)
  BY <1>3, <1>4, FS_Union
<1>8. Cardinality(A \cap C) = 0
  BY <1>5, FS_EmptySet
<1>9. QED BY <1>3, <1>4, <1>6, <1>7, <1>8 DEF A

LEMMA SubsetsOfSize ==
  \A n \in Nat : \A S : IsFiniteSet(S) /\ Cardinality(S) = n =>
    \A k \in 0..n : Cardinality(kSubset(k, S)) * (factorial[k] * factorial[n - k]) = factorial[n]
<1> DEFINE Fails(n) == \E S : /\ IsFiniteSet(S) /\ Cardinality(S) = n
                              /\ \E k \in 0..n : Cardinality(kSubset(k, S)) * (factorial[k] * factorial[n - k])
                                                   # factorial[n]
           bad == {n \in Nat : Fails(n)}
<1>1. CASE bad # {}
  <2>1. PICK n \in bad : \A m \in bad : n <= m
    <3>1. bad \in SUBSET Nat
      OBVIOUS
    <3> HIDE DEF bad
    <3>2. QED BY <1>1, <3>1, LeastOf
  <2>2. Fails(n)
    OBVIOUS
  <2>3. PICK S : /\ IsFiniteSet(S) /\ Cardinality(S) = n
                 /\ \E k \in 0..n : Cardinality(kSubset(k, S)) * (factorial[k] * factorial[n - k])
                                       # factorial[n]
    BY <2>2
  <2>4. PICK k \in 0..n :
          /\ IsFiniteSet(S) /\ Cardinality(S) = n
          /\ Cardinality(kSubset(k, S)) * (factorial[k] * factorial[n - k]) # factorial[n]
    BY <2>3
  <2>5. n \in Nat /\ n - k \in Nat /\ k \in Nat /\ k <= n
    BY <2>1
  <2>6. CASE k = 0
    <3>1. \A s \in SUBSET S : IsFiniteSet(s) /\ (Cardinality(s) = 0 <=> s = {})
      BY <2>4, FS_Subset, FS_EmptySet
    <3>2. kSubset(0, S) = {{}}
      BY <3>1 DEF kSubset
    <3>3. Cardinality(kSubset(0, S)) = 1
      BY <3>2, FS_Singleton
    <3>4. factorial[n] \in Nat /\ factorial[0] = 1 /\ n - 0 = n
      BY <2>5, Factorials
    <3>5. 1 * (1 * factorial[n]) = factorial[n]
      BY <3>4
    <3>6. QED BY <2>4, <2>6, <3>3, <3>4, <3>5
  <2>7. CASE k # 0
    <3>1. n # 0 /\ k \in 1..n /\ n - 1 \in Nat /\ k - 1 \in 0..(n - 1)
      BY <2>5, <2>7
    <3>2. PICK x : x \in S
      BY <2>4, <3>1, FS_EmptySet
    <3> DEFINE R == S \ {x}
               a == Cardinality(kSubset(k, R))
               b == Cardinality(kSubset(k - 1, R))
    <3>3. IsFiniteSet(R) /\ Cardinality(R) = n - 1
      BY <2>4, <3>2, FS_RemoveElement
    <3>4. \A j \in 0..(n - 1) :
            Cardinality(kSubset(j, R)) * (factorial[j] * factorial[n - 1 - j]) = factorial[n - 1]
      <4>1. n - 1 \notin bad
        BY <2>1, <2>5, <3>1
      <4>2. ~Fails(n - 1)
        BY <3>1, <4>1
      <4> HIDE DEF R
      <4>3. QED BY <3>3, <4>2
    <3>5. a \in Nat /\ b \in Nat
      <4> HIDE DEF R
      <4>1. QED BY <3>3, SubsetsAreFinite
    <3>6. Cardinality(kSubset(k, S)) = a + b
      BY <2>4, <2>5, <2>7, <3>2, SubsetsSplit
    <3>7. b * (factorial[k - 1] * factorial[n - k]) = factorial[n - 1]
      <4>1. n - 1 - (k - 1) = n - k
        BY <2>5
      <4>2. QED BY <3>1, <3>4, <4>1
    <3>8. k < n => a * (factorial[k] * factorial[n - 1 - k]) = factorial[n - 1]
      <4>1. k < n => k \in 0..(n - 1)
        BY <2>5
      <4>2. QED BY <3>4, <4>1
    <3>9. k = n => a = 0
      <4>1. \A s \in SUBSET R : Cardinality(s) <= n - 1 /\ Cardinality(s) \in Nat
        <5> HIDE DEF R
        <5>1. QED BY <3>3, FS_Subset, FS_CardinalityType
      <4>2. k = n => kSubset(k, R) = {}
        BY <2>5, <4>1 DEF kSubset
      <4>3. QED BY <4>2, FS_EmptySet
    <3> HIDE DEF a, b
    <3>10. (a + b) * (factorial[k] * factorial[n - k]) = factorial[n]
      <4>1. n \in Nat \ {0}
        BY <2>5, <3>1
      <4>2. QED BY <3>1, <3>5, <3>7, <3>8, <3>9, <4>1, PascalsTriangle
    <3>11. QED BY <2>4, <3>6, <3>10
  <2>8. QED BY <2>6, <2>7
<1>2. CASE bad = {}
  BY <1>2
<1>3. QED BY <1>1, <1>2

LEMMA Quotient ==
  ASSUME NEW m \in Nat, NEW q \in Nat \ {0}
  PROVE  (m * q) \div q = m
<1> DEFINE d == (m * q) \div q
           r == (m * q) % q
<1>1. m * q \in Nat
  OBVIOUS
<1>2. d \in Int /\ r \in 0..(q - 1) /\ m * q = d * q + r
  <2> DEFINE z == m * q
  <2> HIDE DEF z
  <2>1. z \in Nat => z \div q \in Int /\ z % q \in 0..(q - 1) /\ z = (z \div q) * q + (z % q)
    OBVIOUS
  <2>2. QED BY <1>1, <2>1 DEF z
<1> HIDE DEF d, r
<1>3. (m - d) * q = r
  <2>1. (m - d) * q = m * q - d * q
    BY <1>2
  <2>2. d * q \in Int
    BY <1>2
  <2>3. QED BY <1>1, <1>2, <2>1, <2>2
<1>4. m = d
  <2>1. CASE m - d >= 1
    <3>1. (m - d) * q >= 1 * q
      BY <1>2, <2>1, Products
    <3>2. QED BY <1>2, <1>3, <3>1
  <2>2. CASE d - m >= 1
    <3>1. (d - m) * q >= 1 * q
      BY <1>2, <2>2, Products
    <3>2. (d - m) * q = -((m - d) * q)
      BY <1>2
    <3>3. QED BY <1>2, <1>3, <3>1, <3>2
  <2>3. QED BY <1>2, <2>1, <2>2
<1>5. QED BY <1>4 DEF d

LEMMA SubsetsAreChosen ==
  ASSUME NEW S, IsFiniteSet(S), NEW k \in 0..Cardinality(S)
  PROVE  /\ Cardinality(kSubset(k, S)) = choose(Cardinality(S), k)
         /\ choose(Cardinality(S), k) \in Nat \ {0}
<1> DEFINE n == Cardinality(S)
           m == Cardinality(kSubset(k, S))
           q == factorial[k] * factorial[n - k]
<1>1. n \in Nat /\ k \in Nat /\ n - k \in Nat /\ m \in Nat
  BY FS_CardinalityType, SubsetsAreFinite
<1>2. q \in Nat \ {0}
  <2>1. factorial[k] \in Nat \ {0} /\ factorial[n - k] \in Nat \ {0}
    BY <1>1, Factorials
  <2> HIDE DEF n
  <2>2. QED BY <2>1
<1>3. m * q = factorial[n] /\ factorial[n] # 0
  BY <1>1, SubsetsOfSize, Factorials
<1>4. choose(n, k) = factorial[n] \div q
  BY DEF choose
<1> HIDE DEF q, m, n
<1>5. choose(n, k) = m
  BY <1>1, <1>2, <1>3, <1>4, Quotient
<1>6. m # 0
  BY <1>1, <1>2, <1>3
<1>7. QED BY <1>1, <1>5, <1>6 DEF m, n

-----------------------------------------------------------------------------
(* Means. *)

\* Of subsets that are wrong there is one that is right without the member that is chosen from it.
LEMMA LeastSubset ==
  ASSUME NEW S, IsFiniteSet(S), NEW bad \in SUBSET (SUBSET S), bad # {}, {} \notin bad
  PROVE  \E s \in bad : /\ s # {} /\ s \subseteq S
                        /\ (CHOOSE x \in s : TRUE) \in s
                        /\ s \ {CHOOSE x \in s : TRUE} \in SUBSET S
                        /\ s \ {CHOOSE x \in s : TRUE} \notin bad
<1> DEFINE sizes == {Cardinality(s) : s \in bad}
<1>1. \A s \in SUBSET S : IsFiniteSet(s) /\ Cardinality(s) \in Nat
  BY FS_Subset, FS_CardinalityType
<1>2. PICK s \in bad : \A r \in bad : Cardinality(s) <= Cardinality(r)
  <2>1. sizes \in SUBSET Nat /\ sizes # {}
    BY <1>1
  <2> HIDE DEF sizes
  <2>2. \E k \in sizes : \A m \in sizes : k <= m
    BY <2>1, LeastOf
  <2>3. QED BY <2>2 DEF sizes
<1> DEFINE x == CHOOSE y \in s : TRUE
           r == s \ {x}
<1>3. s # {} /\ s \in SUBSET S /\ x \in s /\ r \in SUBSET S
  OBVIOUS
<1> HIDE DEF x
<1>4. Cardinality(r) = Cardinality(s) - 1
  BY <1>1, <1>3, FS_RemoveElement
<1>5. r \notin bad
  <2>1. Cardinality(r) \in Nat /\ Cardinality(s) \in Nat
    BY <1>1, <1>3
  <2> HIDE DEF r
  <2>2. QED BY <1>2, <1>4, <2>1
<1>6. QED BY <1>3, <1>5 DEF x

\* The recursion of FoldSet over the subsets of S, for the sum of the fractions v; D are the subsets
\* it is defined on.
Summed(v, D, it) ==
  it = [s \in D |-> IF s = {} THEN Zero
                    ELSE Plus(v[CHOOSE x \in s : TRUE], it[s \ {CHOOSE x \in s : TRUE}])]

LEMMA SumExists ==
  ASSUME NEW S, IsFiniteSet(S), NEW v
  PROVE  \E it : Summed(v, SUBSET S, it)
<1> DEFINE Small(n) == {s \in SUBSET S : Cardinality(s) <= n}
           bad == {n \in Nat : ~\E it : Summed(v, Small(n), it)}
<1>1. \A s \in SUBSET S : IsFiniteSet(s) /\ Cardinality(s) \in Nat /\ Cardinality(s) <= Cardinality(S)
  BY FS_Subset, FS_CardinalityType
<1>2. CASE bad # {}
  <2>1. PICK n \in bad : \A m \in bad : n <= m
    <3>1. bad \in SUBSET Nat
      OBVIOUS
    <3> HIDE DEF bad
    <3>2. QED BY <1>2, <3>1, LeastOf
  <2>2. n \in Nat /\ ~\E it : Summed(v, Small(n), it)
    OBVIOUS
  <2>3. \E h : n # 0 => Summed(v, Small(n - 1), h)
    <3>1. n # 0 => n - 1 \in Nat /\ n - 1 \notin bad
      <4>1. n \in Nat
        BY <2>2
      <4> HIDE DEF bad
      <4>2. QED BY <2>1, <4>1
    <3>2. QED BY <3>1
  <2>4. PICK h : n # 0 => Summed(v, Small(n - 1), h)
    BY <2>3
  <2> DEFINE g == [s \in Small(n) |-> IF s = {} THEN Zero
                     ELSE Plus(v[CHOOSE x \in s : TRUE], h[s \ {CHOOSE x \in s : TRUE}])]
  <2>5. ASSUME NEW s \in Small(n), s # {}
        PROVE  /\ s \ {CHOOSE x \in s : TRUE} \in Small(n)
               /\ g[s \ {CHOOSE x \in s : TRUE}] = h[s \ {CHOOSE x \in s : TRUE}]
    <3> DEFINE x == CHOOSE y \in s : TRUE
               r == s \ {x}
    <3>1. x \in s /\ s \in SUBSET S /\ r \in SUBSET S /\ Cardinality(s) <= n
      BY <2>5
    <3> HIDE DEF x
    <3>2. Cardinality(r) = Cardinality(s) - 1 /\ Cardinality(r) \in Nat /\ Cardinality(s) \in Nat
      BY <1>1, <3>1, FS_RemoveElement
    <3>3. n # 0 /\ Cardinality(r) <= n - 1 /\ Cardinality(r) <= n
      BY <2>2, <3>1, <3>2
    <3>4. r \in Small(n) /\ r \in Small(n - 1)
      BY <3>1, <3>3
    <3> HIDE DEF r
    <3>5. g[r] = h[r]
      <4>1. Summed(v, Small(n - 1), h)
        BY <2>4, <3>3
      <4> HIDE DEF Small
      <4>2. h[r] = IF r = {} THEN Zero ELSE Plus(v[CHOOSE y \in r : TRUE], h[r \ {CHOOSE y \in r : TRUE}])
        BY <3>4, <4>1 DEF Summed
      <4>3. QED BY <3>4, <4>2
    <3>6. QED BY <3>4, <3>5 DEF r, x
  <2>6. \A s \in Small(n) : g[s] = IF s = {} THEN Zero
                     ELSE Plus(v[CHOOSE x \in s : TRUE], g[s \ {CHOOSE x \in s : TRUE}])
    <3> SUFFICES ASSUME NEW s \in Small(n)
                 PROVE  g[s] = IF s = {} THEN Zero
                     ELSE Plus(v[CHOOSE x \in s : TRUE], g[s \ {CHOOSE x \in s : TRUE}])
      OBVIOUS
    <3>1. g[s] = IF s = {} THEN Zero
                     ELSE Plus(v[CHOOSE x \in s : TRUE], h[s \ {CHOOSE x \in s : TRUE}])
      OBVIOUS
    <3> HIDE DEF g, Small
    <3>2. QED BY <2>5, <3>1
  <2>7. g = [s \in Small(n) |-> g[s]]
    OBVIOUS
  <2> HIDE DEF g, Small
  <2>8. Summed(v, Small(n), g)
    BY <2>6, <2>7 DEF Summed
  <2>9. QED BY <2>2, <2>8
<1>3. CASE bad = {}
  <2>1. Small(Cardinality(S)) = SUBSET S /\ Cardinality(S) \in Nat
    BY <1>1, FS_CardinalityType
  <2>2. \E it : Summed(v, Small(Cardinality(S)), it)
    BY <1>3, <2>1
  <2>3. QED BY <2>1, <2>2
<1>4. QED BY <1>2, <1>3

LEMMA PlusOfFractions ==
  ASSUME NEW x \in Fractions, NEW y \in Fractions
  PROVE  Plus(x, y) \in Fractions
BY DEF Plus, Fractions

LEMMA PlusRespectsSame ==
  ASSUME NEW x \in Fractions, NEW y \in Fractions, NEW u \in Fractions, NEW w \in Fractions,
         Same(x, u), Same(y, w)
  PROVE  Same(Plus(x, y), Plus(u, w))
<1> DEFINE a == x[1]
           b == x[2]
           c == y[1]
           d == y[2]
           e == u[1]
           f == u[2]
           g == w[1]
           h == w[2]
<1>1. /\ a \in Nat /\ b \in Nat /\ c \in Nat /\ d \in Nat
      /\ e \in Nat /\ f \in Nat /\ g \in Nat /\ h \in Nat
  BY DEF Fractions
<1>2. a * f = e * b /\ c * h = g * d
  BY DEF Same
<1>3. Plus(x, y)[1] = a * d + c * b /\ Plus(x, y)[2] = b * d
  BY DEF Plus
<1>4. Plus(u, w)[1] = e * h + g * f /\ Plus(u, w)[2] = f * h
  BY DEF Plus
<1> HIDE DEF a, b, c, d, e, f, g, h
<1>5. (a * d + c * b) * (f * h) = (a * f) * (d * h) + (c * h) * (b * f)
  BY <1>1
<1>6. (e * h + g * f) * (b * d) = (e * b) * (d * h) + (g * d) * (b * f)
  BY <1>1
<1>7. (a * d + c * b) * (f * h) = (e * h + g * f) * (b * d)
  BY <1>2, <1>5, <1>6
<1>8. QED BY <1>3, <1>4, <1>7 DEF Same

\* Sums of fractions are fractions, and equal where what is added is.
LEMMA SumsAgree ==
  ASSUME NEW S, IsFiniteSet(S), NEW v \in [S -> Fractions], NEW w \in [S -> Fractions],
         \A x \in S : Same(v[x], w[x]),
         NEW it, Summed(v, SUBSET S, it), NEW jt, Summed(w, SUBSET S, jt)
  PROVE  it[S] \in Fractions /\ jt[S] \in Fractions /\ Same(it[S], jt[S])
<1> DEFINE Good(s) == it[s] \in Fractions /\ jt[s] \in Fractions /\ Same(it[s], jt[s])
           bad == {s \in SUBSET S : ~Good(s)}
<1>1. \A s \in SUBSET S :
        /\ it[s] = IF s = {} THEN Zero
                   ELSE Plus(v[CHOOSE x \in s : TRUE], it[s \ {CHOOSE x \in s : TRUE}])
        /\ jt[s] = IF s = {} THEN Zero
                   ELSE Plus(w[CHOOSE x \in s : TRUE], jt[s \ {CHOOSE x \in s : TRUE}])
  BY DEF Summed
<1>2. Good({})
  <2>1. it[{}] = Zero /\ jt[{}] = Zero
    BY <1>1
  <2>2. Zero \in Fractions /\ Same(Zero, Zero)
    BY DEF Zero, Fractions, Same
  <2>3. QED BY <2>1, <2>2
<1>3. CASE bad # {}
  <2>1. bad \in SUBSET (SUBSET S) /\ {} \notin bad
    BY <1>2
  <2>2. PICK s \in bad : /\ s # {} /\ s \subseteq S
                         /\ (CHOOSE x \in s : TRUE) \in s
                         /\ s \ {CHOOSE x \in s : TRUE} \in SUBSET S
                         /\ s \ {CHOOSE x \in s : TRUE} \notin bad
    <3> HIDE DEF bad
    <3>1. QED BY <1>3, <2>1, LeastSubset
  <2> DEFINE x == CHOOSE y \in s : TRUE
             r == s \ {x}
  <2>3. x \in S /\ Good(r)
    BY <2>2
  <2>4. it[s] = Plus(v[x], it[r]) /\ jt[s] = Plus(w[x], jt[r])
    BY <1>1, <2>2
  <2>5. ~Good(s)
    BY <2>2
  <2> HIDE DEF x, r
  <2>6. v[x] \in Fractions /\ w[x] \in Fractions /\ Same(v[x], w[x])
    BY <2>3
  <2>7. it[s] \in Fractions /\ jt[s] \in Fractions
    BY <2>3, <2>4, <2>6, PlusOfFractions
  <2>8. Same(it[s], jt[s])
    BY <2>3, <2>4, <2>6, PlusRespectsSame
  <2>9. QED BY <2>5, <2>7, <2>8
<1>4. CASE bad = {}
  BY <1>4
<1>5. QED BY <1>3, <1>4

LEMMA MeanIsSum ==
  ASSUME NEW S, IsFiniteSet(S), S # {}, NEW v, DOMAIN v = S
  PROVE  \E it : /\ Summed(v, SUBSET S, it)
                 /\ MeanOf(v) = <<it[S][1], it[S][2] * Cardinality(S)>>
<1>1. \E it : Summed(v, SUBSET S, it)
  BY SumExists
<1>2. \E it : /\ Summed(v, SUBSET S, it)
              /\ FoldSet(LAMBDA s, acc : Plus(v[s], acc), Zero, S) = it[S]
  <2> SUFFICES ASSUME NEW g, Summed(v, SUBSET S, g)
               PROVE  \E it : /\ Summed(v, SUBSET S, it)
                              /\ FoldSet(LAMBDA s, acc : Plus(v[s], acc), Zero, S) = it[S]
    BY <1>1
  <2>1. QED BY DEF FoldSet, MapThenFoldSet, Summed
<1>3. QED BY <1>2 DEF MeanOf

LEMMA MeansAgree ==
  ASSUME NEW S, IsFiniteSet(S), NEW v \in [S -> Fractions], NEW w \in [S -> Fractions],
         \A x \in S : Same(v[x], w[x])
  PROVE  MeanOf(v) \in Fractions /\ MeanOf(w) \in Fractions /\ Same(MeanOf(v), MeanOf(w))
<1>1. DOMAIN v = S /\ DOMAIN w = S
  OBVIOUS
<1>2. CASE S = {}
  <2>1. MeanOf(v) = Zero /\ MeanOf(w) = Zero
    BY <1>1, <1>2 DEF MeanOf
  <2>2. QED BY <2>1 DEF Zero, Fractions, Same
<1>3. CASE S # {}
  <2>1. PICK it : Summed(v, SUBSET S, it) /\ MeanOf(v) = <<it[S][1], it[S][2] * Cardinality(S)>>
    BY <1>1, <1>3, MeanIsSum
  <2>2. PICK jt : Summed(w, SUBSET S, jt) /\ MeanOf(w) = <<jt[S][1], jt[S][2] * Cardinality(S)>>
    BY <1>1, <1>3, MeanIsSum
  <2>3. it[S] \in Fractions /\ jt[S] \in Fractions /\ Same(it[S], jt[S])
    BY <2>1, <2>2, SumsAgree
  <2> DEFINE a == it[S][1]
             b == it[S][2]
             c == jt[S][1]
             d == jt[S][2]
             n == Cardinality(S)
  <2>4. /\ a \in Nat /\ b \in Nat \ {0} /\ c \in Nat /\ d \in Nat \ {0} /\ a * d = c * b
        /\ n \in Nat \ {0}
    BY <1>3, <2>3, FS_CardinalityType, FS_EmptySet DEF Fractions, Same
  <2>5. MeanOf(v) = <<a, b * n>> /\ MeanOf(w) = <<c, d * n>>
    BY <2>1, <2>2
  <2> HIDE DEF a, b, c, d, n
  <2>6. b * n \in Nat \ {0} /\ d * n \in Nat \ {0}
    BY <2>4
  <2>7. a * (d * n) = c * (b * n)
    <3>1. a * (d * n) = (a * d) * n /\ c * (b * n) = (c * b) * n
      BY <2>4
    <3>2. QED BY <2>4, <3>1
  <2>8. MeanOf(v) \in Fractions /\ MeanOf(w) \in Fractions
    <3> DEFINE p == b * n
               q == d * n
    <3>1. MeanOf(v) = <<a, p>> /\ MeanOf(w) = <<c, q>> /\ p \in Nat \ {0} /\ q \in Nat \ {0}
      BY <2>5, <2>6
    <3> HIDE DEF p, q
    <3>2. QED BY <2>4, <3>1 DEF Fractions
  <2>9. Same(MeanOf(v), MeanOf(w))
    BY <2>5, <2>7 DEF Same
  <2>10. QED BY <2>8, <2>9
<1>4. QED BY <1>2, <1>3

-----------------------------------------------------------------------------
(* The numbers of the report. *)

LEMMA PartsOfRecords ==
  ASSUME NEW E, Judgeable(E)
  PROVE  /\ \A p : IsFiniteSet(Valid(OfProblem(E, p)))
         /\ IsFiniteSet(Valid(E)) /\ IsFiniteSet(GroupByProblem(E))
         /\ \A k : IsFiniteSet(Eligible(E, k))
<1>1. IsFiniteSet(E) /\ Valid(E) \subseteq E /\ \A p : Valid(OfProblem(E, p)) \subseteq E
  BY DEF Judgeable, Valid, OfProblem
<1>2. IsFiniteSet(GroupByProblem(E))
  <2> DEFINE f == [r \in E |-> r.problem]
  <2>1. f \in Surjection(E, GroupByProblem(E))
    BY DEF Surjection, GroupByProblem
  <2> HIDE DEF f
  <2>2. QED BY <1>1, <2>1, FS_Surjection
<1>3. \A k : Eligible(E, k) \subseteq GroupByProblem(E)
  BY DEF Eligible
<1>4. QED BY <1>1, <1>2, <1>3, FS_Subset

\* pass@k is the share of the k-subsets that hold a correct sample.
LEMMA PassIsShare ==
  ASSUME NEW E, Judgeable(E), NEW k \in Nat \ {0}, NEW p \in Eligible(E, k)
  PROVE  LET x == PassAtK(Samples(E, p), Successes(E, p), k)
             y == ShareOfSubsets(E, p, k)
         IN  x \in Fractions /\ y \in Fractions /\ Same(x, y)
<1> DEFINE V == Valid(OfProblem(E, p))
           C == {r \in V : Correct(r)}
           W == V \ C
           n == Cardinality(V)
           c == Cardinality(C)
           all == kSubset(k, V)
           passing == {S \in all : \E r \in S : Correct(r)}
           failing == kSubset(k, W)
           t == choose(n, k)
           x == PassAtK(n, c, k)
           y == ShareOfSubsets(E, p, k)
<1>1. /\ IsFiniteSet(V) /\ IsFiniteSet(C) /\ IsFiniteSet(W)
      /\ n \in Nat /\ c \in Nat /\ c <= n /\ Cardinality(W) = n - c
  <2>1. IsFiniteSet(V) /\ C \subseteq V /\ C = V \cap C
    BY PartsOfRecords
  <2> HIDE DEF V, C
  <2>2. /\ IsFiniteSet(C) /\ Cardinality(C) <= Cardinality(V)
        /\ IsFiniteSet(W) /\ Cardinality(W) = Cardinality(V) - Cardinality(V \cap C)
    BY <2>1, FS_Subset, FS_Difference
  <2>3. Cardinality(V \cap C) = Cardinality(C)
    BY <2>1
  <2>4. QED BY <2>1, <2>2, <2>3, FS_CardinalityType
<1>2. n >= k /\ k \in 0..n
  <2>1. n >= k
    BY DEF Eligible, Samples
  <2>2. QED BY <1>1, <2>1
<1>3. Cardinality(all) = t /\ t \in Nat \ {0} /\ IsFiniteSet(all) /\ all # {}
  <2> HIDE DEF V
  <2>1. Cardinality(all) = t /\ t \in Nat \ {0} /\ IsFiniteSet(all)
    BY <1>1, <1>2, SubsetsAreChosen, SubsetsAreFinite
  <2>2. QED BY <2>1, FS_EmptySet
<1>4. /\ y = <<Cardinality(passing), t>>
      /\ Samples(E, p) = n /\ Successes(E, p) = c
  BY <1>3 DEF ShareOfSubsets, Share, Samples, Successes
<1>5. passing = all \ failing /\ failing \subseteq all /\ failing = all \cap failing
  <2>1. \A S \in all : S \in failing <=> ~\E r \in S : Correct(r)
    BY DEF kSubset
  <2>2. failing \subseteq all
    BY DEF kSubset
  <2>3. QED BY <2>1, <2>2
<1>6. /\ IsFiniteSet(passing) /\ Cardinality(passing) = t - Cardinality(failing)
      /\ Cardinality(passing) \in Nat
  <2> HIDE DEF all, failing, passing
  <2>1. IsFiniteSet(passing) /\ Cardinality(passing) = Cardinality(all) - Cardinality(all \cap failing)
    BY <1>3, <1>5, FS_Difference
  <2>2. QED BY <1>3, <1>5, <2>1, FS_CardinalityType
<1>7. CASE c = 0
  <2>1. C = {}
    <3> HIDE DEF C
    <3>1. QED BY <1>1, <1>7, FS_EmptySet
  <2>2. passing = {}
    BY <2>1 DEF kSubset
  <2>3. Cardinality(passing) = 0
    BY <2>2, FS_EmptySet
  <2>4. x = Zero
    BY <1>7 DEF PassAtK
  <2> HIDE DEF t, x, passing
  <2>5. y = <<0, t>>
    BY <1>4, <2>3
  <2>6. QED BY <1>3, <1>4, <2>4, <2>5 DEF Same, Zero, Fractions, x
<1>8. CASE c # 0 /\ n - c < k
  <2>1. failing = {}
    <3> SUFFICES ASSUME NEW S \in failing PROVE FALSE
      OBVIOUS
    <3>1. S \in SUBSET W /\ Cardinality(S) = k
      BY DEF kSubset
    <3> HIDE DEF W
    <3>2. Cardinality(S) <= Cardinality(W)
      BY <1>1, <3>1, FS_Subset
    <3>3. QED BY <1>1, <1>8, <3>1, <3>2
  <2>2. Cardinality(failing) = 0
    BY <2>1, FS_EmptySet
  <2>3. x = <<1, 1>>
    BY <1>8 DEF PassAtK
  <2> HIDE DEF t, x, passing, failing
  <2>4. y = <<t, t>>
    BY <1>3, <1>4, <1>6, <2>2
  <2>5. QED BY <1>3, <1>4, <2>3, <2>4 DEF Same, Fractions, x
<1>9. CASE c # 0 /\ ~(n - c < k)
  <2>1. Cardinality(failing) = choose(n - c, k)
    <3>1. k \in 0..Cardinality(W)
      BY <1>1, <1>9
    <3> HIDE DEF W
    <3>2. QED BY <1>1, <3>1, SubsetsAreChosen
  <2>2. x = <<t - choose(n - c, k), t>>
    BY <1>9 DEF PassAtK
  <2> HIDE DEF t, x, passing, failing
  <2>3. x = y
    BY <1>4, <1>6, <2>1, <2>2
  <2>4. y \in Fractions
    BY <1>3, <1>4, <1>6 DEF Fractions
  <2>5. QED BY <1>4, <2>3, <2>4 DEF Same, x
<1>10. QED BY <1>7, <1>8, <1>9

LEMMA MeanPassIsMeanShare ==
  ASSUME NEW E, Judgeable(E), NEW k \in Nat \ {0}
  PROVE  /\ MeanPassAtK(E, k) \in Fractions
         /\ Same(MeanPassAtK(E, k), MeanOf([p \in Eligible(E, k) |-> ShareOfSubsets(E, p, k)]))
<1> DEFINE S == Eligible(E, k)
           v == [p \in S |-> PassAtK(Samples(E, p), Successes(E, p), k)]
           w == [p \in S |-> ShareOfSubsets(E, p, k)]
<1>1. \A p \in S : v[p] \in Fractions /\ w[p] \in Fractions /\ Same(v[p], w[p])
  BY PassIsShare
<1>2. IsFiniteSet(S)
  BY PartsOfRecords
<1>3. v \in [S -> Fractions] /\ w \in [S -> Fractions]
  BY <1>1
<1>4. MeanPassAtK(E, k) = MeanOf(v)
  BY DEF MeanPassAtK
<1> HIDE DEF v, w, S
<1>5. MeanOf(v) \in Fractions /\ Same(MeanOf(v), MeanOf(w))
  BY <1>1, <1>2, <1>3, MeansAgree
<1>6. QED BY <1>4, <1>5 DEF w, S

LEMMA BucketsCover ==
  ASSUME NEW x \in Fractions
  PROVE  BucketFor(x) \in 1..7
<1> DEFINE percent == 100 * x[1]
           S == {b \in 2..6 : b = 6 \/ percent <= 20 * (b - 1) * x[2]}
<1>1. S \in SUBSET Nat /\ 6 \in S
  OBVIOUS
<1>2. Min(S) \in S
  <2> HIDE DEF S
  <2>1. \E b \in S : \A c \in S : b <= c
    BY <1>1, LeastOf
  <2>2. QED BY <2>1 DEF Min
<1>3. Min(S) \in 2..6
  BY <1>2
<1>4. BucketFor(x) \in {1, 7, Min(S)}
  BY DEF BucketFor
<1> HIDE DEF S
<1>5. QED BY <1>3, <1>4

\* Every valid record is in one bucket.
LEMMA DistributionAddsUp ==
  ASSUME NEW E, Judgeable(E)
  PROVE  Total(TestFailureDistribution(E)) = Cardinality(Valid(E))
<1> DEFINE S == 1..7
           T == Valid(E)
           class == [r \in T |-> BucketFor(PassRate(r))]
           n == TestFailureDistribution(E)
<1>1. DOMAIN Buckets = S
  BY DEF Buckets
<1>2. DOMAIN n = S /\ \A b \in S : n[b] = Cardinality({r \in T : BucketFor(PassRate(r)) = b})
  BY <1>1 DEF TestFailureDistribution
<1>3. \A b : {r \in T : BucketFor(PassRate(r)) = b} = {r \in T : class[r] = b}
  OBVIOUS
<1>4. \A r \in T : class[r] \in S
  BY JudgedCounts, BucketsCover DEF Valid
<1>5. IsFiniteSet(S) /\ IsFiniteSet(T)
  <2>1. IsFiniteSet(1..7)
    <3> DEFINE m == 7
    <3>1. m \in Nat
      OBVIOUS
    <3> HIDE DEF m
    <3>2. IsFiniteSet(1..m)
      BY <3>1, FS_Interval
    <3>3. QED BY <3>2 DEF m
  <2>2. QED BY <2>1, PartsOfRecords
<1> HIDE DEF S, T, class, n
<1>6. \A b \in S : n[b] = Cardinality({r \in T : class[r] = b})
  BY <1>2, <1>3
<1>7. Total(n) = Cardinality(T)
  BY <1>2, <1>4, <1>5, <1>6, TotalOfCounts
<1>8. QED BY <1>7 DEF n, T

\* build_failure_analysis counts each answer that failed to be generated and each record of a failure.
LEMMA FailuresAddUp ==
  ASSUME NEW G, NEW E, IsFiniteSet(G), Judgeable(E)
  PROVE  Total(FailureAnalysis(G, E)) =
           Cardinality(G \ Generated(G)) + Cardinality({j \in E : j.status # "passed"})
<1> DEFINE F == G \ Generated(G)
           J == {j \in E : j.status # "passed"}
           X == {0} \X F
           Y == {1} \X J
           T == X \cup Y
           S == ErrorTypes \cup {"generation_error"}
           class == [t \in T |-> IF t[1] = 0 THEN "generation_error" ELSE t[2].type]
           n == FailureAnalysis(G, E)
           Typed(c) == {r \in E : r.type = c}
<1>1. IsFiniteSet(F) /\ IsFiniteSet(J) /\ \A c : IsFiniteSet(Typed(c))
  BY FS_Subset DEF Judgeable
<1>2. ASSUME NEW Z, IsFiniteSet(Z), NEW i
      PROVE  IsFiniteSet({i} \X Z) /\ Cardinality({i} \X Z) = Cardinality(Z)
  <2>1. IsFiniteSet({i}) /\ Cardinality({i}) = 1
    BY FS_Singleton
  <2>2. IsFiniteSet({i} \X Z) /\ Cardinality({i} \X Z) = Cardinality({i}) * Cardinality(Z)
    BY <1>2, <2>1, FS_Product
  <2>3. QED BY <1>2, <2>1, <2>2, FS_CardinalityType
<1>3. IsFiniteSet(T) /\ Cardinality(T) = Cardinality(F) + Cardinality(J)
  <2>1. IsFiniteSet(X) /\ IsFiniteSet(Y) /\ Cardinality(X) = Cardinality(F) /\ Cardinality(Y) = Cardinality(J)
    BY <1>1, <1>2
  <2>2. X \cap Y = {}
    OBVIOUS
  <2> HIDE DEF X, Y, F, J
  <2>3. IsFiniteSet(X \cup Y) /\ Cardinality(X \cup Y) = Cardinality(X) + Cardinality(Y) - Cardinality(X \cap Y)
    BY <2>1, FS_Union
  <2>4. Cardinality(X) \in Nat /\ Cardinality(Y) \in Nat /\ Cardinality(X \cap Y) = 0
    BY <2>1, <2>2, FS_EmptySet, FS_CardinalityType
  <2>5. QED BY <2>1, <2>3, <2>4
<1>4. \A r \in E : /\ r.type \in ErrorTypes \cup {"none"} /\ (r.status = "passed" <=> r.type = "none")
  BY DEF Judgeable, EvaluationRecord
<1>5. \A t \in T : class[t] \in S
  BY <1>4 DEF ErrorTypes
<1>6. /\ DOMAIN n = S /\ n["generation_error"] = Cardinality(F)
      /\ \A c \in ErrorTypes : n[c] = Cardinality(Typed(c))
  BY DEF FailureAnalysis, ErrorTypes
<1>7. {t \in T : class[t] = "generation_error"} = {0} \X F
  BY <1>4 DEF ErrorTypes
<1>8. ASSUME NEW c \in ErrorTypes PROVE {t \in T : class[t] = c} = {1} \X Typed(c)
  <2>1. c # "none" /\ c # "generation_error"
    BY DEF ErrorTypes
  <2>2. \A t \in {1} \X Typed(c) : t \in T /\ class[t] = c
    BY <1>4, <2>1
  <2>3. \A t \in T : class[t] = c => t \in {1} \X Typed(c)
    BY <2>1
  <2>4. QED BY <2>2, <2>3
<1>9. IsFiniteSet(S)
  <2> DEFINE U == {"syntax_error", "import_error", "runtime_error"}
             V == {"assertion_failure", "timeout", "infrastructure_error"}
  <2>1. S = (U \cup V) \cup {"generation_error"}
    BY DEF ErrorTypes
  <2>2. IsFiniteSet(U) /\ IsFiniteSet(V)
    BY TriplesAreFinite
  <2> HIDE DEF U, V, S
  <2>3. IsFiniteSet((U \cup V) \cup {"generation_error"})
    BY <2>2, FS_Union, FS_Singleton
  <2>4. QED BY <2>1, <2>3
<1>10. \A c \in S : n[c] = Cardinality({t \in T : class[t] = c})
  <2> HIDE DEF n, T, class, F, Typed
  <2>1. n["generation_error"] = Cardinality({t \in T : class[t] = "generation_error"})
    BY <1>1, <1>2, <1>6, <1>7
  <2>2. \A c \in ErrorTypes : n[c] = Cardinality({t \in T : class[t] = c})
    <3> SUFFICES ASSUME NEW c \in ErrorTypes PROVE n[c] = Cardinality({t \in T : class[t] = c})
      OBVIOUS
    <3>1. n[c] = Cardinality(Typed(c)) /\ {t \in T : class[t] = c} = {1} \X Typed(c)
      BY <1>6, <1>8
    <3>2. Cardinality({1} \X Typed(c)) = Cardinality(Typed(c))
      BY <1>1, <1>2
    <3>3. QED BY <3>1, <3>2
  <2>3. QED BY <2>1, <2>2
<1> HIDE DEF S, T, class, n, F, J
<1>11. Total(n) = Cardinality(T)
  BY <1>3, <1>5, <1>6, <1>9, <1>10, TotalOfCounts
<1>12. QED BY <1>3, <1>11 DEF n, F, J

\* Wins less losses are the gain.
LEMMA WinsLessLosses ==
  ASSUME NEW B, NEW D, Judgeable(B), Judgeable(D)
  PROVE  LET c == Compare(B, D) IN
         Cardinality(c[1]) - Cardinality(c[-1]) =
           Cardinality({p \in Paired(B, D) : Solved(D, p)}) - Cardinality({p \in Paired(B, D) : Solved(B, p)})
<1> DEFINE X == {p \in Paired(B, D) : Solved(D, p)}
           Y == {p \in Paired(B, D) : Solved(B, p)}
<1>1. Compare(B, D)[1] = X \ Y /\ Compare(B, D)[-1] = Y \ X
  BY DEF Compare, ProblemComparison
<1>2. IsFiniteSet(X) /\ IsFiniteSet(Y)
  <2>1. IsFiniteSet(GroupByProblem(B)) /\ X \subseteq GroupByProblem(B) /\ Y \subseteq GroupByProblem(B)
    BY PartsOfRecords DEF Paired
  <2> HIDE DEF X, Y
  <2>2. QED BY <2>1, FS_Subset
<1> HIDE DEF X, Y
<1>3. Cardinality(X \ Y) = Cardinality(X) - Cardinality(X \cap Y)
  BY <1>2, FS_Difference
<1>4. Cardinality(Y \ X) = Cardinality(Y) - Cardinality(X \cap Y)
  <2>1. Cardinality(Y \ X) = Cardinality(Y) - Cardinality(Y \cap X) /\ Y \cap X = X \cap Y
    BY <1>2, FS_Difference
  <2>2. QED BY <2>1
<1>5. IsFiniteSet(X \cap Y)
  BY <1>2, FS_Intersection
<1>6. Cardinality(X) \in Nat /\ Cardinality(Y) \in Nat /\ Cardinality(X \cap Y) \in Nat
  BY <1>2, <1>5, FS_CardinalityType
<1>7. QED BY <1>1, <1>3, <1>4, <1>6 DEF X, Y
-----------------------------------------------------------------------------
(* McNemar's test. *)

LEMMA LargerAndSmaller ==
  ASSUME NEW x \in Int, NEW y \in Int
  PROVE  /\ Max({x, y}) \in {x, y} /\ Max({x, y}) >= x /\ Max({x, y}) >= y
         /\ Min({x, y}) \in {x, y} /\ Min({x, y}) <= x /\ Min({x, y}) <= y
<1> DEFINE S == {x, y}
<1>1. (\E a \in S : \A b \in S : a >= b) /\ (\E a \in S : \A b \in S : a <= b)
  OBVIOUS
<1>2. Max(S) \in S /\ \A b \in S : Max(S) >= b
  <2> HIDE DEF S
  <2>1. QED BY <1>1 DEF Max
<1>3. Min(S) \in S /\ \A b \in S : Min(S) <= b
  <2> HIDE DEF S
  <2>1. QED BY <1>1 DEF Min
<1>4. QED BY <1>2, <1>3

\* All tosses of n coins, and those with at most k heads.
Tosses(n) == SUBSET (1..n)
FewHeads(n, k) == {H \in Tosses(n) : Cardinality(H) <= k}

LEMMA TossesAreFinite ==
  ASSUME NEW n \in Nat
  PROVE  /\ IsFiniteSet(1..n) /\ Cardinality(1..n) = n
         /\ IsFiniteSet(Tosses(n)) /\ Cardinality(Tosses(n)) = 2 ^ n /\ Cardinality(Tosses(n)) \in Nat \ {0}
         /\ \A H \in Tosses(n) : IsFiniteSet(H) /\ Cardinality(H) \in 0..n
<1>1. IsFiniteSet(1..n) /\ Cardinality(1..n) = n
  BY FS_Interval
<1>2. IsFiniteSet(Tosses(n)) /\ Cardinality(Tosses(n)) = 2 ^ Cardinality(1..n)
  BY <1>1, FS_SUBSET DEF Tosses
<1>3. Cardinality(Tosses(n)) = 2 ^ n
  BY <1>1, <1>2, Zenon
<1>4. Cardinality(Tosses(n)) \in Nat /\ Cardinality(Tosses(n)) # 0
  <2>1. {} \in Tosses(n)
    BY DEF Tosses
  <2>2. QED BY <1>2, <2>1, FS_EmptySet, FS_CardinalityType
<1>5. \A H \in Tosses(n) : IsFiniteSet(H) /\ Cardinality(H) \in 0..n
  <2> SUFFICES ASSUME NEW H \in Tosses(n) PROVE IsFiniteSet(H) /\ Cardinality(H) \in 0..n
    OBVIOUS
  <2> DEFINE S == 1..n
  <2>1. H \in SUBSET S
    BY DEF Tosses
  <2> HIDE DEF S
  <2>2. IsFiniteSet(H) /\ Cardinality(H) <= Cardinality(S) /\ Cardinality(H) \in Nat
    BY <1>1, <2>1, FS_Subset, FS_CardinalityType DEF S
  <2>3. QED BY <1>1, <2>2 DEF S
<1>6. QED BY <1>1, <1>2, <1>3, <1>4, <1>5

\* The sum of the binomial coefficients up to k counts the tosses with at most k heads.
LEMMA TailIsTosses ==
  ASSUME NEW n \in Nat, NEW k \in 0..n
  PROVE  LowerTail(n, k) = Cardinality(FewHeads(n, k))
<1> DEFINE S == 0..k
           T == FewHeads(n, k)
           class == [H \in T |-> Cardinality(H)]
           counts == [i \in S |-> choose(n, i)]
           Adds(it) == it = [s \in SUBSET S |-> IF s = {} THEN 0
                               ELSE choose(n, CHOOSE i \in s : TRUE) + it[s \ {CHOOSE i \in s : TRUE}]]
<1>1. IsFiniteSet(S) /\ IsFiniteSet(T)
  <2>1. k \in Nat /\ T \subseteq Tosses(n)
    BY DEF FewHeads
  <2> HIDE DEF T
  <2>2. IsFiniteSet(T)
    BY <2>1, TossesAreFinite, FS_Subset
  <2>3. QED BY <2>1, <2>2, FS_Interval
<1>2. \A H \in T : class[H] \in S
  BY TossesAreFinite DEF FewHeads
<1>3. \A i \in S : counts[i] = Cardinality({H \in T : class[H] = i})
  <2> SUFFICES ASSUME NEW i \in S PROVE choose(n, i) = Cardinality({H \in T : class[H] = i})
    OBVIOUS
  <2>1. {H \in T : class[H] = i} = kSubset(i, 1..n)
    <3>1. \A H \in T : class[H] = i <=> Cardinality(H) = i
      OBVIOUS
    <3>2. \A H \in Tosses(n) : Cardinality(H) = i => H \in T
      BY DEF FewHeads
    <3>3. \A H \in T : H \in Tosses(n)
      BY DEF FewHeads
    <3> HIDE DEF T, class
    <3>4. QED BY <3>1, <3>2, <3>3 DEF kSubset, Tosses
  <2>2. Cardinality(kSubset(i, 1..n)) = choose(n, i)
    <3> DEFINE U == 1..n
    <3>1. IsFiniteSet(U) /\ Cardinality(U) = n /\ i \in 0..n
      BY TossesAreFinite
    <3> HIDE DEF U
    <3>2. i \in 0..Cardinality(U)
      BY <3>1
    <3>3. Cardinality(kSubset(i, U)) = choose(Cardinality(U), i)
      BY <3>1, <3>2, SubsetsAreChosen
    <3>4. QED BY <3>1, <3>3 DEF U
  <2>3. QED BY <2>1, <2>2
<1>4. \A it : Adds(it) <=> Unrolled(counts, S, it)
  <2>1. \A s \in SUBSET S : s # {} =>
          choose(n, CHOOSE i \in s : TRUE) = counts[CHOOSE i \in s : TRUE]
    <3> SUFFICES ASSUME NEW s \in SUBSET S, s # {}
                 PROVE  choose(n, CHOOSE i \in s : TRUE) = counts[CHOOSE i \in s : TRUE]
      OBVIOUS
    <3> DEFINE x == CHOOSE i \in s : TRUE
    <3>1. x \in S
      OBVIOUS
    <3> HIDE DEF x
    <3>2. choose(n, x) = counts[x]
      BY <3>1
    <3>3. QED BY <3>2 DEF x
  <2> HIDE DEF counts, S
  <2>2. \A it : [s \in SUBSET S |-> IF s = {} THEN 0
                  ELSE choose(n, CHOOSE i \in s : TRUE) + it[s \ {CHOOSE i \in s : TRUE}]]
              = [s \in SUBSET S |-> IF s = {} THEN 0
                  ELSE counts[CHOOSE x \in s : TRUE] + it[s \ {CHOOSE x \in s : TRUE}]]
    BY <2>1
  <2> SUFFICES ASSUME NEW it PROVE Adds(it) <=> Unrolled(counts, S, it)
    OBVIOUS
  <2>3. [s \in SUBSET S |-> IF s = {} THEN 0
                  ELSE choose(n, CHOOSE i \in s : TRUE) + it[s \ {CHOOSE i \in s : TRUE}]]
              = [s \in SUBSET S |-> IF s = {} THEN 0
                  ELSE counts[CHOOSE x \in s : TRUE] + it[s \ {CHOOSE x \in s : TRUE}]]
    BY <2>2
  <2> HIDE <2>1, <2>2
  <2>4. QED BY ONLY <2>3 DEF Unrolled, Adds
<1> HIDE DEF S, T, class, counts, Adds
<1>5. Sums(counts, S, T)
  <2>1. ClassesOf(counts, S, T, class)
    BY <1>2, <1>3 DEF ClassesOf
  <2>2. QED BY ONLY <1>1, <2>1, SumsOfCounts
<1>6. (\E it : Adds(it)) /\ \A it : Adds(it) => it[S] = Cardinality(T)
  BY <1>4, <1>5 DEF Sums
<1> HIDE <1>4, <1>5
<1>7. \E it : Adds(it) /\ FoldSet(LAMBDA i, acc : choose(n, i) + acc, 0, S) = it[S]
  <2> USE DEF Adds
  <2> SUFFICES ASSUME NEW g, Adds(g)
               PROVE  \E it : Adds(it) /\ FoldSet(LAMBDA i, acc : choose(n, i) + acc, 0, S) = it[S]
    BY <1>6
  <2>1. QED BY DEF FoldSet, MapThenFoldSet
<1>8. FoldSet(LAMBDA i, acc : choose(n, i) + acc, 0, S) = Cardinality(T)
  BY <1>6, <1>7
<1>9. QED BY <1>8 DEF LowerTail, S, T

\* Heads and tails are alike.
LEMMA FewHeadsFewTails ==
  ASSUME NEW n \in Nat, NEW k \in 0..n
  PROVE  LET few == FewHeads(n, k)
             many == {H \in Tosses(n) : n - Cardinality(H) <= k}
         IN  /\ IsFiniteSet(few) /\ IsFiniteSet(many)
             /\ Cardinality(few) \in Nat /\ Cardinality(many) = Cardinality(few)
<1> DEFINE few == FewHeads(n, k)
           many == {H \in Tosses(n) : n - Cardinality(H) <= k}
           U == 1..n
           f == [H \in few |-> U \ H]
<1>1. IsFiniteSet(few) /\ IsFiniteSet(many)
  <2>1. few \subseteq Tosses(n) /\ many \subseteq Tosses(n)
    BY DEF FewHeads
  <2> HIDE DEF few, many
  <2>2. QED BY <2>1, TossesAreFinite, FS_Subset
<1>2. ASSUME NEW H \in Tosses(n)
      PROVE  U \ H \in Tosses(n) /\ Cardinality(U \ H) = n - Cardinality(H) /\ U \ (U \ H) = H
  <2>1. H \subseteq U /\ U \cap H = H /\ U \ H \in Tosses(n) /\ U \ (U \ H) = H
    BY DEF Tosses
  <2>2. IsFiniteSet(U) /\ Cardinality(U) = n
    BY TossesAreFinite
  <2> HIDE DEF U
  <2>3. Cardinality(U \ H) = Cardinality(U) - Cardinality(U \cap H)
    BY <2>2, FS_Difference
  <2>4. QED BY <2>1, <2>2, <2>3
<1>3. \A H \in Tosses(n) : Cardinality(H) \in 0..n
  BY TossesAreFinite
<1> HIDE DEF U
<1>4. \A H \in few : f[H] \in many
  <2> SUFFICES ASSUME NEW H \in few PROVE U \ H \in many
    OBVIOUS
  <2>1. H \in Tosses(n) /\ Cardinality(H) <= k /\ Cardinality(H) \in Int
    BY <1>3 DEF FewHeads
  <2>2. n - (n - Cardinality(H)) <= k
    BY <2>1
  <2>3. QED BY <1>2, <2>1, <2>2
<1>5. \A H \in many : U \ H \in few /\ f[U \ H] = H
  <2> SUFFICES ASSUME NEW H \in many PROVE U \ H \in few /\ f[U \ H] = H
    OBVIOUS
  <2>1. H \in Tosses(n) /\ n - Cardinality(H) <= k
    OBVIOUS
  <2>2. U \ H \in few
    BY <1>2, <2>1 DEF FewHeads
  <2>3. QED BY <1>2, <2>1, <2>2
<1>6. \A H, I \in few : f[H] = f[I] => H = I
  <2>1. \A H \in few : H \in Tosses(n)
    BY DEF FewHeads
  <2>2. \A H \in few : U \ f[H] = H
    BY <1>2, <2>1
  <2> HIDE DEF f, few
  <2>3. QED BY <2>2
<1>7. f \in [few -> many]
  <2>1. f = [H \in few |-> f[H]]
    OBVIOUS
  <2> HIDE DEF f, few, many
  <2>2. QED BY <1>4, <2>1
<1> HIDE DEF f, few, many
<1>8. f \in Bijection(few, many)
  BY <1>5, <1>6, <1>7 DEF Bijection, Injection, Surjection, IsInjective
<1>9. Cardinality(many) = Cardinality(few)
  BY <1>1, <1>8, FS_Bijection DEF ExistsBijection
<1>10. QED BY <1>1, <1>9, FS_CardinalityType DEF few, many

\* The tosses that are as lopsided as k of n are those of the two tails, unless k is one half.
LEMMA TwoTails ==
  ASSUME NEW n \in Nat, NEW k \in 0..n, 2 * k <= n
  PROVE  LET lopsided == {H \in Tosses(n) : Max({Cardinality(H), n - Cardinality(H)}) >= n - k}
         IN  /\ LowerTail(n, k) \in Nat
             /\ Cardinality(lopsided) <= Cardinality(Tosses(n))
             /\ 2 * k < n => Cardinality(lopsided) = 2 * LowerTail(n, k)
             /\ 2 * k = n => lopsided = Tosses(n) /\ 2 * LowerTail(n, k) >= Cardinality(Tosses(n))
<1> DEFINE few == FewHeads(n, k)
           many == {H \in Tosses(n) : n - Cardinality(H) <= k}
           lopsided == {H \in Tosses(n) : Max({Cardinality(H), n - Cardinality(H)}) >= n - k}
<1>1. /\ IsFiniteSet(few) /\ IsFiniteSet(many)
      /\ Cardinality(few) \in Nat /\ Cardinality(many) = Cardinality(few)
      /\ LowerTail(n, k) = Cardinality(few)
  BY FewHeadsFewTails, TailIsTosses
<1>2. \A H \in Tosses(n) : Cardinality(H) \in 0..n
  BY TossesAreFinite
<1>3. \A H \in Tosses(n) : (H \in few <=> Cardinality(H) <= k) /\ (H \in many <=> n - Cardinality(H) <= k)
  BY DEF FewHeads
<1>4. few \subseteq Tosses(n) /\ many \subseteq Tosses(n) /\ lopsided \subseteq Tosses(n)
  BY DEF FewHeads
<1>5. ASSUME NEW H \in Tosses(n) PROVE H \in lopsided <=> H \in few \/ H \in many
  <2> DEFINE h == Cardinality(H)
             larger == Max({h, n - h})
  <2>1. h \in Int /\ n - h \in Int
    BY <1>2
  <2>2. H \in lopsided <=> larger >= n - k
    OBVIOUS
  <2> HIDE DEF h, lopsided, few, many
  <2>3. larger \in {h, n - h} /\ larger >= h /\ larger >= n - h
    BY <2>1, LargerAndSmaller
  <2> HIDE DEF larger
  <2>4. larger >= n - k <=> n - h <= k \/ h <= k
    BY <2>1, <2>3
  <2>5. QED BY <1>3, <2>2, <2>4 DEF h
<1> HIDE DEF few, many, lopsided
<1>6. lopsided = few \cup many
  BY <1>4, <1>5
<1>7. /\ IsFiniteSet(few \cap many) /\ Cardinality(few \cap many) \in Nat
      /\ Cardinality(lopsided) = Cardinality(few) + Cardinality(many) - Cardinality(few \cap many)
  BY <1>1, <1>6, FS_Union, FS_Intersection, FS_CardinalityType
<1>8. Cardinality(lopsided) <= Cardinality(Tosses(n))
  BY <1>4, TossesAreFinite, FS_Subset
<1>9. ASSUME 2 * k < n PROVE Cardinality(lopsided) = 2 * LowerTail(n, k)
  <2>1. few \cap many = {}
    <3> SUFFICES ASSUME NEW H \in few \cap many PROVE FALSE
      OBVIOUS
    <3>1. Cardinality(H) \in 0..n /\ Cardinality(H) <= k /\ n - Cardinality(H) <= k
      BY <1>2, <1>3, <1>4
    <3>2. QED BY <1>9, <3>1
  <2>2. Cardinality(few \cap many) = 0
    BY <2>1, FS_EmptySet
  <2>3. QED BY <1>1, <1>7, <2>2
<1>10. ASSUME 2 * k = n
       PROVE  lopsided = Tosses(n) /\ 2 * LowerTail(n, k) >= Cardinality(Tosses(n))
  <2>1. \A H \in Tosses(n) : H \in few \/ H \in many
    BY <1>2, <1>3, <1>10
  <2>2. lopsided = Tosses(n)
    BY <1>4, <1>6, <2>1
  <2>3. QED BY <1>1, <1>7, <2>2
<1>11. QED BY <1>1, <1>8, <1>9, <1>10 DEF lopsided

\* The p of McNemar's test is the share of the tosses that are as lopsided as what was seen.
LEMMA McNemarsTest ==
  ASSUME NEW B, NEW D, Judgeable(B), Judgeable(D)
  PROVE  Same(McNemar(B, D).p, ShareOfTosses(McNemar(B, D)))
<1> DEFINE m == McNemar(B, D)
           a == m.baseOnly
           b == m.dpoOnly
           n == a + b
           k == Min({a, b})
           tail == LowerTail(n, k)
           all == 2 ^ n
           lopsided == {H \in Tosses(n) : Max({Cardinality(H), n - Cardinality(H)}) >= n - k}
<1>1. a \in Nat /\ b \in Nat
  <2> DEFINE X == {p \in Common(B, D) : Solved(B, p) /\ ~Solved(D, p)}
             Y == {p \in Common(B, D) : Solved(D, p) /\ ~Solved(B, p)}
  <2>1. IsFiniteSet(GroupByProblem(B)) /\ X \subseteq GroupByProblem(B) /\ Y \subseteq GroupByProblem(B)
    BY PartsOfRecords DEF Paired, Common
  <2>2. a = Cardinality(X) /\ b = Cardinality(Y)
    BY DEF McNemar
  <2> HIDE DEF X, Y, a, b
  <2>3. QED BY <2>1, <2>2, FS_Subset, FS_CardinalityType
<1>2. m.p = IF n = 0 \/ AtLeast(<<2 * tail, all>>, <<1, 1>>) THEN <<1, 1>> ELSE <<2 * tail, all>>
  BY DEF McNemar
<1> HIDE DEF m
<1>3. Max({a, b}) = n - k /\ k \in 0..n /\ 2 * k <= n
  <2> DEFINE larger == Max({a, b})
  <2> HIDE DEF a, b
  <2>1. /\ larger \in {a, b} /\ larger >= a /\ larger >= b
        /\ k \in {a, b} /\ k <= a /\ k <= b
    BY <1>1, LargerAndSmaller
  <2> HIDE DEF larger, k
  <2>2. larger = n - k /\ k \in 0..n /\ 2 * k <= n
    BY <1>1, <2>1
  <2>3. QED BY <2>2 DEF larger
<1>4. ShareOfTosses(m) = Share(lopsided, Tosses(n))
  BY <1>3 DEF ShareOfTosses, Tosses
<1>5. n \in Nat
  BY <1>1
<1> HIDE DEF a, b, n, k
<1>6. all = Cardinality(Tosses(n)) /\ Cardinality(Tosses(n)) \in Nat \ {0} /\ Tosses(n) # {}
  BY <1>5, TossesAreFinite, FS_EmptySet
<1>7. /\ tail \in Nat
      /\ Cardinality(lopsided) <= Cardinality(Tosses(n))
      /\ 2 * k < n => Cardinality(lopsided) = 2 * tail
      /\ 2 * k = n => lopsided = Tosses(n) /\ 2 * tail >= Cardinality(Tosses(n))
  BY <1>3, <1>5, TwoTails
<1> HIDE DEF tail, all, lopsided
<1>8. ShareOfTosses(m) = <<Cardinality(lopsided), all>>
  BY <1>4, <1>6 DEF Share
<1>9. Same(m.p, ShareOfTosses(m))
  <2>1. CASE 2 * k = n
    <3>1. ShareOfTosses(m) = <<all, all>> /\ m.p = <<1, 1>>
      BY <1>2, <1>6, <1>7, <1>8, <2>1 DEF AtLeast
    <3>2. QED BY <1>6, <3>1 DEF Same
  <2>2. CASE 2 * k < n
    <3>1. n # 0 /\ ShareOfTosses(m) = <<2 * tail, all>> /\ 2 * tail <= all
      BY <1>3, <1>5, <1>6, <1>7, <1>8, <2>2
    <3>2. CASE AtLeast(<<2 * tail, all>>, <<1, 1>>)
      <4>1. m.p = <<1, 1>> /\ 2 * tail >= all
        BY <1>2, <1>6, <1>7, <3>2 DEF AtLeast
      <4>2. QED BY <1>6, <1>7, <3>1, <4>1 DEF Same
    <3>3. CASE ~AtLeast(<<2 * tail, all>>, <<1, 1>>)
      <4>1. m.p = <<2 * tail, all>>
        BY <1>2, <3>1, <3>3
      <4>2. QED BY <3>1, <4>1 DEF Same
    <3>4. QED BY <3>2, <3>3
  <2>3. QED BY <1>3, <1>5, <2>1, <2>2
<1>10. QED BY <1>9 DEF m

-----------------------------------------------------------------------------
(* The verdict, and the whole. *)

\* What is at least y and something more is at least y.
LEMMA PlusIsMore ==
  ASSUME NEW x \in Fractions, NEW y \in Fractions, NEW i \in Nat, AtLeast(x, Plus(y, <<i, 100>>))
  PROVE  AtLeast(x, y)
<1>1. \E a, c \in Nat : \E b, d \in Nat \ {0} : x = <<a, b>> /\ y = <<c, d>>
  BY DEF Fractions
<1>2. PICK a \in Nat, c \in Nat, b \in Nat \ {0}, d \in Nat \ {0} : x = <<a, b>> /\ y = <<c, d>>
  BY <1>1
<1>3. a * (d * 100) >= (c * 100 + i * d) * b
  BY <1>2 DEF AtLeast, Plus
<1> DEFINE ad == a * d
           cb == c * b
           idb == (i * d) * b
<1>4. ad \in Nat /\ cb \in Nat /\ idb \in Nat
  <2>1. i * d \in Nat
    OBVIOUS
  <2>2. QED BY <2>1
<1>5. a * (d * 100) = ad * 100 /\ (c * 100 + i * d) * b = cb * 100 + idb
  <2> DEFINE p == c * 100
             q == i * d
  <2>1. p \in Int /\ q \in Int
    OBVIOUS
  <2>2. a * (d * 100) = (a * d) * 100
    BY Reorder
  <2>3. p * b = cb * 100
    BY Reorder
  <2> HIDE DEF p, q
  <2>4. (p + q) * b = p * b + q * b
    BY <2>1, Reorder
  <2>5. QED BY <2>2, <2>3, <2>4 DEF p, q
<1> HIDE DEF ad, cb, idb
<1>6. ad >= cb
  BY <1>3, <1>4, <1>5
<1>7. QED BY <1>2, <1>6 DEF AtLeast, ad, cb

LEMMA SuccessIsMore ==
  ASSUME PairedInv, NEW e \in EvaluationRuns, evaluations[e] # None,
         Judgeable(Judged(e, "base")), Judgeable(Judged(e, "dpo")),
         SuccessCriteria(Summary(e, "base"), Summary(e, "dpo"), TRUE, CriteriaOf(e))
  PROVE  AtLeast(MeanPassAtK(Judged(e, "dpo"), 1), MeanPassAtK(Judged(e, "base"), 1))
<1> DEFINE r == evaluations[e]
           base == Summary(e, "base")
           dpo == Summary(e, "dpo")
           i == CriteriaOf(e).minimumImprovement
           x == MeanPassAtK(Judged(e, "dpo"), 1)
           y == MeanPassAtK(Judged(e, "base"), 1)
<1>1. i \in Nat
  BY DEF PairedInv, SoundEvaluation, Configured, CriteriaOf, DefaultCriteria
<1>2. 1 \in DOMAIN base.passAtK /\ AtLeast(dpo.passAtK[1], Plus(base.passAtK[1], <<i, 100>>))
  <2> HIDE DEF base, dpo
  <2>1. QED BY DEF SuccessCriteria, base, dpo
<1>3. 1 \in r.ks
  BY <1>2 DEF Summary, MetricsSummary
<1>4. dpo.passAtK[1] = x /\ base.passAtK[1] = y
  BY <1>3 DEF Summary, MetricsSummary
<1>5. x \in Fractions /\ y \in Fractions
  <2>1. \A E : Judgeable(E) => MeanPassAtK(E, 1) \in Fractions
    <3> SUFFICES ASSUME NEW E, Judgeable(E) PROVE MeanPassAtK(E, 1) \in Fractions
      OBVIOUS
    <3> DEFINE one == 1
    <3>1. one \in Nat \ {0}
      OBVIOUS
    <3> HIDE DEF one
    <3>2. MeanPassAtK(E, one) \in Fractions
      BY <3>1, MeanPassIsMeanShare
    <3>3. QED BY <3>2 DEF one
  <2>2. QED BY <2>1
<1> HIDE DEF r, base, dpo, i, x, y
<1>6. AtLeast(x, y)
  BY <1>1, <1>2, <1>4, <1>5, PlusIsMore
<1>7. QED BY <1>6 DEF x, y

LEMMA NumbersFollow ==
  ASSUME PairedInv
  PROVE  NumbersAgree
<1> SUFFICES ASSUME NEW e \in EvaluationRuns, evaluations[e] # None
             PROVE  LET r == evaluations[e]
                        B == Judged(e, "base")
                        D == Judged(e, "dpo")
                        c == Compare(B, D)
                    IN  /\ \A v \in ModelVariants :
                             LET E == Judged(e, v)
                                 f == FailureAnalysis(Gen(e, v), E)
                             IN  /\ \A k \in r.ks :
                                      Same(MeanPassAtK(E, k),
                                           MeanOf([p \in Eligible(E, k) |-> ShareOfSubsets(E, p, k)]))
                                 /\ Total(TestFailureDistribution(E)) = Cardinality(Valid(E))
                                 /\ Total(f) =
                                      Cardinality(Gen(e, v) \ Generated(Gen(e, v)))
                                        + Cardinality({j \in E : j.status # "passed"})
                        /\ Cardinality(c[1]) - Cardinality(c[-1]) =
                             Cardinality({p \in Paired(B, D) : Solved(D, p)})
                               - Cardinality({p \in Paired(B, D) : Solved(B, p)})
                        /\ Same(McNemar(B, D).p, ShareOfTosses(McNemar(B, D)))
                        /\ SuccessCriteria(Summary(e, "base"), Summary(e, "dpo"), TRUE, CriteriaOf(e)) =>
                             AtLeast(MeanPassAtK(D, 1), MeanPassAtK(B, 1))
  BY DEF NumbersAgree
<1> DEFINE r == evaluations[e]
           B == Judged(e, "base")
           D == Judged(e, "dpo")
<1>1. \A v \in ModelVariants : IsFiniteSet(Gen(e, v)) /\ Judgeable(Judged(e, v))
  BY RecordsMatch DEF Matched
<1>2. Judgeable(B) /\ Judgeable(D)
  BY <1>1 DEF ModelVariants
<1>3. \A k \in r.ks : k \in Nat \ {0}
  BY DEF PairedInv, SoundEvaluation, Configured
<1>4. ASSUME NEW v \in ModelVariants
      PROVE  LET E == Judged(e, v)
                 f == FailureAnalysis(Gen(e, v), E)
             IN  /\ \A k \in r.ks :
                      Same(MeanPassAtK(E, k),
                           MeanOf([p \in Eligible(E, k) |-> ShareOfSubsets(E, p, k)]))
                 /\ Total(TestFailureDistribution(E)) = Cardinality(Valid(E))
                 /\ Total(f) =
                      Cardinality(Gen(e, v) \ Generated(Gen(e, v)))
                        + Cardinality({j \in E : j.status # "passed"})
  <2> DEFINE E == Judged(e, v)
             G == Gen(e, v)
  <2>1. IsFiniteSet(G) /\ Judgeable(E)
    BY <1>1
  <2> HIDE DEF E, G, r
  <2>2. \A k \in r.ks :
          Same(MeanPassAtK(E, k), MeanOf([p \in Eligible(E, k) |-> ShareOfSubsets(E, p, k)]))
    BY <1>3, <2>1, MeanPassIsMeanShare
  <2>3. Total(TestFailureDistribution(E)) = Cardinality(Valid(E))
    BY <2>1, DistributionAddsUp
  <2>4. Total(FailureAnalysis(G, E)) =
          Cardinality(G \ Generated(G)) + Cardinality({j \in E : j.status # "passed"})
    BY <2>1, FailuresAddUp
  <2>5. QED BY <2>2, <2>3, <2>4 DEF E, G
<1>5. LET c == Compare(B, D) IN
      Cardinality(c[1]) - Cardinality(c[-1]) =
        Cardinality({p \in Paired(B, D) : Solved(D, p)})
          - Cardinality({p \in Paired(B, D) : Solved(B, p)})
  <2> HIDE DEF B, D
  <2>1. QED BY <1>2, WinsLessLosses
<1>6. Same(McNemar(B, D).p, ShareOfTosses(McNemar(B, D)))
  <2> HIDE DEF B, D
  <2>1. QED BY <1>2, McNemarsTest
<1>7. SuccessCriteria(Summary(e, "base"), Summary(e, "dpo"), TRUE, CriteriaOf(e)) =>
        AtLeast(MeanPassAtK(D, 1), MeanPassAtK(B, 1))
  BY <1>2, SuccessIsMore
<1>8. QED BY <1>4, <1>5, <1>6, <1>7

\* In every reachable state of the commands, over whatever records a run has on disk (finished,
\* interrupted, resumed): pass@k is the share of the k-subsets of samples that hold a correct
\* one, McNemar's p the share of coin tosses as lopsided as what was seen, wins less losses the
\* gain in solved problems, the breakdowns count every record once, and after a
\* success the pass@1 of the DPO model is not below that of the base.
THEOREM NumbersAlwaysAgree == ModelsSpec => []NumbersAgree
<1>1. ModelsInit => IInv /\ PairedInv
  BY InitialInv, PairedInitial
<1>2. IInv /\ PairedInv /\ [ModelsNext]_mvars => (IInv /\ PairedInv)'
  BY InvStep, PairedStep DEF IInv
<1>3. PairedInv => NumbersAgree
  BY NumbersFollow
<1>4. QED BY <1>1, <1>2, <1>3, PTL DEF ModelsSpec
=============================================================================
