------------------------ MODULE RequestMetricsProofs ------------------------
(***************************************************************************)
(* That the numbers of RequestMetrics say what happened, for any number of *)
(* requests, tenants and lost connections.                                 *)
(*                                                                         *)
(* MetricsInv is inductive: every number is the size of a set of requests. *)
(* A step moves one request into a set or out of it, and a number, or one  *)
(* series of a sum, by one.  The sums are SumFunction's, so the first part *)
(* proves what that is: that it changes with one term by as much.          *)
(***************************************************************************)
EXTENDS RequestMetrics, FiniteSetTheorems, WellFoundedInduction, TLAPS

-----------------------------------------------------------------------------
(* Sums.                                                                   *)

\* Induction over the naturals: a set of them has a least one.
LEMMA LeastNatural ==
    ASSUME NEW T, T \subseteq Nat, T # {}
    PROVE  \E n \in T : \A m \in T : n <= m
<1> DEFINE Less == {mn \in Nat \X Nat : mn[1] < mn[2]}
<1>1. IsWellFoundedOn(Less, Nat)
  BY NatLessThanWellFounded, Zenon DEF OpToRel
<1>2. PICK n \in T : \A m \in T : ~(<<m, n>> \in Less)
  <2> HIDE DEF Less
  <2> QED
    BY <1>1, WFMin
<1>3. ASSUME NEW m \in T PROVE n <= m
  <2>1. m \in Nat /\ n \in Nat
    OBVIOUS
  <2>2. ~(<<m, n>> \in Less)
    BY <1>2
  <2>3. ~(m < n)
    BY <2>1, <2>2
  <2> QED
    BY <2>1, <2>3
<1> QED
  BY <1>3

\* Induction over the subsets of a finite set: among any of them there is one
\* that is no longer among them with any element less.
LEMMA SmallestSubset ==
    ASSUME NEW S, IsFiniteSet(S), NEW B, B \subseteq SUBSET S, B # {}
    PROVE  \E s \in B : \A x \in s : s \ {x} \notin B
<1> DEFINE sizes == {Cardinality(s) : s \in B}
<1>1. \A s \in B : IsFiniteSet(s) /\ Cardinality(s) \in Nat
  BY FS_Subset, FS_CardinalityType
<1>2. PICK n \in sizes : \A m \in sizes : n <= m
  <2>1. sizes \subseteq Nat /\ sizes # {}
    BY <1>1
  <2> HIDE DEF sizes
  <2> QED
    BY <2>1, LeastNatural
<1>3. PICK s \in B : n = Cardinality(s)
  BY <1>2
<1>4. ASSUME NEW x \in s, s \ {x} \in B PROVE FALSE
  <2>1. Cardinality(s \ {x}) = n - 1
    BY <1>1, <1>3, FS_RemoveElement
  <2>2. n - 1 \in sizes /\ n \in Nat
    BY <1>1, <1>3, <1>4, <2>1
  <2> QED
    BY <1>2, <2>2
<1> QED
  BY <1>3, <1>4

One(s) == CHOOSE x \in s : TRUE

\* What SumFunctionOnSet sums with: g[s] is the sum of f over s, for s in SS.
Sums(f, SS, g) ==
    g = [s \in SS |-> IF s = {} THEN 0 ELSE f[One(s)] + g[s \ {One(s)}]]

LEMMA SumUnfolded ==
    ASSUME NEW f, NEW S
    PROVE  SumFunctionOnSet(f, S) = (CHOOSE g : Sums(f, SUBSET S, g))[S]
BY Zenon DEF SumFunctionOnSet, FoldFunctionOnSet, MapThenFoldSet, Sums, One

LEMMA OneIsIn == ASSUME NEW s, s # {} PROVE One(s) \in s
BY DEF One

\* Such a g there is, for a finite set: the subsets of up to n elements have one
\* for every n.
LEMMA SumsExist ==
    ASSUME NEW f, NEW S, IsFiniteSet(S)
    PROVE  \E g : Sums(f, SUBSET S, g)
<1> DEFINE Upto(n) == {s \in SUBSET S : Cardinality(s) <= n}
           Good == {n \in Nat : \E g : Sums(f, Upto(n), g)}
<1>1. \A s \in SUBSET S : /\ IsFiniteSet(s) /\ Cardinality(s) \in Nat
                          /\ Cardinality(s) <= Cardinality(S)
                          /\ Cardinality(s) = 0 <=> s = {}
                          /\ \A x \in s : Cardinality(s \ {x}) = Cardinality(s) - 1
  BY FS_Subset, FS_CardinalityType, FS_EmptySet, FS_RemoveElement
<1>2. 0 \in Good
  <2>1. Upto(0) = {{}}
    BY <1>1
  <2>2. Sums(f, Upto(0), [s \in Upto(0) |-> 0])
    BY <2>1 DEF Sums
  <2> QED
    BY <2>2
<1>3. ASSUME NEW n \in Nat, n \in Good PROVE n + 1 \in Good
  <2>1. PICK g : Sums(f, Upto(n), g)
    BY <1>3
  <2> DEFINE h == [s \in Upto(n + 1) |-> IF s = {} THEN 0 ELSE f[One(s)] + g[s \ {One(s)}]]
  <2>2. ASSUME NEW s \in Upto(n + 1), s # {} PROVE s \ {One(s)} \in Upto(n)
    BY <1>1, <2>2, OneIsIn
  <2>3. ASSUME NEW s \in Upto(n) PROVE h[s] = g[s]
    <3>1. s \in Upto(n + 1)
      BY <1>1
    <3>2. g[s] = IF s = {} THEN 0 ELSE f[One(s)] + g[s \ {One(s)}]
      BY <2>1 DEF Sums
    <3> QED
      BY <3>1, <3>2
  <2>4. Sums(f, Upto(n + 1), h)
    BY <2>2, <2>3 DEF Sums
  <2> HIDE DEF h
  <2> QED
    BY <2>4
<1>4. \A n \in Nat : n \in Good
  <2> DEFINE Bad == Nat \ Good
  <2> SUFFICES ASSUME Bad # {} PROVE FALSE
    OBVIOUS
  <2> HIDE DEF Good
  <2>1. PICK n \in Bad : \A m \in Bad : n <= m
    BY LeastNatural
  <2>2. n # 0 /\ n - 1 \in Nat /\ n \in Nat
    BY <1>2
  <2>3. n - 1 \in Good
    BY <2>1, <2>2
  <2> QED
    BY <1>3, <2>2, <2>3
<1>5. Cardinality(S) \in Nat /\ Upto(Cardinality(S)) = SUBSET S
  BY <1>1
<1> QED
  BY <1>4, <1>5

\* What such a g is, at a set.
LEMMA SumAt ==
    ASSUME NEW f, NEW S, NEW g, Sums(f, SUBSET S, g), NEW s \in SUBSET S
    PROVE  /\ s = {} => g[s] = 0
           /\ s # {} => /\ One(s) \in s
                        /\ g[s] = f[One(s)] + g[s \ {One(s)}]
BY OneIsIn DEF Sums

LEMMA SumsAreIntegers ==
    ASSUME NEW S, IsFiniteSet(S), NEW f \in [S -> Int], NEW g, Sums(f, SUBSET S, g)
    PROVE  \A s \in SUBSET S : g[s] \in Int
<1> DEFINE Bad == {s \in SUBSET S : g[s] \notin Int}
<1> SUFFICES ASSUME Bad # {} PROVE FALSE
  OBVIOUS
<1>1. PICK s \in Bad : \A x \in s : s \ {x} \notin Bad
  <2>1. Bad \subseteq SUBSET S
    OBVIOUS
  <2> HIDE DEF Bad
  <2> QED
    BY <2>1, SmallestSubset
<1>2. s \in SUBSET S /\ g[s] \notin Int
  OBVIOUS
<1>3. s # {}
  <2>1. s = {} => g[s] = 0
    <3> HIDE DEF Bad
    <3> QED
      BY <1>2, SumAt
  <2> QED
    BY <1>2, <2>1
<1>4. One(s) \in s /\ g[s] = f[One(s)] + g[s \ {One(s)}]
  <2> HIDE DEF Bad
  <2> QED
    BY <1>2, <1>3, SumAt
<1>5. g[s \ {One(s)}] \in Int
  BY <1>1, <1>4
<1> QED
  BY <1>2, <1>4, <1>5

\* The order of the terms does not matter.
Commutes(f, S, g) == \A s \in SUBSET S : \A x \in s : g[s] = f[x] + g[s \ {x}]

LEMMA SumByAnyElement ==
    ASSUME NEW S, IsFiniteSet(S), NEW f \in [S -> Int], NEW g, Sums(f, SUBSET S, g)
    PROVE  Commutes(f, S, g)
<1> DEFINE Bad == {u \in SUBSET S : \E e \in u : g[u] # f[e] + g[u \ {e}]}
<1> SUFFICES ASSUME Bad # {} PROVE FALSE
  BY DEF Commutes
<1>1. PICK u \in Bad : \A e \in u : u \ {e} \notin Bad
  <2>1. Bad \subseteq SUBSET S
    OBVIOUS
  <2> HIDE DEF Bad
  <2> QED
    BY <2>1, SmallestSubset
<1>2. PICK e \in u : g[u] # f[e] + g[u \ {e}]
  OBVIOUS
<1> DEFINE y == One(u)
           rest == (u \ {e}) \ {y}
<1>3. y \in u /\ g[u] = f[y] + g[u \ {y}]
  <2>1. u \in SUBSET S /\ u # {}
    OBVIOUS
  <2>2. One(u) \in u
    BY <2>1, OneIsIn
  <2> HIDE DEF Bad
  <2>3. g[u] = f[One(u)] + g[u \ {One(u)}]
    BY <2>1, SumAt
  <2> QED
    BY <2>2, <2>3
<1>4. e # y
  BY <1>2, <1>3
<1> HIDE DEF y
<1>5. g[u \ {y}] = f[e] + g[rest]
  <2>1. u \ {y} \notin Bad /\ e \in u \ {y} /\ u \ {y} \in SUBSET S
    BY <1>1, <1>3, <1>4
  <2>2. (u \ {y}) \ {e} = rest
    OBVIOUS
  <2> QED
    BY <2>1, <2>2
<1>6. g[u \ {e}] = f[y] + g[rest]
  <2>1. u \ {e} \notin Bad /\ y \in u \ {e} /\ u \ {e} \in SUBSET S
    BY <1>1, <1>2, <1>3, <1>4
  <2> QED
    BY <2>1
<1>7. rest \in SUBSET S /\ f[e] \in Int /\ f[y] \in Int
  BY <1>3
<1>8. g[rest] \in Int
  BY <1>7, SumsAreIntegers
<1> HIDE DEF rest
<1> QED
  BY <1>2, <1>3, <1>5, <1>6, <1>7, <1>8

\* The sum over s is of what f is on s.
LEMMA SumsAgree ==
    ASSUME NEW S, IsFiniteSet(S), NEW f, NEW g, Sums(f, SUBSET S, g),
           NEW h, NEW k, Sums(h, SUBSET S, k)
    PROVE  \A s \in SUBSET S : (\A x \in s : f[x] = h[x]) => g[s] = k[s]
<1> DEFINE Bad == {s \in SUBSET S : (\A x \in s : f[x] = h[x]) /\ g[s] # k[s]}
<1> SUFFICES ASSUME Bad # {} PROVE FALSE
  OBVIOUS
<1>1. PICK s \in Bad : \A x \in s : s \ {x} \notin Bad
  <2>1. Bad \subseteq SUBSET S
    OBVIOUS
  <2> HIDE DEF Bad
  <2> QED
    BY <2>1, SmallestSubset
<1>2. s \in SUBSET S /\ s # {}
  <2>1. s \in SUBSET S /\ g[s] # k[s]
    OBVIOUS
  <2> HIDE DEF Bad
  <2> QED
    BY <2>1, SumAt
<1>3. One(s) \in s /\ g[s] = f[One(s)] + g[s \ {One(s)}] /\ k[s] = h[One(s)] + k[s \ {One(s)}]
  <2> HIDE DEF Bad
  <2> QED
    BY <1>2, SumAt
<1>4. g[s \ {One(s)}] = k[s \ {One(s)}]
  BY <1>1, <1>3
<1> QED
  BY <1>3, <1>4

\* SumFunction is one of these sums, over all that a function is defined on.
LEMMA SumFunctionIsSum ==
    ASSUME NEW S, IsFiniteSet(S), NEW f, DOMAIN f = S
    PROVE  \E g : Sums(f, SUBSET S, g) /\ SumFunction(f) = g[S]
<1> DEFINE g == CHOOSE g : Sums(f, SUBSET S, g)
<1>1. Sums(f, SUBSET S, g)
  <2>1. \E k : Sums(f, SUBSET S, k)
    BY SumsExist
  <2> QED
    BY <2>1
<1>2. SumFunction(f) = g[S]
  BY SumUnfolded, Zenon DEF SumFunction
<1> QED
  BY <1>1, <1>2

LEMMA SumIsInteger ==
    ASSUME NEW S, IsFiniteSet(S), NEW f \in [S -> Int]
    PROVE  SumFunction(f) \in Int
<1>1. PICK g : Sums(f, SUBSET S, g) /\ SumFunction(f) = g[S]
  BY SumFunctionIsSum
<1> QED
  BY <1>1, SumsAreIntegers

LEMMA SumOfZeros ==
    ASSUME NEW S, IsFiniteSet(S)
    PROVE  SumFunction([x \in S |-> 0]) = 0
<1> DEFINE f == [x \in S |-> 0]
<1>1. PICK g : Sums(f, SUBSET S, g) /\ SumFunction(f) = g[S]
  BY SumFunctionIsSum
<1> DEFINE Bad == {s \in SUBSET S : g[s] # 0}
<1> SUFFICES ASSUME Bad # {} PROVE FALSE
  BY <1>1
<1>2. PICK s \in Bad : \A x \in s : s \ {x} \notin Bad
  <2>1. Bad \subseteq SUBSET S
    OBVIOUS
  <2> HIDE DEF Bad
  <2> QED
    BY <2>1, SmallestSubset
<1>3. s # {}
  BY <1>1, SumAt
<1>4. One(s) \in s /\ g[s] = f[One(s)] + g[s \ {One(s)}]
  BY <1>1, <1>3, SumAt
<1>5. g[s \ {One(s)}] = 0
  BY <1>2, <1>4
<1> QED
  BY <1>4, <1>5

LEMMA SumWithout ==
    ASSUME NEW S, IsFiniteSet(S), NEW f \in [S -> Int], NEW g, Sums(f, SUBSET S, g), NEW x \in S
    PROVE  g[S] = f[x] + g[S \ {x}] /\ g[S \ {x}] \in Int
<1>1. S \in SUBSET S /\ S \ {x} \in SUBSET S
  OBVIOUS
<1>2. g[S] = f[x] + g[S \ {x}]
  <2>1. Commutes(f, S, g)
    BY SumByAnyElement
  <2> QED
    BY <1>1, <2>1 DEF Commutes
<1>3. g[S \ {x}] \in Int
  BY <1>1, SumsAreIntegers
<1> QED
  BY <1>2, <1>3

\* A term more or less is as much more or less of the sum.
LEMMA SumOfChanged ==
    ASSUME NEW S, IsFiniteSet(S), NEW f \in [S -> Int], NEW x \in S, NEW d \in Int
    PROVE  SumFunction([f EXCEPT ![x] = @ + d]) = SumFunction(f) + d
<1> DEFINE h == [f EXCEPT ![x] = @ + d]
<1>1. h \in [S -> Int] /\ DOMAIN h = S /\ h[x] = f[x] + d
  OBVIOUS
<1>2. \A y \in S \ {x} : f[y] = h[y]
  OBVIOUS
<1> HIDE DEF h
<1>3. PICK g : Sums(f, SUBSET S, g) /\ SumFunction(f) = g[S]
  BY SumFunctionIsSum
<1>4. PICK k : Sums(h, SUBSET S, k) /\ SumFunction(h) = k[S]
  BY <1>1, SumFunctionIsSum
<1>5. g[S] = f[x] + g[S \ {x}] /\ g[S \ {x}] \in Int
  BY <1>3, SumWithout
<1>6. k[S] = h[x] + k[S \ {x}]
  <2>1. Sums(h, SUBSET S, k)
    BY <1>4
  <2> QED
    BY <1>1, <2>1, SumWithout
<1>7. g[S \ {x}] = k[S \ {x}]
  <2> S \ {x} \in SUBSET S
    OBVIOUS
  <2>1. \A s \in SUBSET S : (\A y \in s : f[y] = h[y]) => g[s] = k[s]
    BY <1>3, <1>4, SumsAgree
  <2> QED
    BY <1>2, <2>1
<1>8. f[x] \in Int
  OBVIOUS
<1>9. SumFunction(h) = SumFunction(f) + d
  BY <1>1, <1>3, <1>4, <1>5, <1>6, <1>7, <1>8
<1> QED
  BY <1>9 DEF h

-----------------------------------------------------------------------------
(* The invariant.                                                          *)

\* The requests a service has counted in, and those it has seen the end of.
Entered(s) ==
    IF s = "gateway" THEN Arrived
    ELSE {r \in Requests : ServiceOf[route[r]] = s /\ backend[r] \notin {"idle", "sent"}}

Ended(s) ==
    IF s = "gateway" THEN {r \in Requests : gateway[r] = "done"}
    ELSE {r \in Requests : ServiceOf[route[r]] = s /\ backend[r] \in {"done", "cut"}}

\* Those its gauge is up for.
Up(s) == Inside(s) \union Abandoned(s)

\* The successes of a route, and those that count under t.
Successes(k) == {r \in Requests : route[r] = k /\ status[r] = "2xx"}
SuccessesUnder(k, t) == {r \in Successes(k) : CountedUnder(r) = t}

ToldFailure == {r \in Requests : told[r] = "5xx"}

Typed ==
    /\ route \in [Requests -> Routes]
    /\ headers \in [Requests -> Headers]
    /\ client \subseteq Requests
    /\ link \subseteq Requests
    /\ gateway \in [Requests -> {"idle", "inside", "waiting", "done", "hung"}]
    /\ backend \in [Requests -> {"idle", "sent", "inside", "handled", "done", "cut"}]
    /\ status \in [Requests -> Answers \union {"none"}]
    /\ told \in [Requests -> Answers \union {"none"}]
    /\ gauge \in [Metered -> [Series -> Int]]
    /\ total \in [Metered -> Nat]
    /\ errors \in [Metered -> Nat]
    /\ clientErrors \in Nat
    /\ kpi \in [Kpis -> [Labels -> Nat]]
    /\ faults \in 0..MaxFaults

\* How far a request is at its two places, and what its client may hear.
Life ==
    \A r \in Requests :
        /\ gateway[r] \in {"idle", "inside"} => backend[r] = "idle"
        /\ gateway[r] = "idle" => r \in client
        /\ told[r] # "none" <=> gateway[r] = "done" /\ r \in client
        /\ status[r] # "none" <=> backend[r] \in {"handled", "done", "cut"}
        /\ told[r] \in {"2xx", "4xx"} =>
               \/ backend[r] = "idle" /\ told[r] = "4xx"
               \/ backend[r] = "done" /\ told[r] = status[r]

FewArrived == IsFiniteSet(Arrived)

Failures ==
    /\ errors["gateway"] = Cardinality(ToldFailure)
    /\ errors["gateway"] <= clientErrors
    /\ clientErrors <= errors["gateway"] + Cardinality(Left)
    /\ clientErrors <= Cardinality(Ended("gateway"))

\* What a service's numbers are to its requests.
Tally(s) ==
    /\ total[s] <= Cardinality(Ended(s))
    /\ errors[s] <= total[s]
    /\ \A x \in Series : -total[s] <= gauge[s][x] /\ gauge[s][x] <= Cardinality(Entered(s))
    /\ SumFunction(gauge[s]) = Cardinality(Up(s))

Tallies == \A s \in Metered : Tally(s)

Funnel ==
    \A k \in Kpis :
        /\ SumFunction(kpi[k]) = Cardinality(Successes(k))
        /\ \A t \in Labels : kpi[k][t] = Cardinality(SuccessesUnder(k, t))

MetricsInv == Typed /\ Life /\ FewArrived /\ Failures /\ Tallies /\ Funnel

-----------------------------------------------------------------------------
(* The sets and the series.                                                *)

LEMMA SeriesAreFinite == IsFiniteSet(Labels) /\ IsFiniteSet(Series)
<1>1. IsFiniteSet(Labels)
  <2>1. IsFiniteSet(Tenants)
    BY RequestMetricsConstantsOK
  <2> QED
    BY <2>1, FS_AddElement DEF Labels
<1>2. IsFiniteSet({"create", "rate", "label", "other", "", TRUE, FALSE})
  <2>1. IsFiniteSet({} \union {"create"} \union {"rate"} \union {"label"} \union {"other"})
    BY FS_EmptySet, FS_AddElement, Zenon
  <2>2. IsFiniteSet(({"create", "rate", "label", "other"} \union {""}) \union {TRUE} \union {FALSE})
    <3>1. {} \union {"create"} \union {"rate"} \union {"label"} \union {"other"}
            = {"create", "rate", "label", "other"}
      OBVIOUS
    <3>2. IsFiniteSet({"create", "rate", "label", "other"})
      BY <2>1, <3>1
    <3> QED
      BY <3>2, FS_AddElement, Zenon
  <2>3. {"create", "rate", "label", "other", "", TRUE, FALSE}
          = {"create", "rate", "label", "other", ""} \union {TRUE} \union {FALSE}
    OBVIOUS
  <2>4. {"create", "rate", "label", "other"} \union {""} = {"create", "rate", "label", "other", ""}
    OBVIOUS
  <2> QED
    BY <2>2, <2>3, <2>4, Zenon
<1> DEFINE names == Routes \union {""}
           pairs == (names \X Labels) \X BOOLEAN
           f == [p \in pairs |-> <<p[1][1], p[1][2], p[2]>>]
<1>3. names \subseteq {"create", "rate", "label", "other", "", TRUE, FALSE}
  BY DEF Routes, ServiceOf
<1>4. IsFiniteSet(names) /\ IsFiniteSet(BOOLEAN)
  <2>1. BOOLEAN \subseteq {"create", "rate", "label", "other", "", TRUE, FALSE}
    OBVIOUS
  <2> HIDE DEF names
  <2> QED
    BY <1>2, <1>3, <2>1, FS_Subset
<1>5. IsFiniteSet(pairs)
  <2> HIDE DEF names
  <2> QED
    BY <1>1, <1>4, FS_Product
<1>6. f \in Surjection(pairs, Series)
  <2> HIDE DEF names
  <2>1. f \in [pairs -> names \X Labels \X BOOLEAN]
    OBVIOUS
  <2>2. ASSUME NEW x \in names \X Labels \X BOOLEAN
        PROVE  \E p \in pairs : f[p] = x
    <3>1. <<<<x[1], x[2]>>, x[3]>> \in pairs
      OBVIOUS
    <3>2. f[<<<<x[1], x[2]>>, x[3]>>] = x
      BY <3>1
    <3> QED
      BY <3>1, <3>2
  <2>3. Series = names \X Labels \X BOOLEAN
    BY DEF Series, names
  <2> QED
    BY <2>1, <2>2, <2>3 DEF Surjection
<1>7. IsFiniteSet(Series)
  <2> HIDE DEF f, pairs
  <2> QED
    BY <1>5, <1>6, FS_Surjection
<1> QED
  BY <1>1, <1>7

LEMMA OneMore ==
    ASSUME NEW S, IsFiniteSet(S), NEW x, x \notin S
    PROVE  /\ IsFiniteSet(S \union {x})
           /\ Cardinality(S) \in Nat
           /\ Cardinality(S \union {x}) = Cardinality(S) + 1
BY FS_AddElement, FS_CardinalityType

LEMMA OneLess ==
    ASSUME NEW S, IsFiniteSet(S), NEW x \in S
    PROVE  /\ Cardinality(S) \in Nat
           /\ Cardinality(S \ {x}) = Cardinality(S) - 1
BY FS_RemoveElement, FS_CardinalityType

LEMMA LeftIsAbandoned == Left \subseteq Abandoned("gateway")
BY DEF Abandoned

\* None of the sets holds a request that has not arrived.
LEMMA SetsAreOfArrived ==
    ASSUME Typed, Life, FewArrived
    PROVE  /\ IsFiniteSet(ToldFailure) /\ ToldFailure \subseteq Arrived
           /\ \A s \in Metered :
                 /\ IsFiniteSet(Entered(s)) /\ Entered(s) \subseteq Arrived
                 /\ IsFiniteSet(Ended(s)) /\ Ended(s) \subseteq Arrived
                 /\ IsFiniteSet(Up(s)) /\ Up(s) \subseteq Arrived
                 /\ IsFiniteSet(Inside(s)) /\ IsFiniteSet(Abandoned(s))
           /\ IsFiniteSet(Left)
           /\ \A k \in Kpis :
                 /\ IsFiniteSet(Successes(k)) /\ Successes(k) \subseteq Arrived
                 /\ \A t \in Labels : /\ IsFiniteSet(SuccessesUnder(k, t))
                                      /\ SuccessesUnder(k, t) \subseteq Arrived
<1> SUFFICES /\ ToldFailure \subseteq Arrived
             /\ \A s \in Metered :
                   /\ Entered(s) \subseteq Arrived
                   /\ Ended(s) \subseteq Arrived
                   /\ Inside(s) \subseteq Arrived
                   /\ Abandoned(s) \subseteq Arrived
             /\ \A k \in Kpis : Successes(k) \subseteq Arrived
  <2>1. ASSUME NEW T, T \subseteq Arrived PROVE IsFiniteSet(T)
    BY <2>1, FS_Subset DEF FewArrived
  <2>2. \A k \in Kpis : \A t \in Labels : SuccessesUnder(k, t) \subseteq Successes(k)
    BY DEF SuccessesUnder
  <2> QED
    BY <2>1, <2>2, LeftIsAbandoned DEF Up, Metered
<1> USE DEF Typed, Life
<1>1. \A r \in Requests : backend[r] # "idle" => r \in Arrived
  BY DEF Arrived
<1>2. ToldFailure \subseteq Arrived
  BY DEF ToldFailure, Arrived
<1>3. \A k \in Kpis : Successes(k) \subseteq Arrived
  BY <1>1 DEF Successes
<1>4. ASSUME NEW s \in Metered
      PROVE  /\ Entered(s) \subseteq Arrived
             /\ Ended(s) \subseteq Arrived
             /\ Inside(s) \subseteq Arrived
             /\ Abandoned(s) \subseteq Arrived
  <2>1. Entered(s) \subseteq Arrived
    BY <1>1 DEF Entered
  <2>2. Ended(s) \subseteq Arrived
    BY <1>1 DEF Ended, Arrived
  <2>3. Inside(s) \subseteq Arrived
    BY <1>1 DEF Inside, Arrived
  <2>4. Abandoned(s) \subseteq Arrived
    BY <1>1 DEF Abandoned, Left, Arrived, Metered
  <2> QED
    BY <2>1, <2>2, <2>3, <2>4
<1> QED
  BY <1>2, <1>3, <1>4

\* A request is counted in a series there is, under a label there is.
LEMMA SeriesOfRequest ==
    ASSUME Typed, NEW r \in Requests
    PROVE  /\ \A s \in Metered : RaisedIn(s, r) \in Series /\ LoweredIn(s, r) \in Series
           /\ CountedUnder(r) \in Labels
           /\ route[r] \in Routes
<1>1. headers[r].tenant \in Labels /\ headers[r].baggage \in Labels /\ NoTenant \in Labels
  BY RequestMetricsConstantsOK DEF Typed, Labels
<1> QED
  BY <1>1 DEF Typed, RaisedIn, LoweredIn, CountedUnder, Forwarded, Named, Series

-----------------------------------------------------------------------------
(* The steps: what a request may be, and which have arrived.               *)

LEMMA InitMetrics == Init => MetricsInv
<1> SUFFICES ASSUME Init PROVE MetricsInv
  OBVIOUS
<1>1. Typed
  BY RequestMetricsConstantsOK DEF Init, Typed
<1>2. Life
  BY DEF Init, Life
<1>3. Arrived = {} /\ ToldFailure = {} /\ Left = {}
  BY DEF Init, Arrived, ToldFailure, Left
<1>4. FewArrived
  BY <1>3, FS_EmptySet DEF FewArrived
<1>5. /\ \A s \in Metered : Entered(s) = {} /\ Ended(s) = {} /\ Abandoned(s) = {} /\ Up(s) = {}
      /\ \A k \in Kpis : Successes(k) = {} /\ \A t \in Labels : SuccessesUnder(k, t) = {}
  <2>1. ASSUME NEW s \in Metered PROVE Entered(s) = {} /\ Ended(s) = {}
    BY <1>3 DEF Init, Entered, Ended
  <2>2. ASSUME NEW s \in Metered PROVE Inside(s) = {} /\ Abandoned(s) = {}
    BY DEF Init, Metered, Inside, Abandoned, Left
  <2>3. \A k \in Kpis : Successes(k) = {}
    BY DEF Init, Successes
  <2> QED
    BY <2>1, <2>2, <2>3 DEF Up, SuccessesUnder
<1>6. Cardinality({}) = 0
  BY FS_EmptySet
<1>7. Failures
  <2> "gateway" \in Metered
    BY DEF Metered
  <2> QED
    BY <1>3, <1>5, <1>6 DEF Init, Failures
<1>8. Tallies
  <2>1. ASSUME NEW s \in Metered
        PROVE  /\ total[s] = 0 /\ errors[s] = 0
               /\ \A x \in Series : gauge[s][x] = 0
               /\ gauge[s] = [x \in Series |-> 0]
    BY DEF Init
  <2>2. SumFunction([x \in Series |-> 0]) = 0
    BY SeriesAreFinite, SumOfZeros
  <2> QED
    BY <1>5, <1>6, <2>1, <2>2 DEF Tallies, Tally
<1>9. Funnel
  <2>1. SumFunction([t \in Labels |-> 0]) = 0
    BY SeriesAreFinite, SumOfZeros
  <2> QED
    BY <1>5, <1>6, <2>1 DEF Init, Funnel
<1> QED
  BY <1>1, <1>2, <1>4, <1>7, <1>8, <1>9 DEF MetricsInv

\* BackendFinishes with one of its two ends.
Finishes(r, end) ==
    /\ backend' = [backend EXCEPT ![r] = end]
    /\ CASE route[r] = "label" /\ end = "done" -> Leave("label", r, status[r])
         [] route[r] = "rate" ->
              Leave("pricing", r, IF status[r] = "5xx" THEN "none" ELSE status[r])
         [] OTHER -> UNCHANGED <<gauge, total, errors>>

LEMMA FinishesSomehow ==
    ASSUME NEW r \in Requests, BackendFinishes(r)
    PROVE  \E end \in {"done", "cut"} : Finishes(r, end)
BY DEF BackendFinishes, Finishes

LEMMA TypedStep == Typed /\ Life /\ [Next]_vars => Typed'
<1> SUFFICES ASSUME Typed, Life, [Next]_vars PROVE Typed'
  OBVIOUS
<1> USE DEF Typed, request, numbers, Fault
<1>1. ASSUME NEW r \in Requests,
             \/ Arrive(r) \/ Proxy(r) \/ BackendArrives(r)
             \/ ClientLeaves(r) \/ LinkBreaks(r) \/ ResponseBreaksOff(r)
      PROVE  Typed'
  <2> \A s \in Metered : RaisedIn(s, r) \in Series
    BY SeriesOfRequest
  <2> CASE Arrive(r)
    BY DEF Arrive, Enter, Metered
  <2> CASE BackendArrives(r)
    <3> DEFINE s == ServiceOf[route[r]]
    <3>1. gauge' \in [Metered -> [Series -> Int]]
      <4>1. CASE s \in Metered
        <5>1. RaisedIn(s, r) \in Series /\ gauge' = [gauge EXCEPT ![s][RaisedIn(s, r)] = @ + 1]
          BY <4>1 DEF BackendArrives, Enter
        <5> HIDE DEF s
        <5> QED
          BY <4>1, <5>1
      <4>2. CASE s \notin Metered
        BY <4>2 DEF BackendArrives
      <4> QED
        BY <4>1, <4>2
    <3> QED
      BY <3>1 DEF BackendArrives
  <2> CASE Proxy(r)
    BY DEF Proxy
  <2> CASE ClientLeaves(r)
    BY RequestMetricsConstantsOK DEF ClientLeaves
  <2> CASE LinkBreaks(r)
    BY RequestMetricsConstantsOK DEF LinkBreaks
  <2> CASE ResponseBreaksOff(r)
    BY RequestMetricsConstantsOK DEF ResponseBreaksOff
  <2> QED
    BY <1>1
<1>2. ASSUME NEW r \in Requests, NEW s \in Metered, NEW answer, Leave(s, r, answer)
      PROVE  /\ gauge' \in [Metered -> [Series -> Int]]
             /\ total' \in [Metered -> Nat]
             /\ errors' \in [Metered -> Nat]
  <2> LoweredIn(s, r) \in Series
    BY SeriesOfRequest
  <2> QED
    BY <1>2 DEF Leave
<1>3. ASSUME NEW r \in Requests, NEW answer \in Answers, Respond(r, answer)
      PROVE  /\ gauge' \in [Metered -> [Series -> Int]]
             /\ total' \in [Metered -> Nat]
             /\ errors' \in [Metered -> Nat]
             /\ gateway' \in [Requests -> {"idle", "inside", "waiting", "done", "hung"}]
             /\ told' \in [Requests -> Answers \union {"none"}]
  <2>1. CASE r \in client
    <3>1. Leave("gateway", r, answer)
      BY <1>3, <2>1 DEF Respond
    <3> QED
      BY <1>2, <1>3, <2>1, <3>1 DEF Respond, Metered
  <2>2. CASE r \notin client
    BY <1>3, <2>2 DEF Respond
  <2> QED
    BY <2>1, <2>2
<1>4. ASSUME NEW r \in Requests, Refuse(r) \/ FetchFails(r) PROVE Typed'
  <2>1. Respond(r, "4xx") \/ Respond(r, "5xx")
    BY <1>4 DEF Refuse, FetchFails
  <2> QED
    BY <1>3, <1>4, <2>1 DEF Refuse, FetchFails, Answers
<1>5. ASSUME NEW r \in Requests, Hear(r) PROVE Typed'
  <2>1. status[r] \in Answers
    BY <1>5 DEF Life, Hear
  <2>2. Respond(r, status[r])
    BY <1>5 DEF Hear
  <2> QED
    BY <1>3, <1>5, <2>1, <2>2 DEF Hear
<1>6. ASSUME NEW r \in Requests, Handle(r) PROVE Typed'
  <2> CountedUnder(r) \in Labels
    BY SeriesOfRequest
  <2> QED
    BY <1>6 DEF Handle
<1>7. ASSUME NEW r \in Requests, BackendFinishes(r) PROVE Typed'
  <2>1. PICK end \in {"done", "cut"} : Finishes(r, end)
    BY <1>7, FinishesSomehow
  <2>2. /\ gauge' \in [Metered -> [Series -> Int]]
        /\ total' \in [Metered -> Nat]
        /\ errors' \in [Metered -> Nat]
    BY <1>2, <2>1 DEF Finishes, Metered
  <2> QED
    BY <1>7, <2>1, <2>2 DEF BackendFinishes, Finishes
<1> CASE Finished \/ UNCHANGED vars
  BY DEF Finished, vars
<1> QED
  BY <1>1, <1>4, <1>5, <1>6, <1>7 DEF Next

LEMMA LifeStep == Typed /\ Life /\ [Next]_vars => Life'
<1> SUFFICES ASSUME Typed, Life, [Next]_vars PROVE Life'
  OBVIOUS
<1> USE DEF Typed, Life, request, numbers, Answers
<1>1. ASSUME NEW r \in Requests,
             \/ Arrive(r) \/ Proxy(r) \/ BackendArrives(r)
             \/ ClientLeaves(r) \/ LinkBreaks(r) \/ ResponseBreaksOff(r)
      PROVE  Life'
  BY <1>1 DEF Arrive, Proxy, BackendArrives, ClientLeaves, LinkBreaks, ResponseBreaksOff
<1>2. ASSUME NEW r \in Requests, Refuse(r) PROVE Life'
  BY <1>2 DEF Refuse, Respond
<1>3. ASSUME NEW r \in Requests, Hear(r) PROVE Life'
  BY <1>3 DEF Hear, Respond
<1>4. ASSUME NEW r \in Requests, FetchFails(r) PROVE Life'
  BY <1>4 DEF FetchFails, Respond
<1>5. ASSUME NEW r \in Requests, Handle(r) PROVE Life'
  BY <1>5 DEF Handle
<1>6. ASSUME NEW r \in Requests, BackendFinishes(r) PROVE Life'
  BY <1>6 DEF BackendFinishes
<1> CASE Finished \/ UNCHANGED vars
  BY DEF Finished, vars
<1> QED
  BY <1>1, <1>2, <1>3, <1>4, <1>5, <1>6 DEF Next

\* Only Arrive makes a request one that has arrived, and none stops being one.
LEMMA ArrivedStep ==
    ASSUME Typed, Life, [Next]_vars
    PROVE  \/ Arrived' = Arrived
           \/ \E r \in Requests : Arrive(r) /\ r \notin Arrived /\ Arrived' = Arrived \union {r}
<1> USE DEF Typed, Arrived, request, numbers
<1>1. ASSUME NEW r \in Requests, Arrive(r)
      PROVE  r \notin Arrived /\ Arrived' = Arrived \union {r}
  BY <1>1 DEF Arrive
<1>2. ASSUME NEW r \in Requests,
             \/ Refuse(r) \/ Proxy(r) \/ Hear(r) \/ FetchFails(r) \/ BackendArrives(r)
             \/ Handle(r) \/ BackendFinishes(r) \/ ClientLeaves(r) \/ LinkBreaks(r)
             \/ ResponseBreaksOff(r)
      PROVE  Arrived' = Arrived
  BY <1>2 DEF Refuse, Proxy, Hear, FetchFails, BackendArrives, Handle, BackendFinishes,
              ClientLeaves, LinkBreaks, ResponseBreaksOff, Respond
<1> CASE Finished \/ UNCHANGED vars
  BY DEF Finished, vars
<1> QED
  BY <1>1, <1>2 DEF Next

LEMMA FewArrivedStep == Typed /\ Life /\ FewArrived /\ [Next]_vars => FewArrived'
BY ArrivedStep, FS_AddElement DEF FewArrived

-----------------------------------------------------------------------------
(* The steps: what one of them does to the numbers of a service.           *)

LEMMA GaugeMoves ==
    ASSUME Typed, NEW s \in Metered, NEW x \in Series, NEW d \in Int,
           gauge' = [gauge EXCEPT ![s][x] = @ + d]
    PROVE  /\ SumFunction(gauge'[s]) = SumFunction(gauge[s]) + d
           /\ SumFunction(gauge[s]) \in Int
           /\ \A y \in Series : gauge'[s][y] = IF y = x THEN gauge[s][y] + d ELSE gauge[s][y]
           /\ \A z \in Metered \ {s} : gauge'[z] = gauge[z]
<1>1. gauge[s] \in [Series -> Int] /\ gauge'[s] = [gauge[s] EXCEPT ![x] = @ + d]
  BY DEF Typed
<1>2. SumFunction([gauge[s] EXCEPT ![x] = @ + d]) = SumFunction(gauge[s]) + d
  BY <1>1, SeriesAreFinite, SumOfChanged
<1>3. SumFunction(gauge[s]) \in Int
  BY <1>1, SeriesAreFinite, SumIsInteger
<1>4. \A z \in Metered \ {s} : gauge'[z] = gauge[z]
  BY DEF Typed
<1> QED
  BY <1>1, <1>2, <1>3, <1>4

\* A service's sets are finite, and its numbers numbers.
LEMMA TallyTypes ==
    ASSUME Typed, Life, FewArrived, NEW s \in Metered
    PROVE  /\ IsFiniteSet(Ended(s)) /\ Cardinality(Ended(s)) \in Nat
           /\ IsFiniteSet(Entered(s)) /\ Cardinality(Entered(s)) \in Nat
           /\ IsFiniteSet(Up(s)) /\ Cardinality(Up(s)) \in Nat
           /\ total[s] \in Nat /\ errors[s] \in Nat
           /\ \A x \in Series : gauge[s][x] \in Int
BY SetsAreOfArrived, FS_CardinalityType DEF Typed

LEMMA TallyOfEnter ==
    ASSUME Typed, Life, FewArrived, NEW s \in Metered, Tally(s), NEW r \in Requests,
           Enter(s, r), total'[s] = total[s], errors'[s] = errors[s],
           r \notin Entered(s), Entered(s)' = Entered(s) \union {r},
           r \notin Up(s), Up(s)' = Up(s) \union {r}, Ended(s)' = Ended(s)
    PROVE  Tally(s)'
<1> DEFINE x == RaisedIn(s, r)
<1>1. x \in Series /\ gauge' = [gauge EXCEPT ![s][x] = @ + 1]
  BY SeriesOfRequest DEF Enter
<1> HIDE DEF x
<1>2. /\ SumFunction(gauge'[s]) = SumFunction(gauge[s]) + 1
      /\ \A y \in Series : gauge'[s][y] = IF y = x THEN gauge[s][y] + 1 ELSE gauge[s][y]
  <2>1. 1 \in Int
    OBVIOUS
  <2> QED
    BY <1>1, <2>1, GaugeMoves, Zenon
<1>3. Cardinality(Entered(s)') = Cardinality(Entered(s)) + 1
  BY TallyTypes, OneMore
<1>4. Cardinality(Up(s)') = Cardinality(Up(s)) + 1
  BY TallyTypes, OneMore
<1>5. \A y \in Series : -total[s] <= gauge'[s][y] /\ gauge'[s][y] <= Cardinality(Entered(s)')
  BY <1>2, <1>3, TallyTypes DEF Tally
<1>6. SumFunction(gauge'[s]) = Cardinality(Up(s)')
  BY <1>2, <1>4 DEF Tally
<1> QED
  BY <1>5, <1>6 DEF Tally

LEMMA TallyOfLeave ==
    ASSUME Typed, Life, FewArrived, NEW s \in Metered, Tally(s), NEW r \in Requests,
           NEW answer, Leave(s, r, answer),
           r \notin Ended(s), Ended(s)' = Ended(s) \union {r},
           r \in Up(s), Up(s)' = Up(s) \ {r}, Entered(s)' = Entered(s)
    PROVE  Tally(s)'
<1> DEFINE x == LoweredIn(s, r)
<1>1. x \in Series /\ gauge' = [gauge EXCEPT ![s][x] = @ + (-1)]
  <2>1. x \in Series /\ gauge' = [gauge EXCEPT ![s][x] = @ - 1]
    BY SeriesOfRequest DEF Leave
  <2>2. gauge[s][x] \in Int
    BY <2>1, TallyTypes
  <2>3. gauge[s][x] - 1 = gauge[s][x] + (-1)
    BY <2>2
  <2> HIDE DEF x
  <2> QED
    BY <2>1, <2>3
<1>2. /\ total'[s] = total[s] + 1
      /\ errors'[s] \in {errors[s], errors[s] + 1}
  BY DEF Leave, Typed
<1> HIDE DEF x
<1>3. /\ SumFunction(gauge'[s]) = SumFunction(gauge[s]) + (-1)
      /\ \A y \in Series : gauge'[s][y] = IF y = x THEN gauge[s][y] + (-1) ELSE gauge[s][y]
  <2>1. (-1) \in Int
    OBVIOUS
  <2> QED
    BY <1>1, <2>1, GaugeMoves, Zenon
<1>4. Cardinality(Ended(s)') = Cardinality(Ended(s)) + 1
  BY TallyTypes, OneMore
<1>5. Cardinality(Up(s)') = Cardinality(Up(s)) - 1
  BY TallyTypes, OneLess
<1>6. total'[s] <= Cardinality(Ended(s)') /\ errors'[s] <= total'[s]
  BY <1>2, <1>4, TallyTypes DEF Tally
<1>7. \A y \in Series : -total'[s] <= gauge'[s][y] /\ gauge'[s][y] <= Cardinality(Entered(s))
  BY <1>2, <1>3, TallyTypes DEF Tally
<1>8. SumFunction(gauge'[s]) = Cardinality(Up(s)')
  BY <1>3, <1>5, TallyTypes DEF Tally
<1> QED
  BY <1>6, <1>7, <1>8 DEF Tally

\* The end of a request nobody is told of.
LEMMA TallyOfLoss ==
    ASSUME Typed, Life, FewArrived, NEW s \in Metered, Tally(s), NEW r \in Requests,
           gauge'[s] = gauge[s], total'[s] = total[s], errors'[s] = errors[s],
           r \notin Ended(s), Ended(s)' = Ended(s) \union {r},
           Up(s)' = Up(s), Entered(s)' = Entered(s)
    PROVE  Tally(s)'
<1>1. Cardinality(Ended(s)') = Cardinality(Ended(s)) + 1
  BY TallyTypes, OneMore
<1>2. total'[s] <= Cardinality(Ended(s)')
  BY <1>1, TallyTypes DEF Tally
<1> QED
  BY <1>2 DEF Tally

LEMMA TallyOfRest ==
    ASSUME NEW s \in Metered, Tally(s),
           gauge'[s] = gauge[s], total'[s] = total[s], errors'[s] = errors[s],
           Ended(s)' = Ended(s), Up(s)' = Up(s), Entered(s)' = Entered(s)
    PROVE  Tally(s)'
BY DEF Tally

\* What an answer of the gateway's moves.
LEMMA RespondMoves ==
    ASSUME Typed, Life, NEW r \in Requests, NEW answer \in Answers, Respond(r, answer),
           gateway[r] \in {"inside", "waiting"}, UNCHANGED client
    PROVE  /\ r \notin Ended("gateway") /\ Ended("gateway")' = Ended("gateway") \union {r}
           /\ Entered("gateway")' = Entered("gateway")
           /\ r \in Up("gateway")
           /\ r \in client =>
                  /\ Up("gateway")' = Up("gateway") \ {r}
                  /\ Left' = Left
                  /\ r \notin ToldFailure
                  /\ ToldFailure' = IF answer = "5xx" THEN ToldFailure \union {r} ELSE ToldFailure
           /\ r \notin client =>
                  /\ Up("gateway")' = Up("gateway")
                  /\ r \notin Left
                  /\ Left' = Left \union {r}
                  /\ ToldFailure' = ToldFailure
<1> USE DEF Typed, Life, Respond
<1>1. r \notin Ended("gateway") /\ Ended("gateway")' = Ended("gateway") \union {r}
  BY DEF Ended
<1>2. Entered("gateway")' = Entered("gateway")
  BY DEF Entered, Arrived
<1>3. r \in Inside("gateway") /\ Inside("gateway")' = Inside("gateway") \ {r}
  BY DEF Inside
<1>4. r \notin Left
  BY DEF Left
<1>5. ASSUME r \in client
      PROVE  /\ Left' = Left
             /\ r \notin ToldFailure
             /\ ToldFailure' = IF answer = "5xx" THEN ToldFailure \union {r} ELSE ToldFailure
  <2>1. Left' = Left
    BY <1>5 DEF Left
  <2>2. r \notin ToldFailure /\ told' = [told EXCEPT ![r] = answer]
    BY <1>5 DEF ToldFailure
  <2>3. ToldFailure' = IF answer = "5xx" THEN ToldFailure \union {r} ELSE ToldFailure
    BY <2>2 DEF ToldFailure
  <2> QED
    BY <2>1, <2>2, <2>3
<1>6. ASSUME r \notin client
      PROVE  /\ Left' = Left \union {r}
             /\ ToldFailure' = ToldFailure
  BY <1>6 DEF Left, ToldFailure
<1>7. {q \in Requests : gateway[q] = "hung"}' = {q \in Requests : gateway[q] = "hung"}
      /\ gateway[r] # "hung"
  OBVIOUS
<1> QED
  BY <1>1, <1>2, <1>3, <1>4, <1>5, <1>6, <1>7 DEF Up, Abandoned

\* What is in the services follows their side of the requests ...
LEMMA ServicesUnmoved ==
    ASSUME UNCHANGED <<route, backend>>, NEW s \in Metered, s # "gateway"
    PROVE  Entered(s)' = Entered(s) /\ Ended(s)' = Ended(s) /\ Up(s)' = Up(s)
<1>1. Entered(s)' = Entered(s) /\ Ended(s)' = Ended(s) /\ Inside(s)' = Inside(s)
  BY DEF Entered, Ended, Inside
<1>2. Abandoned(s)' = Abandoned(s)
  BY DEF Abandoned, Metered
<1> QED
  BY <1>1, <1>2 DEF Up

\* ... and what is in the gateway the gateway's.
LEMMA GatewayUnmoved ==
    ASSUME UNCHANGED <<gateway, client>>
    PROVE  /\ Entered("gateway")' = Entered("gateway")
           /\ Ended("gateway")' = Ended("gateway")
           /\ Up("gateway")' = Up("gateway")
           /\ Left' = Left
BY DEF Entered, Arrived, Ended, Inside, Abandoned, Left, Up

\* These begin nothing, and end nothing.
LEMMA NothingMoved ==
    ASSUME Typed, Life, NEW r \in Requests,
           \/ Proxy(r) \/ Handle(r)
           \/ ClientLeaves(r) \/ LinkBreaks(r) \/ ResponseBreaksOff(r), NEW s \in Metered
    PROVE  /\ Entered(s)' = Entered(s) /\ Ended(s)' = Ended(s) /\ Up(s)' = Up(s)
           /\ Left' = Left
<1>1. \A q \in Requests :
          /\ route'[q] = route[q]
          /\ gateway'[q] = "idle" <=> gateway[q] = "idle"
          /\ gateway'[q] = "done" <=> gateway[q] = "done"
          /\ gateway'[q] \in {"inside", "waiting", "hung"}
               <=> gateway[q] \in {"inside", "waiting", "hung"}
          /\ gateway[q] = "done" => (q \in client' <=> q \in client)
          /\ backend'[q] \in {"idle", "sent"} <=> backend[q] \in {"idle", "sent"}
          /\ backend'[q] \in {"inside", "handled"} <=> backend[q] \in {"inside", "handled"}
          /\ backend'[q] \in {"done", "cut"} <=> backend[q] \in {"done", "cut"}
          /\ backend'[q] = "cut" <=> backend[q] = "cut"
  <2> USE DEF Typed, Life, request
  <2>1. CASE Proxy(r)
    BY <2>1 DEF Proxy
  <2>2. CASE Handle(r)
    BY <2>2 DEF Handle
  <2>3. CASE ClientLeaves(r) \/ LinkBreaks(r) \/ ResponseBreaksOff(r)
    BY <2>3 DEF ClientLeaves, LinkBreaks, ResponseBreaksOff
  <2> QED
    BY <2>1, <2>2, <2>3
<1>2. Entered(s)' = Entered(s)
  BY <1>1 DEF Entered, Arrived
<1>3. Ended(s)' = Ended(s)
  BY <1>1 DEF Ended
<1>4. Left' = Left
  BY <1>1 DEF Left
<1>5. Up(s)' = Up(s)
  <2>1. CASE s = "gateway"
    <3>1. Up(s) = {q \in Requests : gateway[q] \in {"inside", "waiting", "hung"}} \union Left
      BY <2>1 DEF Up, Inside, Abandoned
    <3>2. Up(s)' = {q \in Requests : gateway'[q] \in {"inside", "waiting", "hung"}} \union Left'
      BY <2>1 DEF Up, Inside, Abandoned
    <3> QED
      BY <1>1, <1>4, <3>1, <3>2
  <2>2. CASE s # "gateway"
    BY <1>1, <2>2 DEF Up, Inside, Abandoned, Metered
  <2> QED
    BY <2>1, <2>2
<1> QED
  BY <1>2, <1>3, <1>4, <1>5

LEMMA ArriveMoves ==
    ASSUME Typed, Life, NEW r \in Requests, Arrive(r)
    PROVE  /\ r \notin Entered("gateway") /\ Entered("gateway")' = Entered("gateway") \union {r}
           /\ r \notin Up("gateway") /\ Up("gateway")' = Up("gateway") \union {r}
           /\ Ended("gateway")' = Ended("gateway")
           /\ Left' = Left
<1> USE DEF Typed, Life, Arrive, request
<1>1. r \notin Entered("gateway") /\ Entered("gateway")' = Entered("gateway") \union {r}
  BY DEF Entered, Arrived
<1>2. r \notin Inside("gateway") /\ Inside("gateway")' = Inside("gateway") \union {r}
  BY DEF Inside
<1>3. /\ r \notin Abandoned("gateway") /\ Abandoned("gateway")' = Abandoned("gateway")
      /\ Left' = Left
  BY DEF Abandoned, Left
<1>4. Ended("gateway")' = Ended("gateway")
  BY DEF Ended
<1> QED
  BY <1>1, <1>2, <1>3, <1>4 DEF Up

LEMMA BackendArrivesMoves ==
    ASSUME Typed, Life, NEW r \in Requests, BackendArrives(r), NEW s \in Metered, s # "gateway"
    PROVE  IF s = ServiceOf[route[r]]
             THEN /\ r \notin Entered(s) /\ Entered(s)' = Entered(s) \union {r}
                  /\ r \notin Up(s) /\ Up(s)' = Up(s) \union {r}
                  /\ Ended(s)' = Ended(s)
             ELSE Entered(s)' = Entered(s) /\ Up(s)' = Up(s) /\ Ended(s)' = Ended(s)
<1> USE DEF Typed, Life
<1>1. backend[r] = "sent" /\ backend' = [backend EXCEPT ![r] = "inside"] /\ UNCHANGED route
  BY DEF BackendArrives, request
<1>2. Ended(s)' = Ended(s)
  BY <1>1 DEF Ended
<1>3. Abandoned(s)' = Abandoned(s)
  BY <1>1 DEF Abandoned, Metered
<1>4. CASE s = ServiceOf[route[r]]
  <2>1. r \notin Entered(s) /\ Entered(s)' = Entered(s) \union {r}
    BY <1>1, <1>4 DEF Entered
  <2>2. r \notin Inside(s) /\ Inside(s)' = Inside(s) \union {r}
    BY <1>1, <1>4 DEF Inside
  <2>3. r \notin Abandoned(s)
    BY <1>1 DEF Abandoned, Metered
  <2> QED
    BY <1>2, <1>3, <1>4, <2>1, <2>2, <2>3 DEF Up
<1>5. CASE s # ServiceOf[route[r]]
  <2>1. Entered(s)' = Entered(s)
    BY <1>1, <1>5 DEF Entered
  <2>2. Inside(s)' = Inside(s)
    BY <1>1, <1>5 DEF Inside
  <2> QED
    BY <1>2, <1>3, <1>5, <2>1, <2>2 DEF Up
<1> QED
  BY <1>4, <1>5

\* label-svc sees the end of a request if it can answer, pricing-svc of all.
LEMMA BackendFinishesMoves ==
    ASSUME Typed, Life, NEW r \in Requests, BackendFinishes(r), NEW end \in {"done", "cut"},
           backend' = [backend EXCEPT ![r] = end], NEW s \in Metered, s # "gateway"
    PROVE  /\ Entered(s)' = Entered(s)
           /\ IF s = ServiceOf[route[r]]
                THEN /\ r \notin Ended(s) /\ Ended(s)' = Ended(s) \union {r}
                     /\ r \in Up(s)
                     /\ Up(s)' = IF s = "pricing" \/ end = "done" THEN Up(s) \ {r} ELSE Up(s)
                ELSE Ended(s)' = Ended(s) /\ Up(s)' = Up(s)
<1> USE DEF Typed, Life
<1>1. /\ backend[r] = "handled"
      /\ backend' = [backend EXCEPT ![r] = end]
      /\ UNCHANGED route
  BY DEF BackendFinishes, request
<1>2. Entered(s)' = Entered(s)
  BY <1>1 DEF Entered
<1>3. s = "label" \/ s = "pricing"
  BY DEF Metered
<1>4. \A q \in Requests : ServiceOf[route[q]] = "label" <=> route[q] = "label"
  BY DEF ServiceOf, Routes
<1>5. CASE s = ServiceOf[route[r]]
  <2>1. r \notin Ended(s) /\ Ended(s)' = Ended(s) \union {r}
    BY <1>1, <1>5 DEF Ended
  <2>2. r \in Inside(s) /\ Inside(s)' = Inside(s) \ {r}
    BY <1>1, <1>3, <1>5 DEF Inside
  <2>3. CASE s = "pricing"
    <3>1. Abandoned(s) = {} /\ Abandoned(s)' = {}
      BY <2>3 DEF Abandoned
    <3> QED
      BY <1>2, <1>5, <2>1, <2>2, <2>3, <3>1 DEF Up
  <2>4. CASE s = "label"
    <3>1. route[r] = "label" /\ r \notin Abandoned(s)
      BY <1>1, <1>4, <1>5, <2>4 DEF Abandoned
    <3>2. Abandoned(s)' = IF end = "done" THEN Abandoned(s) ELSE Abandoned(s) \union {r}
      BY <1>1, <2>4, <3>1 DEF Abandoned
    <3> QED
      BY <1>2, <1>5, <2>1, <2>2, <2>4, <3>1, <3>2 DEF Up
  <2> QED
    BY <1>3, <2>3, <2>4
<1>6. CASE s # ServiceOf[route[r]]
  <2>1. Ended(s)' = Ended(s) /\ Inside(s)' = Inside(s)
    BY <1>1, <1>3, <1>6 DEF Ended, Inside
  <2>2. Abandoned(s)' = Abandoned(s)
    <3>1. CASE s = "pricing"
      BY <3>1 DEF Abandoned
    <3>2. CASE s = "label"
      <4>1. route[r] # "label"
        BY <1>4, <1>6, <3>2
      <4> QED
        BY <1>1, <3>2, <4>1 DEF Abandoned
    <3> QED
      BY <1>3, <3>1, <3>2
  <2> QED
    BY <1>2, <1>6, <2>1, <2>2 DEF Up
<1> QED
  BY <1>5, <1>6

LEMMA TalliesStep ==
    ASSUME Typed, Life, FewArrived, Tallies, [Next]_vars
    PROVE  Tallies'
<1> SUFFICES ASSUME NEW s \in Metered PROVE Tally(s)'
  BY DEF Tallies
<1>1. Tally(s)
  BY DEF Tallies
<1>2. "gateway" \in Metered
  BY DEF Metered
<1>3. ASSUME NEW r \in Requests, NEW answer \in Answers, Respond(r, answer),
             gateway[r] \in {"inside", "waiting"}, UNCHANGED <<route, client, backend>>
      PROVE  Tally(s)'
  <2>1. CASE r \in client /\ s = "gateway"
    <3>1. Leave(s, r, answer)
      BY <1>3, <2>1 DEF Respond
    <3>2. /\ r \notin Ended(s) /\ Ended(s)' = Ended(s) \union {r}
          /\ r \in Up(s) /\ Up(s)' = Up(s) \ {r} /\ Entered(s)' = Entered(s)
      BY <1>3, <2>1, RespondMoves
    <3> QED
      BY <1>1, <3>1, <3>2, TallyOfLeave
  <2>2. CASE r \notin client /\ s = "gateway"
    <3>1. gauge' = gauge /\ total' = total /\ errors' = errors
      BY <1>3, <2>2 DEF Respond
    <3>2. /\ r \notin Ended(s) /\ Ended(s)' = Ended(s) \union {r}
          /\ Up(s)' = Up(s) /\ Entered(s)' = Entered(s)
      BY <1>3, <2>2, RespondMoves
    <3> QED
      BY <1>1, <3>1, <3>2, TallyOfLoss
  <2>3. CASE s # "gateway"
    <3>1. gauge'[s] = gauge[s] /\ total'[s] = total[s] /\ errors'[s] = errors[s]
      BY <1>3, <2>3 DEF Respond, Leave, Typed
    <3>2. Entered(s)' = Entered(s) /\ Ended(s)' = Ended(s) /\ Up(s)' = Up(s)
      BY <1>3, <2>3, ServicesUnmoved
    <3> QED
      BY <1>1, <3>1, <3>2, TallyOfRest
  <2> QED
    BY <2>1, <2>2, <2>3
<1>4. ASSUME NEW r \in Requests, Refuse(r) \/ Hear(r) \/ FetchFails(r) PROVE Tally(s)'
  <2>1. /\ \E answer \in Answers : Respond(r, answer)
        /\ gateway[r] \in {"inside", "waiting"}
    <3>1. CASE Refuse(r)
      BY <3>1 DEF Refuse, Answers
    <3>2. CASE Hear(r)
      <4>1. status[r] \in Answers
        BY <3>2 DEF Hear, Typed, Life
      <4> QED
        BY <3>2, <4>1 DEF Hear
    <3>3. CASE FetchFails(r)
      BY <3>3 DEF FetchFails, Answers
    <3> QED
      BY <1>4, <3>1, <3>2, <3>3
  <2>2. UNCHANGED <<route, client, backend>>
    BY <1>4 DEF Refuse, Hear, FetchFails, request
  <2> QED
    BY <1>3, <2>1, <2>2
<1>5. ASSUME NEW r \in Requests, Arrive(r) PROVE Tally(s)'
  <2>1. total' = total /\ errors' = errors /\ UNCHANGED <<route, backend>> /\ Enter("gateway", r)
    BY <1>5 DEF Arrive, request
  <2>2. CASE s = "gateway"
    <3>1. /\ r \notin Entered(s) /\ Entered(s)' = Entered(s) \union {r}
          /\ r \notin Up(s) /\ Up(s)' = Up(s) \union {r} /\ Ended(s)' = Ended(s)
      BY <1>5, <2>2, ArriveMoves
    <3> QED
      BY <1>1, <2>1, <2>2, <3>1, TallyOfEnter
  <2>3. CASE s # "gateway"
    <3>1. gauge'[s] = gauge[s]
      BY <2>1, <2>3 DEF Enter, Typed
    <3>2. Entered(s)' = Entered(s) /\ Ended(s)' = Ended(s) /\ Up(s)' = Up(s)
      BY <2>1, <2>3, ServicesUnmoved
    <3> QED
      BY <1>1, <2>1, <3>1, <3>2, TallyOfRest
  <2> QED
    BY <2>2, <2>3
<1>6. ASSUME NEW r \in Requests,
             \/ Proxy(r) \/ Handle(r)
             \/ ClientLeaves(r) \/ LinkBreaks(r) \/ ResponseBreaksOff(r)
      PROVE  Tally(s)'
  <2>1. Entered(s)' = Entered(s) /\ Ended(s)' = Ended(s) /\ Up(s)' = Up(s)
    BY <1>6, NothingMoved
  <2>2. gauge' = gauge /\ total' = total /\ errors' = errors
    BY <1>6 DEF Proxy, Handle, ClientLeaves, LinkBreaks, ResponseBreaksOff, numbers
  <2> QED
    BY <1>1, <2>1, <2>2, TallyOfRest
<1>7. ASSUME NEW r \in Requests, BackendArrives(r) \/ BackendFinishes(r), s = "gateway"
      PROVE  Tally(s)'
  <2>1. UNCHANGED <<gateway, client>>
    BY <1>7 DEF BackendArrives, BackendFinishes
  <2>2. Entered(s)' = Entered(s) /\ Ended(s)' = Ended(s) /\ Up(s)' = Up(s)
    BY <1>7, <2>1, GatewayUnmoved
  <2>3. ServiceOf[route[r]] # "gateway"
    BY DEF Typed, Routes, ServiceOf
  <2>4. gauge'[s] = gauge[s] /\ total'[s] = total[s] /\ errors'[s] = errors[s]
    <3>1. CASE BackendArrives(r)
      BY <1>7, <2>3, <3>1 DEF BackendArrives, Enter, Typed
    <3>2. CASE BackendFinishes(r)
      <4>1. PICK end \in {"done", "cut"} : Finishes(r, end)
        BY <3>2, FinishesSomehow
      <4> QED
        BY <1>7, <4>1 DEF Finishes, Leave, Typed
    <3> QED
      BY <1>7, <3>1, <3>2
  <2> QED
    BY <1>1, <2>2, <2>4, TallyOfRest
<1>8. ASSUME NEW r \in Requests, BackendArrives(r), s # "gateway" PROVE Tally(s)'
  <2>1. CASE s = ServiceOf[route[r]]
    <3>1. Enter(s, r) /\ total' = total /\ errors' = errors
      BY <1>8, <2>1 DEF BackendArrives
    <3>2. /\ r \notin Entered(s) /\ Entered(s)' = Entered(s) \union {r}
          /\ r \notin Up(s) /\ Up(s)' = Up(s) \union {r} /\ Ended(s)' = Ended(s)
      BY <1>8, <2>1, BackendArrivesMoves
    <3> QED
      BY <1>1, <3>1, <3>2, TallyOfEnter
  <2>2. CASE s # ServiceOf[route[r]]
    <3>1. gauge'[s] = gauge[s] /\ total' = total /\ errors' = errors
      BY <1>8, <2>2 DEF BackendArrives, Enter, Typed
    <3>2. Entered(s)' = Entered(s) /\ Up(s)' = Up(s) /\ Ended(s)' = Ended(s)
      BY <1>8, <2>2, BackendArrivesMoves
    <3> QED
      BY <1>1, <3>1, <3>2, TallyOfRest
  <2> QED
    BY <2>1, <2>2
<1>9. ASSUME NEW r \in Requests, BackendFinishes(r), s # "gateway" PROVE Tally(s)'
  <2>1. PICK end \in {"done", "cut"} : Finishes(r, end)
    BY <1>9, FinishesSomehow
  <2>2. route[r] \in Routes /\ (s = "label" \/ s = "pricing")
    BY <1>9 DEF Typed, Metered
  <2>3. /\ ServiceOf[route[r]] = "label" <=> route[r] = "label"
        /\ ServiceOf[route[r]] = "pricing" <=> route[r] = "rate"
    BY <2>2 DEF ServiceOf, Routes
  <2>4. CASE s = ServiceOf[route[r]] /\ (s = "pricing" \/ end = "done")
    <3>1. \E answer : Leave(s, r, answer)
      <4>1. CASE s = "label"
        <5>1. Leave("label", r, status[r])
          BY <2>1, <2>3, <2>4, <4>1 DEF Finishes
        <5> QED
          BY <4>1, <5>1
      <4>2. CASE s = "pricing"
        <5>1. Leave("pricing", r, IF status[r] = "5xx" THEN "none" ELSE status[r])
          BY <2>1, <2>3, <2>4, <4>2 DEF Finishes
        <5> QED
          BY <4>2, <5>1
      <4> QED
        BY <2>2, <4>1, <4>2
    <3>2. /\ r \notin Ended(s) /\ Ended(s)' = Ended(s) \union {r}
          /\ r \in Up(s) /\ Up(s)' = Up(s) \ {r} /\ Entered(s)' = Entered(s)
      BY <1>9, <2>1, <2>4, BackendFinishesMoves DEF Finishes
    <3> QED
      BY <1>1, <3>1, <3>2, TallyOfLeave
  <2>5. CASE s = ServiceOf[route[r]] /\ ~(s = "pricing" \/ end = "done")
    <3>1. gauge' = gauge /\ total' = total /\ errors' = errors
      BY <1>9, <2>1, <2>2, <2>3, <2>5 DEF Finishes
    <3>2. /\ r \notin Ended(s) /\ Ended(s)' = Ended(s) \union {r}
          /\ Up(s)' = Up(s) /\ Entered(s)' = Entered(s)
      BY <1>9, <2>1, <2>5, BackendFinishesMoves DEF Finishes
    <3> QED
      BY <1>1, <3>1, <3>2, TallyOfLoss
  <2>6. CASE s # ServiceOf[route[r]]
    <3>1. gauge'[s] = gauge[s] /\ total'[s] = total[s] /\ errors'[s] = errors[s]
      BY <1>9, <2>1, <2>2, <2>3, <2>6 DEF Finishes, Leave, Typed
    <3>2. Entered(s)' = Entered(s) /\ Up(s)' = Up(s) /\ Ended(s)' = Ended(s)
      BY <1>9, <2>1, <2>6, BackendFinishesMoves DEF Finishes
    <3> QED
      BY <1>1, <3>1, <3>2, TallyOfRest
  <2> QED
    BY <2>4, <2>5, <2>6
<1>10. CASE Finished \/ UNCHANGED vars
  BY <1>1, <1>10 DEF Finished, vars, request, numbers, Tally, Ended, Entered, Arrived, Up, Inside,
                     Abandoned, Left
<1> QED
  BY <1>4, <1>5, <1>6, <1>7, <1>8, <1>9, <1>10 DEF Next

-----------------------------------------------------------------------------
(* The steps: failures, and the funnel.                                    *)

LEMMA FailuresStep ==
    ASSUME Typed, Life, FewArrived, Failures, [Next]_vars
    PROVE  Failures'
<1> "gateway" \in Metered
  BY DEF Metered
<1>1. /\ IsFiniteSet(ToldFailure) /\ Cardinality(ToldFailure) \in Nat
      /\ IsFiniteSet(Left) /\ Cardinality(Left) \in Nat
      /\ IsFiniteSet(Ended("gateway")) /\ Cardinality(Ended("gateway")) \in Nat
      /\ errors["gateway"] \in Nat /\ clientErrors \in Nat
  BY SetsAreOfArrived, FS_CardinalityType DEF Typed
\* An answer, of which http.client.errors has counted none or one.
<1>2. ASSUME NEW r \in Requests, NEW answer \in Answers, Respond(r, answer),
             gateway[r] \in {"inside", "waiting"}, UNCHANGED client,
             clientErrors' = IF answer = "5xx" THEN clientErrors + 1 ELSE clientErrors
      PROVE  Failures'
  <2>1. Cardinality(Ended("gateway")') = Cardinality(Ended("gateway")) + 1
    BY <1>1, <1>2, RespondMoves, OneMore
  <2>2. CASE r \in client
    <3>1. errors'["gateway"] = IF answer = "5xx" THEN errors["gateway"] + 1 ELSE errors["gateway"]
      BY <1>2, <2>2 DEF Respond, Leave, Typed
    <3>2. Left' = Left
      BY <1>2, <2>2, RespondMoves
    <3>3. Cardinality(ToldFailure')
            = IF answer = "5xx" THEN Cardinality(ToldFailure) + 1 ELSE Cardinality(ToldFailure)
      <4>1. /\ r \notin ToldFailure
            /\ ToldFailure' = IF answer = "5xx" THEN ToldFailure \union {r} ELSE ToldFailure
        BY <1>2, <2>2, RespondMoves
      <4> QED
        BY <1>1, <4>1, OneMore
    <3> QED
      BY <1>1, <1>2, <2>1, <3>1, <3>2, <3>3 DEF Failures
  <2>3. CASE r \notin client
    <3>1. errors' = errors
      BY <1>2, <2>3 DEF Respond
    <3>2. /\ r \notin Left
          /\ Left' = Left \union {r}
          /\ ToldFailure' = ToldFailure
      BY <1>2, <2>3, RespondMoves
    <3>3. Cardinality(Left') = Cardinality(Left) + 1
      BY <1>1, <3>2, OneMore
    <3> QED
      BY <1>1, <1>2, <2>1, <3>1, <3>2, <3>3 DEF Failures
  <2> QED
    BY <2>2, <2>3
<1>3. ASSUME NEW r \in Requests, Refuse(r) \/ Hear(r) \/ FetchFails(r) PROVE Failures'
  <2>1. CASE Refuse(r)
    BY <1>2, <2>1 DEF Refuse, Answers
  <2>2. CASE Hear(r)
    <3>1. status[r] \in Answers
      BY <2>2 DEF Hear, Typed, Life
    <3> QED
      BY <1>2, <2>2, <3>1 DEF Hear
  <2>3. CASE FetchFails(r)
    BY <1>2, <2>3 DEF FetchFails, Answers
  <2> QED
    BY <1>3, <2>1, <2>2, <2>3
<1>4. ASSUME errors'["gateway"] = errors["gateway"], UNCHANGED <<told, clientErrors>>,
             Left' = Left, Ended("gateway")' = Ended("gateway")
      PROVE  Failures'
  BY <1>4 DEF Failures, ToldFailure
<1>5. ASSUME NEW r \in Requests, Arrive(r) PROVE Failures'
  BY <1>4, <1>5, ArriveMoves DEF Arrive
<1>6. ASSUME NEW r \in Requests,
             \/ Proxy(r) \/ Handle(r)
             \/ ClientLeaves(r) \/ LinkBreaks(r) \/ ResponseBreaksOff(r)
      PROVE  Failures'
  <2>1. errors' = errors /\ UNCHANGED <<told, clientErrors>>
    BY <1>6 DEF Proxy, Handle, ClientLeaves, LinkBreaks, ResponseBreaksOff, numbers
  <2> QED
    BY <1>4, <1>6, <2>1, NothingMoved
<1>7. ASSUME NEW r \in Requests, BackendArrives(r) \/ BackendFinishes(r) PROVE Failures'
  <2>1. UNCHANGED <<gateway, client, told, clientErrors>>
    BY <1>7 DEF BackendArrives, BackendFinishes
  <2>2. errors'["gateway"] = errors["gateway"]
    <3>1. CASE BackendArrives(r)
      BY <3>1 DEF BackendArrives
    <3>2. CASE BackendFinishes(r)
      <4>1. PICK end \in {"done", "cut"} : Finishes(r, end)
        BY <3>2, FinishesSomehow
      <4> QED
        BY <4>1 DEF Finishes, Leave, Typed
    <3> QED
      BY <1>7, <3>1, <3>2
  <2> QED
    BY <1>4, <2>1, <2>2, GatewayUnmoved
<1>8. CASE Finished \/ UNCHANGED vars
  <2>1. UNCHANGED <<gateway, client, told, errors, clientErrors>>
    BY <1>8 DEF Finished, vars, numbers
  <2> QED
    BY <1>4, <2>1, GatewayUnmoved
<1> QED
  BY <1>3, <1>5, <1>6, <1>7, <1>8 DEF Next

LEMMA FunnelStep ==
    ASSUME Typed, Life, FewArrived, Funnel, [Next]_vars
    PROVE  Funnel'
<1>1. ASSUME UNCHANGED <<route, headers, status, kpi>> PROVE Funnel'
  <2>1. /\ \A k : Successes(k)' = Successes(k)
        /\ \A k, t : SuccessesUnder(k, t)' = SuccessesUnder(k, t)
    BY <1>1 DEF Successes, SuccessesUnder, CountedUnder, Forwarded, Named
  <2> QED
    BY <1>1, <2>1 DEF Funnel
<1>2. ASSUME NEW r \in Requests, Handle(r) PROVE Funnel'
  <2>1. PICK a \in Answers :
           /\ status' = [status EXCEPT ![r] = a]
           /\ kpi' = IF a = "2xx" /\ route[r] \in Kpis
                       THEN [kpi EXCEPT ![route[r]][CountedUnder(r)] = @ + 1]
                       ELSE kpi
    BY <1>2 DEF Handle
  <2>2. UNCHANGED <<route, headers>> /\ status[r] = "none"
    BY <1>2 DEF Handle, request, Life, Typed
  <2>3. \A q \in Requests : CountedUnder(q)' = CountedUnder(q)
    BY <2>2 DEF CountedUnder, Forwarded, Named
  <2>4. \A k \in Kpis : r \notin Successes(k)
    BY <2>2 DEF Successes
  <2>5. \A k \in Kpis : IF a = "2xx" /\ k = route[r] THEN Successes(k)' = Successes(k) \union {r}
                        ELSE Successes(k)' = Successes(k)
    BY <2>1, <2>2 DEF Successes, Typed, Answers
  <2>6. \A k \in Kpis : \A t \in Labels :
            /\ r \notin SuccessesUnder(k, t)
            /\ IF a = "2xx" /\ k = route[r] /\ t = CountedUnder(r)
                 THEN SuccessesUnder(k, t)' = SuccessesUnder(k, t) \union {r}
                 ELSE SuccessesUnder(k, t)' = SuccessesUnder(k, t)
    BY <2>3, <2>4, <2>5 DEF SuccessesUnder, Successes
  <2>7. SUFFICES ASSUME NEW k \in Kpis
                 PROVE  /\ SumFunction(kpi'[k]) = Cardinality(Successes(k)')
                        /\ \A t \in Labels : kpi'[k][t] = Cardinality(SuccessesUnder(k, t)')
    BY DEF Funnel
  <2>8. CASE a = "2xx" /\ k = route[r]
    <3> DEFINE u == CountedUnder(r)
    <3>1. u \in Labels
      BY SeriesOfRequest
    <3> HIDE DEF u
    <3>2. kpi[k] \in [Labels -> Int] /\ kpi'[k] = [kpi[k] EXCEPT ![u] = @ + 1]
      BY <2>1, <2>8, <3>1 DEF Typed, u
    <3>3. SumFunction(kpi'[k]) = SumFunction(kpi[k]) + 1
      <4>1. 1 \in Int
        OBVIOUS
      <4> QED
        BY <3>1, <3>2, <4>1, SeriesAreFinite, SumOfChanged
    <3>4. SumFunction(kpi'[k]) = Cardinality(Successes(k)')
      BY <2>4, <2>5, <2>8, <3>3, SetsAreOfArrived, OneMore DEF Funnel
    <3>5. ASSUME NEW t \in Labels PROVE kpi'[k][t] = Cardinality(SuccessesUnder(k, t)')
      <4>1. kpi'[k][t] = IF t = u THEN kpi[k][t] + 1 ELSE kpi[k][t]
        BY <3>1, <3>2
      <4>2. kpi[k][t] = Cardinality(SuccessesUnder(k, t))
        BY DEF Funnel
      <4>3. IsFiniteSet(SuccessesUnder(k, t))
        BY SetsAreOfArrived
      <4>4. Cardinality(SuccessesUnder(k, t)')
              = IF t = u THEN Cardinality(SuccessesUnder(k, t)) + 1
                ELSE Cardinality(SuccessesUnder(k, t))
        <5>1. CASE t = u
          BY <2>6, <2>8, <4>3, <5>1, OneMore DEF u
        <5>2. CASE t # u
          BY <2>6, <2>8, <5>2 DEF u
        <5> QED
          BY <5>1, <5>2
      <4> QED
        BY <4>1, <4>2, <4>4
    <3> QED
      BY <3>4, <3>5
  <2>9. CASE ~(a = "2xx" /\ k = route[r])
    <3>1. kpi'[k] = kpi[k]
      BY <2>1, <2>9 DEF Typed
    <3>2. Successes(k)' = Successes(k) /\ \A t \in Labels : SuccessesUnder(k, t)' = SuccessesUnder(k, t)
      BY <2>5, <2>6, <2>9
    <3> QED
      BY <3>1, <3>2 DEF Funnel
  <2> QED
    BY <2>8, <2>9
<1>3. ASSUME NEW r \in Requests,
             \/ Arrive(r) \/ Refuse(r) \/ Proxy(r) \/ Hear(r) \/ FetchFails(r)
             \/ BackendArrives(r) \/ BackendFinishes(r) \/ ClientLeaves(r) \/ LinkBreaks(r)
             \/ ResponseBreaksOff(r)
      PROVE  Funnel'
  <2>1. UNCHANGED <<route, headers, status, kpi>>
    BY <1>3 DEF Arrive, Refuse, Proxy, Hear, FetchFails, BackendArrives, BackendFinishes,
                ClientLeaves, LinkBreaks, ResponseBreaksOff, request, numbers
  <2> QED
    BY <1>1, <2>1
<1>4. CASE Finished \/ UNCHANGED vars
  BY <1>1, <1>4 DEF Finished, vars, request, numbers
<1> QED
  BY <1>2, <1>3, <1>4 DEF Next

-----------------------------------------------------------------------------
(* What follows.                                                           *)

LEMMA MetricsStep == MetricsInv /\ [Next]_vars => MetricsInv'
BY TypedStep, LifeStep, FewArrivedStep, FailuresStep, TalliesStep, FunnelStep DEF MetricsInv

LEMMA MetricsAlways == Spec => []MetricsInv
BY InitMetrics, MetricsStep, PTL DEF Spec

LEMMA SmallerSet ==
    ASSUME NEW S, IsFiniteSet(S), NEW T, T \subseteq S
    PROVE  /\ Cardinality(T) \in Nat /\ Cardinality(S) \in Nat
           /\ Cardinality(T) <= Cardinality(S)
BY FS_Subset, FS_CardinalityType

\* Every number stays within what the requests that have arrived account for,
\* each counted once: an error is a request, a request ends once.
THEOREM TypeCorrect == Spec => []TypeOK
<1>1. MetricsInv => TypeOK
  <2> SUFFICES ASSUME MetricsInv PROVE TypeOK
    OBVIOUS
  <2> USE DEF MetricsInv
  <2> DEFINE n == Cardinality(Arrived)
  <2>1. n \in Nat
    BY FS_CardinalityType DEF FewArrived
  <2>2. ASSUME NEW s \in Metered
        PROVE  /\ Cardinality(Ended(s)) <= n /\ Cardinality(Entered(s)) <= n
               /\ Cardinality(Ended(s)) \in Nat /\ Cardinality(Entered(s)) \in Nat
    BY SetsAreOfArrived, SmallerSet DEF FewArrived
  <2>3. ASSUME NEW k \in Kpis, NEW t \in Labels
        PROVE  kpi[k][t] \in 0..n
    <3>1. /\ Cardinality(SuccessesUnder(k, t)) <= n
          /\ Cardinality(SuccessesUnder(k, t)) \in Nat
      BY SetsAreOfArrived, SmallerSet DEF FewArrived
    <3>2. kpi[k][t] = Cardinality(SuccessesUnder(k, t))
      BY DEF Funnel
    <3> QED
      BY <2>1, <3>1, <3>2
  <2> HIDE DEF n
  <2>4. ASSUME NEW s \in Metered
        PROVE  /\ \A x \in Series : gauge[s][x] \in -n..n
               /\ total[s] \in 0..n
               /\ errors[s] \in 0..total[s]
    <3>1. Tally(s) /\ total[s] \in Nat /\ errors[s] \in Nat /\ \A x \in Series : gauge[s][x] \in Int
      BY DEF Tallies, Typed
    <3> QED
      BY <2>1, <2>2, <3>1 DEF Tally
  <2>5. clientErrors \in 0..n
    <3>1. "gateway" \in Metered
      BY DEF Metered
    <3> QED
      BY <2>1, <2>2, <3>1 DEF Failures, Typed
  <2> QED
    BY <2>3, <2>4, <2>5 DEF TypeOK, Typed, n
<1> QED
  BY <1>1, MetricsAlways, PTL

\* A client that is told of a failure is one of the alerts' numbers, and no
\* failure is counted that no client had or would have had.
THEOREM FailuresAlwaysSurface == Spec => []FailuresSurface
<1>1. MetricsInv => FailuresSurface
  BY DEF MetricsInv, Failures, FailuresSurface, ToldFailure
<1> QED
  BY <1>1, MetricsAlways, PTL

\* A gauge is never less than what is under way, and more by just those whose
\* peer has left: label-svc's and the gateway's never come down from these.
THEOREM GaugesCountTheActive == Spec => []GaugeIsActive
<1>1. MetricsInv => GaugeIsActive
  <2> SUFFICES ASSUME MetricsInv, NEW s \in Metered
               PROVE  SumFunction(gauge[s]) = Cardinality(Inside(s)) + Cardinality(Abandoned(s))
    BY DEF GaugeIsActive
  <2> USE DEF MetricsInv
  <2>1. SumFunction(gauge[s]) = Cardinality(Inside(s) \union Abandoned(s))
    BY DEF Tallies, Tally, Up
  <2>2. IsFiniteSet(Inside(s)) /\ IsFiniteSet(Abandoned(s))
    BY SetsAreOfArrived
  <2>3. Inside(s) \intersect Abandoned(s) = {}
    BY DEF Inside, Abandoned, Left, Metered
  <2>4. Cardinality(Inside(s) \union Abandoned(s))
          = Cardinality(Inside(s)) + Cardinality(Abandoned(s)) - 0
    BY <2>2, <2>3, FS_Union, FS_EmptySet
  <2>5. Cardinality(Inside(s)) \in Nat /\ Cardinality(Abandoned(s)) \in Nat
    BY <2>2, FS_CardinalityType
  <2> QED
    BY <2>1, <2>4, <2>5
<1> QED
  BY <1>1, MetricsAlways, PTL

\* A quote, label or shipment a client was told of is in the funnel, and one
\* that was refused is not; under a tenant whose name baggage takes are all that
\* name it in the header and no other in the baggage, and none that does not
\* name it.
THEOREM FunnelCountsByTenant == Spec => []FunnelByTenant
<1>1. MetricsInv => FunnelByTenant
  <2> SUFFICES ASSUME MetricsInv, NEW k \in Kpis
               PROVE  /\ \A t \in Plain :
                            /\ Cardinality(ToldOf(Claiming(k, t))) <= kpi[k][t]
                            /\ kpi[k][t] <= Cardinality(NotRefused(Naming(k, t)))
                      /\ Cardinality(ToldOf(OfRoute(k))) <= SumFunction(kpi[k])
                      /\ SumFunction(kpi[k]) <= Cardinality(NotRefused(OfRoute(k)))
    BY DEF FunnelByTenant
  <2> USE DEF MetricsInv
  \* A 2xx is a success, and a success is no 4xx and no request never made.
  <2>1. ASSUME NEW r \in Requests
        PROVE  /\ told[r] = "2xx" => status[r] = "2xx"
               /\ status[r] = "2xx" => backend[r] # "idle" /\ told[r] # "4xx"
    BY DEF Life, Typed
  <2>2. ASSUME NEW few \in SUBSET Requests, NEW T, NEW many \in SUBSET Requests,
               T \subseteq Successes(k), few \intersect Successes(k) \subseteq T, T \subseteq many,
               few \subseteq OfRoute(k)
        PROVE  /\ Cardinality(ToldOf(few)) <= Cardinality(T)
               /\ Cardinality(T) <= Cardinality(NotRefused(many))
    <3>1. ToldOf(few) \subseteq T
      BY <2>1, <2>2 DEF ToldOf, OfRoute, Successes
    <3>2. T \subseteq NotRefused(many)
      BY <2>1, <2>2 DEF NotRefused, Successes
    <3>3. IsFiniteSet(T)
      BY <2>2, SetsAreOfArrived, FS_Subset
    <3>4. IsFiniteSet(NotRefused(many))
      <4>1. NotRefused(many) \subseteq Arrived
        BY <2>2 DEF NotRefused, Arrived, Life
      <4> QED
        BY <4>1, FS_Subset DEF FewArrived
    <3> QED
      BY <3>1, <3>2, <3>3, <3>4, SmallerSet
  \* Wherever a service looks first, it finds a claimed name, and no other than
  \* one of the two.
  <2>3. ASSUME NEW t \in Plain
        PROVE  /\ Cardinality(ToldOf(Claiming(k, t))) <= kpi[k][t]
               /\ kpi[k][t] <= Cardinality(NotRefused(Naming(k, t)))
    <3>1. t \in Labels /\ t # NoTenant
      BY RequestMetricsConstantsOK DEF Labels
    <3>2. ASSUME NEW r \in Requests, headers[r].tenant = t, headers[r].baggage \in {t, NoTenant}
          PROVE  CountedUnder(r) = t
      BY <3>1, <3>2 DEF CountedUnder, Forwarded, Named
    <3>3. ASSUME NEW r \in Requests, CountedUnder(r) = t
          PROVE  t \in {headers[r].tenant, headers[r].baggage}
      BY <3>1, <3>3 DEF CountedUnder, Forwarded, Named
    <3>4. /\ Claiming(k, t) \intersect Successes(k) \subseteq SuccessesUnder(k, t)
          /\ Claiming(k, t) \in SUBSET Requests /\ Claiming(k, t) \subseteq OfRoute(k)
      BY <3>2 DEF Claiming, SuccessesUnder, OfRoute
    <3>5. SuccessesUnder(k, t) \subseteq Naming(k, t) /\ Naming(k, t) \in SUBSET Requests
      BY <3>3 DEF Naming, SuccessesUnder, Successes
    <3>6. SuccessesUnder(k, t) \subseteq Successes(k)
      BY DEF SuccessesUnder
    <3>7. kpi[k][t] = Cardinality(SuccessesUnder(k, t))
      BY <3>1 DEF Funnel
    <3> QED
      BY <2>2, <3>4, <3>5, <3>6, <3>7
  <2>4. /\ Cardinality(ToldOf(OfRoute(k))) <= SumFunction(kpi[k])
        /\ SumFunction(kpi[k]) <= Cardinality(NotRefused(OfRoute(k)))
    <3>1. Successes(k) \subseteq OfRoute(k) /\ OfRoute(k) \in SUBSET Requests
      BY DEF Successes, OfRoute
    <3>2. SumFunction(kpi[k]) = Cardinality(Successes(k))
      BY DEF Funnel
    <3> QED
      BY <2>2, <3>1, <3>2
  <2> QED
    BY <2>3, <2>4
<1> QED
  BY <1>1, MetricsAlways, PTL
=============================================================================
