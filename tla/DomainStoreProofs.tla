-------------------------- MODULE DomainStoreProofs --------------------------
(***************************************************************************)
(* Proofs about DomainStore.  The three derivations of a vehicle's status  *)
(* agree on every table, so a snapshot has the statuses of the reference   *)
(* at the instant it was derived; between two boundaries no rental and no  *)
(* ticket begins or ends, so these statuses stay true; and the timer is    *)
(* due no later than the first boundary after it was armed.  A ranking is  *)
(* determined by its entries, because identifiers break every tie, so the  *)
(* offline figures are the server's: the sums behind them are compared     *)
(* rental by rental, the rankings entry by entry.                          *)
(***************************************************************************)
EXTENDS DomainStoreProps, FiniteSetTheorems, SequenceTheorems, WellFoundedInduction, TLAPS

(***************************************************************************)
(* Instants                                                                *)
(***************************************************************************)
LEMMA LeastExists ==
  ASSUME NEW S, S \subseteq Nat, S # {}
  PROVE  \E k \in S : \A j \in S : k <= j
<1> DEFINE T == {0 .. k : k \in S}
<1>1. \A k \in Nat : 0 .. k \in FiniteSubsetsOf(Nat)
  BY FS_Interval DEF FiniteSubsetsOf
<1>2. \E x \in T : \A y \in T : ~ (<<y, x>> \in StrictSubsetOrdering(Nat))
  <2>1. T # {} /\ T \subseteq FiniteSubsetsOf(Nat) BY <1>1
  <2> HIDE DEF T
  <2> QED BY <2>1, WFMin, FS_StrictSubsetOrderingWellFounded
<1>3. PICK k \in S : \A y \in T : ~ (<<y, 0 .. k>> \in StrictSubsetOrdering(Nat))
  BY <1>2
<1>4. ASSUME NEW j \in S PROVE k <= j
  <2>1. ~ (<<0 .. j, 0 .. k>> \in StrictSubsetOrdering(Nat)) BY <1>3
  <2>2. j \in Nat /\ k \in Nat OBVIOUS
  <2>3. SUFFICES ASSUME j < k PROVE FALSE BY <2>2
  <2>4. 0 .. j \subseteq 0 .. k /\ 0 .. j # 0 .. k /\ 0 .. k \subseteq Nat BY <2>2, <2>3
  <2> QED BY <2>1, <2>4 DEF StrictSubsetOrdering
<1> QED BY <1>4

\* The first of some instants that are all still to come.
LEMMA EarliestFacts ==
  ASSUME NEW n \in Int, NEW S, S \subseteq {t \in Int : t > n}, S # {}
  PROVE  Earliest(S) \in S /\ \A u \in S : Earliest(S) <= u
<1> DEFINE D == {t - n : t \in S}
<1>1. D \subseteq Nat /\ D # {} OBVIOUS
<1>2. PICK k \in D : \A j \in D : k <= j
  <2> HIDE DEF D
  <2> QED BY <1>1, LeastExists
<1>3. PICK t \in S : k = t - n OBVIOUS
<1>4. \A u \in S : t <= u
  <2>1. ASSUME NEW u \in S PROVE t <= u
    <3>1. u - n \in D /\ u \in Int /\ t \in Int OBVIOUS
    <3>2. t - n <= u - n BY <1>2, <1>3, <3>1
    <3> QED BY <3>1, <3>2
  <2> QED BY <2>1
<1> QED BY <1>4 DEF Earliest

LEMMA MidnightFacts == ASSUME NEW n \in Nat PROVE Midnight(n) \in Int /\ Midnight(n) > n
<1>1. DayLen \in Nat \ {0} BY CalendarUnits
<1>2. n \div DayLen \in Nat /\ n < (n \div DayLen + 1) * DayLen BY <1>1
<1>3. (n \div DayLen + 1) * DayLen \in Int BY <1>1, <1>2
<1> QED BY <1>2, <1>3 DEF Midnight, business_date

(***************************************************************************)
(* Sums over finite sets                                                   *)
(***************************************************************************)
\* What MapThenSumSet adds up: it picks elements one by one, and remembers the
\* totals of the subsets in a function.
Pick(s) == CHOOSE x \in s : TRUE
Adds(g, f, S) == g = [s \in SUBSET S |-> IF s = {} THEN 0 ELSE f[Pick(s)] + g[s \ {Pick(s)}]]
Total(f, S) == (CHOOSE g : Adds(g, f, S))[S]

\* Induction over the subsets of a finite set: what holds of a set if it holds
\* of all smaller ones holds of every one.
LEMMA SmallerFirst ==
  ASSUME NEW S, IsFiniteSet(S), NEW G,
         \A T \in SUBSET S : (\A U \in SUBSET T : U # T => U \in G) => T \in G
  PROVE  \A T \in SUBSET S : T \in G
<1> DEFINE bad == {T \in SUBSET S : T \notin G}
<1> SUFFICES ASSUME bad # {} PROVE FALSE OBVIOUS
<1>1. bad \subseteq FiniteSubsetsOf(S) BY FS_Subset DEF FiniteSubsetsOf
<1> HIDE DEF bad
<1>2. PICK T \in bad : \A U \in bad : ~ (<<U, T>> \in StrictSubsetOrdering(S))
  BY <1>1, WFMin, FS_StrictSubsetOrderingWellFounded
<1>3. T \in SUBSET S /\ T \notin G BY DEF bad
<1>4. ASSUME NEW U \in SUBSET T, U # T PROVE U \in G
  <2>1. <<U, T>> \in StrictSubsetOrdering(S) BY <1>3, <1>4 DEF StrictSubsetOrdering
  <2>2. U \notin bad BY <1>2, <2>1
  <2> QED BY <1>3, <2>2 DEF bad
<1> QED BY <1>3, <1>4

LEMMA OneMore ==
  ASSUME NEW S, IsFiniteSet(S), NEW G, {} \in G,
         \A T \in SUBSET S : T # {} /\ T \ {Pick(T)} \in G => T \in G
  PROVE  S \in G
<1>1. ASSUME NEW T \in SUBSET S, \A U \in SUBSET T : U # T => U \in G PROVE T \in G
  <2>1. CASE T = {} BY <2>1
  <2>2. CASE T # {}
    <3>1. Pick(T) \in T BY <2>2 DEF Pick
    <3>2. T \ {Pick(T)} \in SUBSET T /\ T \ {Pick(T)} # T BY <3>1
    <3> QED BY <1>1, <2>2, <3>2
  <2> QED BY <2>1, <2>2
<1> QED BY <1>1, SmallerFirst

LEMMA AddsFacts ==
  ASSUME NEW g, NEW f, NEW S, Adds(g, f, S), NEW s \in SUBSET S
  PROVE  g[s] = IF s = {} THEN 0 ELSE f[Pick(s)] + g[s \ {Pick(s)}]
BY DEF Adds

LEMMA AddsOnce ==
  ASSUME NEW f, NEW S, NEW T, NEW g, NEW h, Adds(g, f, S), Adds(h, f, T),
         NEW W, W \subseteq S, W \subseteq T, IsFiniteSet(W)
  PROVE  g[W] = h[W]
<1> DEFINE G == {U \in SUBSET W : g[U] = h[U]}
<1>1. {} \in G BY AddsFacts
<1>2. ASSUME NEW U \in SUBSET W, U # {}, U \ {Pick(U)} \in G PROVE U \in G
  <2>1. g[U] = f[Pick(U)] + g[U \ {Pick(U)}] /\ h[U] = f[Pick(U)] + h[U \ {Pick(U)}]
    BY <1>2, AddsFacts
  <2> QED BY <1>2, <2>1
<1>3. W \in G
  <2> HIDE DEF G
  <2> QED BY <1>1, <1>2, OneMore
<1> QED BY <1>3

LEMMA TotalExists ==
  ASSUME NEW f, NEW S, IsFiniteSet(S) PROVE \E g : Adds(g, f, S)
<1> DEFINE G == {T \in SUBSET S : \E g : Adds(g, f, T)}
<1>1. ASSUME NEW T \in SUBSET S, \A U \in SUBSET T : U # T => U \in G PROVE T \in G
  <2> DEFINE g == [s \in SUBSET T |-> IF s = {} THEN 0 ELSE f[Pick(s)] + Total(f, s \ {Pick(s)})]
  <2>1. ASSUME NEW s \in SUBSET T, s # {}
        PROVE  g[s \ {Pick(s)}] = Total(f, s \ {Pick(s)})
    <3> DEFINE u == s \ {Pick(s)}
               w == u \ {Pick(u)}
    <3>1. Pick(s) \in s BY <2>1 DEF Pick
    <3>2. u \in SUBSET T /\ u # T /\ w \in SUBSET T /\ w # T /\ w \subseteq u BY <3>1
    <3>3. IsFiniteSet(w) BY <3>2, FS_Subset
    <3> DEFINE hu == CHOOSE h : Adds(h, f, u)
               hw == CHOOSE h : Adds(h, f, w)
    <3>4. Adds(hu, f, u) /\ Adds(hw, f, w)
      <4>1. u \in G /\ w \in G BY <1>1, <3>2
      <4> HIDE DEF u, w
      <4> QED BY <4>1
    <3>5. Total(f, u) = hu[u] /\ Total(f, w) = hw[w] BY DEF Total
    <3>6. g[u] = IF u = {} THEN 0 ELSE f[Pick(u)] + Total(f, w) BY <3>2
    <3> HIDE DEF u, hu, hw, g
    <3>7. hu[u] = IF u = {} THEN 0 ELSE f[Pick(u)] + hu[w] BY <3>4, AddsFacts
    <3> HIDE DEF w
    <3>8. hu[w] = hw[w] BY <3>2, <3>3, <3>4, AddsOnce
    <3>9. g[u] = Total(f, u) BY <3>5, <3>6, <3>7, <3>8
    <3> QED BY <3>9 DEF u
  <2>2. g = [s \in SUBSET T |-> IF s = {} THEN 0 ELSE f[Pick(s)] + g[s \ {Pick(s)}]]
    <3>1. \A s \in SUBSET T : g[s] = IF s = {} THEN 0 ELSE f[Pick(s)] + g[s \ {Pick(s)}] BY <2>1
    <3>2. g = [s \in SUBSET T |-> g[s]] OBVIOUS
    <3> HIDE DEF g
    <3> QED BY <3>1, <3>2
  <2>3. Adds(g, f, T)
    <3> HIDE DEF g
    <3> QED BY <2>2 DEF Adds
  <2> QED BY <2>3
<1> HIDE DEF G
<1>2. S \in G BY <1>1, SmallerFirst
<1> QED BY <1>2 DEF G

LEMMA TotalFacts ==
  ASSUME NEW f, NEW S, IsFiniteSet(S)
  PROVE  Total(f, S) = IF S = {} THEN 0 ELSE f[Pick(S)] + Total(f, S \ {Pick(S)})
<1> DEFINE w == S \ {Pick(S)}
           g == CHOOSE h : Adds(h, f, S)
           h == CHOOSE k : Adds(k, f, w)
<1>1. IsFiniteSet(w) /\ w \subseteq S BY FS_Subset
<1>2. Adds(g, f, S) BY TotalExists
<1>3. Adds(h, f, w)
  <2> HIDE DEF w
  <2> QED BY <1>1, TotalExists
<1>4. Total(f, S) = g[S] /\ Total(f, w) = h[w] BY DEF Total
<1> HIDE DEF g, h
<1>5. g[S] = IF S = {} THEN 0 ELSE f[Pick(S)] + g[w] BY <1>2, AddsFacts
<1> HIDE DEF w
<1>6. g[w] = h[w] BY <1>1, <1>2, <1>3, AddsOnce
<1> QED BY <1>4, <1>5, <1>6 DEF w

LEMMA NoTotal == \A f : Total(f, {}) = 0
BY TotalFacts, FS_EmptySet

LEMMA TotalIsInt ==
  ASSUME NEW S, IsFiniteSet(S), NEW f, \A k \in S : f[k] \in Int PROVE Total(f, S) \in Int
<1> DEFINE G == {T \in SUBSET S : Total(f, T) \in Int}
<1>1. {} \in G BY NoTotal
<1>2. ASSUME NEW T \in SUBSET S, T # {}, T \ {Pick(T)} \in G PROVE T \in G
  <2>1. Total(f, T) = f[Pick(T)] + Total(f, T \ {Pick(T)}) BY <1>2, TotalFacts, FS_Subset
  <2>2. f[Pick(T)] \in Int BY <1>2 DEF Pick
  <2> QED BY <1>2, <2>1, <2>2
<1>3. S \in G
  <2> HIDE DEF G
  <2> QED BY <1>1, <1>2, OneMore
<1> QED BY <1>3

\* The sum of sums.
LEMMA TotalAdds ==
  ASSUME NEW S, IsFiniteSet(S), NEW f, NEW g, NEW h,
         \A k \in S : f[k] \in Int /\ g[k] \in Int /\ h[k] = f[k] + g[k]
  PROVE  Total(h, S) = Total(f, S) + Total(g, S)
<1> DEFINE G == {T \in SUBSET S : Total(h, T) = Total(f, T) + Total(g, T)}
<1>1. {} \in G BY NoTotal
<1>2. ASSUME NEW T \in SUBSET S, T # {}, T \ {Pick(T)} \in G PROVE T \in G
  <2> DEFINE U == T \ {Pick(T)}
             x == Pick(T)
  <2>1. x \in S BY <1>2 DEF Pick
  <2>2. IsFiniteSet(T) /\ IsFiniteSet(U) /\ U \subseteq S BY FS_Subset
  <2>3. /\ Total(f, T) = f[x] + Total(f, U) /\ Total(g, T) = g[x] + Total(g, U)
        /\ Total(h, T) = h[x] + Total(h, U)
    BY <1>2, <2>2, TotalFacts
  <2> HIDE DEF x
  <2>4. Total(h, U) = Total(f, U) + Total(g, U) BY <1>2
  <2> HIDE DEF U
  <2>5. Total(f, U) \in Int /\ Total(g, U) \in Int BY <2>2, TotalIsInt
  <2>6. f[x] \in Int /\ g[x] \in Int /\ h[x] = f[x] + g[x] BY <2>1
  <2> QED BY <2>3, <2>4, <2>5, <2>6
<1>3. S \in G
  <2> HIDE DEF G
  <2> QED BY <1>1, <1>2, OneMore
<1> QED BY <1>3

LEMMA TotalSame ==
  ASSUME NEW S, IsFiniteSet(S), NEW f, NEW g, \A k \in S : f[k] = g[k]
  PROVE  Total(f, S) = Total(g, S)
<1> DEFINE G == {T \in SUBSET S : Total(f, T) = Total(g, T)}
<1>1. {} \in G BY NoTotal
<1>2. ASSUME NEW T \in SUBSET S, T # {}, T \ {Pick(T)} \in G PROVE T \in G
  <2>1. /\ Total(f, T) = f[Pick(T)] + Total(f, T \ {Pick(T)})
        /\ Total(g, T) = g[Pick(T)] + Total(g, T \ {Pick(T)})
    BY <1>2, TotalFacts, FS_Subset
  <2>2. f[Pick(T)] = g[Pick(T)] BY <1>2 DEF Pick
  <2> QED BY <1>2, <2>1, <2>2
<1>3. S \in G
  <2> HIDE DEF G
  <2> QED BY <1>1, <1>2, OneMore
<1> QED BY <1>3

\* The order in which elements are picked does not matter.
LEMMA TotalAnyOrder ==
  ASSUME NEW S, IsFiniteSet(S), NEW f, \A k \in S : f[k] \in Int, NEW y \in S
  PROVE  Total(f, S) = f[y] + Total(f, S \ {y})
<1> DEFINE G == {T \in SUBSET S : \A x \in T : Total(f, T) = f[x] + Total(f, T \ {x})}
<1>1. ASSUME NEW T \in SUBSET S, \A U \in SUBSET T : U # T => U \in G PROVE T \in G
  <2> SUFFICES ASSUME NEW x \in T PROVE Total(f, T) = f[x] + Total(f, T \ {x}) OBVIOUS
  <2> DEFINE p == Pick(T)
  <2>1. p \in T BY DEF Pick
  <2>2. IsFiniteSet(T) BY FS_Subset
  <2>3. Total(f, T) = f[p] + Total(f, T \ {p}) BY <2>2, TotalFacts
  <2> HIDE DEF p
  <2>4. CASE x = p BY <2>3, <2>4
  <2>5. CASE x # p
    <3>1. T \ {p} \in G /\ T \ {x} \in G BY <1>1, <2>1
    <3>2. /\ Total(f, T \ {p}) = f[x] + Total(f, (T \ {p}) \ {x})
          /\ Total(f, T \ {x}) = f[p] + Total(f, (T \ {x}) \ {p})
      BY <2>1, <2>5, <3>1
    <3>3. Total(f, (T \ {p}) \ {x}) = Total(f, (T \ {x}) \ {p})
      <4>1. (T \ {p}) \ {x} = (T \ {x}) \ {p} OBVIOUS
      <4> QED BY <4>1
    <3>4. Total(f, (T \ {p}) \ {x}) \in Int
      <4>1. (T \ {p}) \ {x} \subseteq S OBVIOUS
      <4>2. IsFiniteSet((T \ {p}) \ {x}) BY <4>1, FS_Subset
      <4> QED BY <4>1, <4>2, TotalIsInt
    <3>5. f[x] \in Int /\ f[p] \in Int BY <2>1
    <3>6. Total(f, T) = f[p] + (f[x] + Total(f, (T \ {p}) \ {x})) BY <2>3, <3>2
    <3>7. Total(f, T \ {x}) = f[p] + Total(f, (T \ {p}) \ {x}) BY <3>2, <3>3
    <3> QED BY <3>4, <3>5, <3>6, <3>7
  <2> QED BY <2>4, <2>5
<1>2. S \in G
  <2> HIDE DEF G
  <2> QED BY <1>1, SmallerFirst
<1> QED BY <1>2

\* Rows that earn nothing may be left out.
LEMMA TotalOfFewer ==
  ASSUME NEW S, IsFiniteSet(S), NEW f, \A k \in S : f[k] \in Int,
         NEW W, W \subseteq S, \A k \in S \ W : f[k] = 0
  PROVE  Total(f, S) = Total(f, W)
<1> DEFINE G == {T \in SUBSET S : Total(f, T) = Total(f, T \cap W)}
<1>1. {} \in G
  <2>1. {} \cap W = {} OBVIOUS
  <2> QED BY <2>1
<1>2. ASSUME NEW T \in SUBSET S, T # {}, T \ {Pick(T)} \in G PROVE T \in G
  <2> DEFINE p == Pick(T)
             U == T \ {p}
  <2>1. p \in T BY <1>2 DEF Pick
  <2>2. IsFiniteSet(T) /\ IsFiniteSet(U) /\ IsFiniteSet(T \cap W) BY FS_Subset
  <2>3. Total(f, T) = f[p] + Total(f, U) BY <1>2, <2>2, TotalFacts
  <2>4. Total(f, U) = Total(f, U \cap W) BY <1>2
  <2> HIDE DEF p
  <2>5. CASE p \in W
    <3>1. Total(f, T \cap W) = f[p] + Total(f, (T \cap W) \ {p})
      <4>1. \A k \in T \cap W : f[k] \in Int OBVIOUS
      <4> QED BY <2>1, <2>2, <2>5, <4>1, TotalAnyOrder
    <3>2. (T \cap W) \ {p} = U \cap W OBVIOUS
    <3>3. Total(f, (T \cap W) \ {p}) = Total(f, U) BY <2>4, <3>2
    <3> HIDE DEF U
    <3>4. Total(f, T) = Total(f, T \cap W) BY <2>3, <3>1, <3>3
    <3> QED BY <3>4
  <2>6. CASE p \notin W
    <3>1. T \cap W = U \cap W /\ f[p] = 0 BY <2>1, <2>6
    <3>2. Total(f, U) \in Int BY <2>2, TotalIsInt
    <3>3. Total(f, T \cap W) = Total(f, U) BY <2>4, <3>1
    <3> HIDE DEF U
    <3>4. Total(f, T) = Total(f, T \cap W) BY <2>3, <3>1, <3>2, <3>3
    <3> QED BY <3>4
  <2> QED BY <2>5, <2>6
<1>3. S \in G
  <2> HIDE DEF G
  <2> QED BY <1>1, <1>2, OneMore
<1>4. S \cap W = W OBVIOUS
<1> QED BY <1>3, <1>4

(***************************************************************************)
(* Tables                                                                  *)
(***************************************************************************)
LEMMA TablesFacts ==
  ASSUME NEW d, AreTables(d)
  PROVE  /\ IsFiniteSet(DOMAIN d.veh) /\ \A v \in DOMAIN d.veh : d.veh[v] \in Statuses
         /\ \A k \in DOMAIN d.ren : /\ d.ren[k].start \in Int /\ d.ren[k].end \in Int
                                    /\ d.ren[k].cancelledAt \in Int \cup {Null}
                                    /\ Fits("ren", d.ren[k])
         /\ \A k \in DOMAIN d.tic : d.tic[k].start \in Int /\ _maintenance_end(d.tic[k]) \in Int
<1>1. /\ \A v \in DOMAIN d.veh : Fits("veh", d.veh[v])
      /\ \A k \in DOMAIN d.ren : Fits("ren", d.ren[k])
      /\ \A k \in DOMAIN d.tic : Fits("tic", d.tic[k])
  BY DEF AreTables
<1>2. ASSUME NEW v \in DOMAIN d.veh PROVE d.veh[v] \in Statuses
  BY <1>1 DEF Fits, Statuses
<1>3. ASSUME NEW k \in DOMAIN d.ren
      PROVE  /\ d.ren[k].start \in Int /\ d.ren[k].end \in Int
             /\ d.ren[k].cancelledAt \in Int \cup {Null} /\ Fits("ren", d.ren[k])
  <2>1. Fits("ren", d.ren[k]) BY <1>1
  <2> QED BY <2>1 DEF Fits
<1>4. ASSUME NEW k \in DOMAIN d.tic
      PROVE  d.tic[k].start \in Int /\ _maintenance_end(d.tic[k]) \in Int
  <2>1. Fits("tic", d.tic[k]) BY <1>1
  <2>2. d.tic[k].start \in Int /\ {d.tic[k].exp, d.tic[k].act} \subseteq Int \cup {Null}
    BY <2>1 DEF Fits
  <2> QED BY <2>2, FarFutureIsInstant DEF _maintenance_end
<1> QED BY <1>2, <1>3, <1>4 DEF AreTables

LEMMA EdgesFacts ==
  ASSUME NEW d, AreTables(d), NEW n \in Int
  PROVE  /\ Edges(d.ren, d.tic, n) \subseteq {t \in Int : t > n}
         /\ \A k \in DOMAIN d.ren : BlockingRental(d.ren[k]) =>
              \A t \in {d.ren[k].start, d.ren[k].end} : t > n => t \in Edges(d.ren, d.tic, n)
         /\ \A k \in DOMAIN d.tic : OpenTicket(d.tic[k]) =>
              \A t \in {d.tic[k].start, _maintenance_end(d.tic[k])} :
                t > n /\ t # FarFuture => t \in Edges(d.ren, d.tic, n)
<1> DEFINE starts == UNION {{d.ren[r].start, d.ren[r].end} :
                              r \in {k \in DOMAIN d.ren : BlockingRental(d.ren[k])}}
           tickets == UNION {{d.tic[m].start, _maintenance_end(d.tic[m])} \ {FarFuture} :
                               m \in {k \in DOMAIN d.tic : OpenTicket(d.tic[k])}}
<1>1. Edges(d.ren, d.tic, n) = {t \in starts \cup tickets : t > n} BY DEF Edges
<1>2. starts \subseteq Int BY TablesFacts
<1>3. tickets \subseteq Int BY TablesFacts
<1>4. \A k \in DOMAIN d.ren : BlockingRental(d.ren[k]) =>
        \A t \in {d.ren[k].start, d.ren[k].end} : t \in starts
  OBVIOUS
<1>5. \A k \in DOMAIN d.tic : OpenTicket(d.tic[k]) =>
        \A t \in {d.tic[k].start, _maintenance_end(d.tic[k])} : t # FarFuture => t \in tickets
  OBVIOUS
<1> HIDE DEF starts, tickets
<1> QED BY <1>1, <1>2, <1>3, <1>4, <1>5

(***************************************************************************)
(* Statuses                                                                *)
(***************************************************************************)
\* Between two boundaries no rental and no ticket begins or ends.
LEMMA RowsStable ==
  ASSUME NEW d, AreTables(d), NEW a \in Int, NEW b \in Int, a <= b, b < FarFuture,
         \A t \in Edges(d.ren, d.tic, a) : b < t
  PROVE  /\ \A k \in DOMAIN d.ren : /\ Out(d.ren[k], a) <=> Out(d.ren[k], b)
                                    /\ Upcoming(d.ren[k], a) <=> Upcoming(d.ren[k], b)
         /\ \A k \in DOMAIN d.tic : Occupies(d.tic[k], a) <=> Occupies(d.tic[k], b)
<1>1. ASSUME NEW k \in DOMAIN d.ren
      PROVE  /\ Out(d.ren[k], a) <=> Out(d.ren[k], b)
             /\ Upcoming(d.ren[k], a) <=> Upcoming(d.ren[k], b)
  <2>1. d.ren[k].start \in Int /\ d.ren[k].end \in Int BY TablesFacts
  <2>2. BlockingRental(d.ren[k]) => /\ d.ren[k].start > a => b < d.ren[k].start
                                    /\ d.ren[k].end > a => b < d.ren[k].end
    BY EdgesFacts
  <2> QED BY <2>1, <2>2 DEF Out, Upcoming
<1>2. ASSUME NEW k \in DOMAIN d.tic
      PROVE  Occupies(d.tic[k], a) <=> Occupies(d.tic[k], b)
  <2>1. d.tic[k].start \in Int /\ _maintenance_end(d.tic[k]) \in Int BY TablesFacts
  <2>2. OpenTicket(d.tic[k]) =>
          /\ d.tic[k].start > a /\ d.tic[k].start # FarFuture => b < d.tic[k].start
          /\ _maintenance_end(d.tic[k]) > a /\ _maintenance_end(d.tic[k]) # FarFuture
               => b < _maintenance_end(d.tic[k])
    BY EdgesFacts
  <2> QED BY <2>1, <2>2, FarFutureIsInstant DEF Occupies
<1> QED BY <1>1, <1>2

LEMMA StatusesStable ==
  ASSUME NEW d, AreTables(d), NEW a \in Int, NEW b \in Int, a <= b, b < FarFuture,
         \A t \in Edges(d.ren, d.tic, a) : b < t
  PROVE  StatusesAt(d, a) = StatusesAt(d, b)
<1>1. RefMaintenance(d.veh, d.tic, a) = RefMaintenance(d.veh, d.tic, b)
  BY RowsStable DEF RefMaintenance
<1>2. RefRented(d.veh, d.ren, d.tic, a) = RefRented(d.veh, d.ren, d.tic, b)
  BY <1>1, RowsStable DEF RefRented
<1>3. RefReserved(d.veh, d.ren, d.tic, a) = RefReserved(d.veh, d.ren, d.tic, b)
  BY <1>1, <1>2, RowsStable DEF RefReserved
<1> QED BY <1>1, <1>2, <1>3 DEF StatusesAt, effective_statuses

LEMMA StatusesInRange ==
  ASSUME NEW d, AreTables(d), NEW t
  PROVE  StatusesAt(d, t) \in [DOMAIN d.veh -> Statuses]
BY TablesFacts DEF StatusesAt, effective_statuses, Statuses, Operational

\* The backend selects rows of any vehicle and orders the answers; the reference
\* leaves vehicles out while it builds its sets.
LEMMA SqlAgrees ==
  ASSUME NEW vs, NEW rs, NEW ms, NEW t
  PROVE  compute_effective_statuses(vs, rs, ms, t) = effective_statuses(vs, rs, ms, t)
<1> SUFFICES ASSUME NEW v \in DOMAIN vs
             PROVE  compute_effective_statuses(vs, rs, ms, t)[v] = effective_statuses(vs, rs, ms, t)[v]
  BY DEF compute_effective_statuses, effective_statuses
<1>1. v \in structural(vs) <=> vs[v] \in STRUCTURAL_STATUSES BY DEF structural
<1>2. ASSUME v \notin structural(vs)
      PROVE  v \in RefMaintenance(vs, ms, t) <=> v \in SqlMaintenance(ms, t)
  BY <1>2 DEF RefMaintenance, SqlMaintenance
<1>3. ASSUME v \notin structural(vs), v \notin RefMaintenance(vs, ms, t)
      PROVE  /\ v \in RefRented(vs, rs, ms, t) <=> v \in SqlRented(rs, t)
             /\ v \in RefReserved(vs, rs, ms, t) <=> v \in SqlReserved(rs, t)
  BY <1>3 DEF RefRented, SqlRented, RefReserved, SqlReserved
<1> QED BY <1>1, <1>2, <1>3 DEF compute_effective_statuses, effective_statuses

\* The desktop's three sets are the reference's, orphan rows or not.
LEMMA LocalSets ==
  ASSUME NEW vs, NEW rs, NEW ms, NEW t
  PROVE  LET s == compute_fleet_sets_rows(vs, rs, ms, t) IN
         /\ s.maintenance = RefMaintenance(vs, ms, t)
         /\ s.rented = RefRented(vs, rs, ms, t)
         /\ s.reserved = RefReserved(vs, rs, ms, t)
         /\ s.total = Cardinality({v \in DOMAIN vs : vs[v] \notin STRUCTURAL_STATUSES})
<1> DEFINE maint == {ms[m].veh : m \in {k \in DOMAIN ms :
                  /\ Occupies(ms[k], t)
                  /\ ms[k].veh \in DOMAIN vs \ structural(vs)}}
           free(r) == rs[r].veh \in DOMAIN vs \ (structural(vs) \cup maint)
           rented == {rs[r].veh : r \in {k \in DOMAIN rs : Out(rs[k], t) /\ free(k)}}
           reserved == {rs[r].veh : r \in {k \in DOMAIN rs : Upcoming(rs[k], t) /\ free(k)}}
<1>1. maint = RefMaintenance(vs, ms, t) BY DEF RefMaintenance
<1>2. rented = RefRented(vs, rs, ms, t)
  <2>1. \A r : free(r) <=> rs[r].veh \in DOMAIN vs \ (structural(vs) \cup RefMaintenance(vs, ms, t))
    BY <1>1
  <2> HIDE DEF free
  <2> QED BY <2>1 DEF RefRented
<1>3. reserved \ rented = RefReserved(vs, rs, ms, t)
  <2>1. \A r : free(r) <=> rs[r].veh \in DOMAIN vs \ (structural(vs) \cup RefMaintenance(vs, ms, t))
    BY <1>1
  <2> HIDE DEF free, rented
  <2> QED BY <1>2, <2>1 DEF RefReserved
<1>4. compute_fleet_sets_rows(vs, rs, ms, t) =
        [rented |-> rented, reserved |-> reserved \ rented, maintenance |-> maint,
         total |-> Cardinality({v \in DOMAIN vs : vs[v] \notin STRUCTURAL_STATUSES})]
  BY DEF compute_fleet_sets_rows
<1> HIDE DEF maint, rented, reserved
<1> QED BY <1>1, <1>2, <1>3, <1>4

LEMMA LocalAgrees ==
  ASSUME NEW vs, NEW rs, NEW ms, NEW t
  PROVE  effective_statuses_rows(vs, rs, ms, t) = effective_statuses(vs, rs, ms, t)
<1> DEFINE s == compute_fleet_sets_rows(vs, rs, ms, t)
<1>1. /\ s.maintenance = RefMaintenance(vs, ms, t) /\ s.rented = RefRented(vs, rs, ms, t)
      /\ s.reserved = RefReserved(vs, rs, ms, t)
  BY LocalSets
<1>2. effective_statuses_rows(vs, rs, ms, t) = [v \in DOMAIN vs |-> effective_status(vs[v], v, s)]
  BY DEF effective_statuses_rows
<1> HIDE DEF s
<1>3. ASSUME NEW v \in DOMAIN vs
      PROVE  effective_status(vs[v], v, s) = effective_statuses(vs, rs, ms, t)[v]
  BY <1>1 DEF effective_status, effective_statuses, structural
<1>4. effective_statuses(vs, rs, ms, t) = [v \in DOMAIN vs |-> effective_statuses(vs, rs, ms, t)[v]]
  BY DEF effective_statuses
<1> QED BY <1>2, <1>3, <1>4

\* The desktop counts the available vehicles by subtraction.
LEMMA CountsAgree ==
  ASSUME NEW vs, NEW rs, NEW ms, NEW t,
         IsFiniteSet(DOMAIN vs), \A v \in DOMAIN vs : vs[v] \in Statuses
  PROVE  compute_fleet_counts_rows(vs, rs, ms, t) = CountsOf(effective_statuses(vs, rs, ms, t))
<1> DEFINE eff  == effective_statuses(vs, rs, ms, t)
           all  == {v \in DOMAIN vs : vs[v] \notin STRUCTURAL_STATUSES}
           M    == RefMaintenance(vs, ms, t)
           R    == RefRented(vs, rs, ms, t)
           B    == RefReserved(vs, rs, ms, t)
           A    == all \ (M \cup R \cup B)
<1>1. /\ DOMAIN eff = DOMAIN vs
      /\ {v \in DOMAIN eff : eff[v] \in Operational} = all
      /\ {v \in DOMAIN eff : eff[v] = "MAINTENANCE"} = M
      /\ {v \in DOMAIN eff : eff[v] = "RENTED"} = R
      /\ {v \in DOMAIN eff : eff[v] = "RESERVED"} = B
      /\ {v \in DOMAIN eff : eff[v] = "AVAILABLE"} = A
  <2>1. /\ M \subseteq all /\ R \subseteq all \ M /\ B \subseteq all \ (M \cup R)
    BY DEF RefMaintenance, RefRented, RefReserved, structural
  <2>2. /\ DOMAIN eff = DOMAIN vs
        /\ \A v \in DOMAIN vs : eff[v] = IF v \notin all THEN vs[v]
             ELSE IF v \in M THEN "MAINTENANCE" ELSE IF v \in R THEN "RENTED"
             ELSE IF v \in B THEN "RESERVED" ELSE "AVAILABLE"
    BY DEF effective_statuses, structural
  <2>3. \A v \in DOMAIN vs \ all : vs[v] \notin Operational
    BY DEF Operational, STRUCTURAL_STATUSES
  <2>4. all \subseteq DOMAIN vs OBVIOUS
  <2> HIDE DEF eff, all, M, R, B
  <2> QED BY <2>1, <2>2, <2>3, <2>4 DEF Operational
<1>2. /\ M \subseteq all /\ R \subseteq all \ M /\ B \subseteq all \ (M \cup R)
  BY DEF RefMaintenance, RefRented, RefReserved, structural
<1>3. IsFiniteSet(all)
  <2>1. all \subseteq DOMAIN vs OBVIOUS
  <2> QED BY <2>1, FS_Subset
<1> HIDE DEF eff, all, M, R, B
<1>4. /\ IsFiniteSet(M) /\ IsFiniteSet(R) /\ IsFiniteSet(B) /\ IsFiniteSet(A)
  BY <1>2, <1>3, FS_Subset
<1>5. Cardinality(all) = Cardinality(M) + Cardinality(R) + Cardinality(B) + Cardinality(A)
  <2>1. Cardinality(M \cup R) = Cardinality(M) + Cardinality(R) - Cardinality(M \cap R)
        /\ IsFiniteSet(M \cup R)
    BY <1>4, FS_Union
  <2>2. Cardinality((M \cup R) \cup B) =
          Cardinality(M \cup R) + Cardinality(B) - Cardinality((M \cup R) \cap B)
        /\ IsFiniteSet((M \cup R) \cup B)
    BY <1>4, <2>1, FS_Union
  <2>3. Cardinality(((M \cup R) \cup B) \cup A) =
          Cardinality((M \cup R) \cup B) + Cardinality(A) - Cardinality(((M \cup R) \cup B) \cap A)
    BY <1>4, <2>2, FS_Union
  <2>4. M \cap R = {} /\ (M \cup R) \cap B = {} /\ ((M \cup R) \cup B) \cap A = {}
        /\ ((M \cup R) \cup B) \cup A = all
    BY <1>2
  <2>5. /\ Cardinality(M \cap R) = 0 /\ Cardinality((M \cup R) \cap B) = 0
        /\ Cardinality(((M \cup R) \cup B) \cap A) = 0
    BY <2>4, FS_EmptySet
  <2>6. Cardinality(all) = Cardinality((M \cup R) \cup B) + Cardinality(A) - 0 BY <2>3, <2>4, <2>5
  <2>7. /\ Cardinality(M) \in Nat /\ Cardinality(R) \in Nat /\ Cardinality(B) \in Nat
        /\ Cardinality(A) \in Nat
    BY <1>4, FS_CardinalityType
  <2> QED BY <2>1, <2>2, <2>5, <2>6, <2>7
<1>6. \A s \in {M, R, B, A} : Cardinality(s) \in Nat BY <1>4, FS_CardinalityType
<1> DEFINE s == compute_fleet_sets_rows(vs, rs, ms, t)
<1>7. s.maintenance = M /\ s.rented = R /\ s.reserved = B /\ s.total = Cardinality(all)
  BY LocalSets DEF M, R, B, all
<1> HIDE DEF s
<1>8. AtLeastZero(s.total - Cardinality(s.rented) - Cardinality(s.reserved)
                  - Cardinality(s.maintenance)) = Cardinality(A)
  <2> HIDE DEF A
  <2> QED BY <1>5, <1>6, <1>7 DEF AtLeastZero
<1>9. compute_fleet_counts_rows(vs, rs, ms, t) =
        [total_vehicles |-> s.total,
         available   |-> AtLeastZero(s.total - Cardinality(s.rented) - Cardinality(s.reserved)
                                     - Cardinality(s.maintenance)),
         reserved    |-> Cardinality(s.reserved),
         rented      |-> Cardinality(s.rented),
         maintenance |-> Cardinality(s.maintenance)]
  BY DEF compute_fleet_counts_rows, s
<1>10. CountsOf(eff) =
        [total_vehicles |-> Cardinality(all), available |-> Cardinality(A),
         reserved |-> Cardinality(B), rented |-> Cardinality(R), maintenance |-> Cardinality(M)]
  BY <1>1 DEF CountsOf, Bucket
<1> QED BY <1>7, <1>8, <1>9, <1>10 DEF eff

(***************************************************************************)
(* What the steps do to the tables                                         *)
(***************************************************************************)
LEMMA EmptyTables == AreTables(NoTables) /\ NoOrphans(NoTables)
<1>1. DOMAIN Empty = {} BY DEF Empty
<1>2. /\ DOMAIN NoTables = {"veh", "ren", "tic"}
      /\ NoTables.veh = Empty /\ NoTables.ren = Empty /\ NoTables.tic = Empty
  BY DEF NoTables
<1>3. IsFiniteSet(DOMAIN NoTables.veh) BY <1>1, <1>2, FS_EmptySet
<1> QED BY <1>1, <1>2, <1>3 DEF AreTables, NoOrphans

LEMMA ApplyFacts ==
  ASSUME NEW d, AreTables(d), NEW c \in Changes PROVE AreTables(Apply(d, c))
<1> DEFINE old == d[c.table]
           new == IF c.row = Gone THEN [k \in DOMAIN old \ {c.key} |-> old[k]]
                  ELSE [k \in DOMAIN old \cup {c.key} |-> IF k = c.key THEN c.row ELSE old[k]]
<1>1. c.table \in {"veh", "ren", "tic"} /\ (c.row # Gone => Fits(c.table, c.row))
  BY TablesAreTables
<1>2. Apply(d, c) = [d EXCEPT ![c.table] = new] BY DEF Apply
<1>3. DOMAIN d = {"veh", "ren", "tic"} /\ \A k \in DOMAIN old : Fits(c.table, old[k])
  BY <1>1 DEF AreTables
<1>4. \A k \in DOMAIN new : Fits(c.table, new[k])
  <2>1. CASE c.row = Gone BY <1>3, <2>1
  <2>2. CASE c.row # Gone BY <1>1, <1>3, <2>2
  <2> QED BY <2>1, <2>2
<1>5. IsFiniteSet(DOMAIN old) => IsFiniteSet(DOMAIN new)
  <2> SUFFICES ASSUME IsFiniteSet(DOMAIN old) PROVE IsFiniteSet(DOMAIN new) OBVIOUS
  <2>1. CASE c.row = Gone
    <3>1. DOMAIN new = DOMAIN old \ {c.key} BY <2>1
    <3> HIDE DEF old, new
    <3> QED BY <3>1, FS_RemoveElement
  <2>2. CASE c.row # Gone
    <3>1. DOMAIN new = DOMAIN old \cup {c.key} BY <2>2
    <3> HIDE DEF old, new
    <3> QED BY <3>1, FS_AddElement
  <2> QED BY <2>1, <2>2
<1> HIDE DEF new
<1>6. /\ DOMAIN Apply(d, c) = {"veh", "ren", "tic"} /\ Apply(d, c)[c.table] = new
      /\ \A table \in {"veh", "ren", "tic"} \ {c.table} : Apply(d, c)[table] = d[table]
  BY <1>1, <1>2, <1>3
<1>7. ASSUME NEW table \in {"veh", "ren", "tic"} PROVE IsFiniteSet(DOMAIN Apply(d, c)[table])
  BY <1>1, <1>5, <1>6 DEF AreTables
<1>8. ASSUME NEW table \in {"veh", "ren", "tic"}, NEW k \in DOMAIN Apply(d, c)[table]
      PROVE  Fits(table, Apply(d, c)[table][k])
  BY <1>3, <1>4, <1>6 DEF AreTables
<1> QED BY <1>6, <1>7, <1>8 DEF AreTables

LEMMA ReadFacts ==
  ASSUME NEW d, AreTables(d), NEW e, AreTables(e), NEW table \in {"veh", "ren", "tic"}
  PROVE  AreTables([d EXCEPT ![table] = e[table]])
<1> DEFINE n == [d EXCEPT ![table] = e[table]]
<1>1. /\ DOMAIN n = {"veh", "ren", "tic"}
      /\ \A x \in {"veh", "ren", "tic"} : n[x] = d[x] \/ n[x] = e[x]
  BY DEF AreTables
<1>2. n.veh = d.veh \/ n.veh = e.veh BY <1>1
<1> HIDE DEF n
<1>3. IsFiniteSet(DOMAIN n.veh) BY <1>2 DEF AreTables
<1>4. ASSUME NEW x \in {"veh", "ren", "tic"}, NEW k \in DOMAIN n[x] PROVE Fits(x, n[x][k])
  BY <1>1 DEF AreTables
<1>5. AreTables(n) BY <1>1, <1>3, <1>4 DEF AreTables
<1> QED BY <1>5 DEF n

LEMMA VisibleFacts ==
  ASSUME NEW d, AreTables(d) PROVE AreTables(Visible(d)) /\ NoOrphans(Visible(d))
<1> DEFINE n == Visible(d)
<1>1. /\ DOMAIN n = {"veh", "ren", "tic"} /\ n.veh = d.veh
      /\ n.ren = _rows_from_session(d.veh, d.ren) /\ n.tic = _rows_from_session(d.veh, d.tic)
  BY DEF Visible
<1>2. ASSUME NEW t PROVE
        \A k \in DOMAIN _rows_from_session(d.veh, t) :
          /\ k \in DOMAIN t /\ _rows_from_session(d.veh, t)[k] = t[k] /\ t[k].veh \in DOMAIN d.veh
  BY DEF _rows_from_session
<1> HIDE DEF n
<1>3. NoOrphans(n)
  <2>1. \A k \in DOMAIN n.ren : n.ren[k].veh \in DOMAIN n.veh BY <1>1, <1>2
  <2>2. \A k \in DOMAIN n.tic : n.tic[k].veh \in DOMAIN n.veh BY <1>1, <1>2
  <2> QED BY <2>1, <2>2 DEF NoOrphans
<1>4. AreTables(n)
  <2>1. \A k \in DOMAIN n.veh : Fits("veh", n.veh[k]) BY <1>1 DEF AreTables
  <2>2. \A k \in DOMAIN n.ren : Fits("ren", n.ren[k]) BY <1>1, <1>2 DEF AreTables
  <2>3. \A k \in DOMAIN n.tic : Fits("tic", n.tic[k]) BY <1>1, <1>2 DEF AreTables
  <2>4. IsFiniteSet(DOMAIN n.veh) BY <1>1 DEF AreTables
  <2>5. IsFiniteSet(DOMAIN n.ren) /\ IsFiniteSet(DOMAIN n.tic)
    <3>1. DOMAIN n.ren \subseteq DOMAIN d.ren /\ DOMAIN n.tic \subseteq DOMAIN d.tic
      BY <1>1, <1>2
    <3>2. IsFiniteSet(DOMAIN d.ren) /\ IsFiniteSet(DOMAIN d.tic) BY DEF AreTables
    <3> QED BY <3>1, <3>2, FS_Subset
  <2> QED BY <1>1, <2>1, <2>2, <2>3, <2>4, <2>5 DEF AreTables
<1> QED BY <1>3, <1>4 DEF n

LEMMA BuildFacts ==
  ASSUME now \in Nat, NEW d, AreTables(d), NEW at \in 0 .. now, NEW held
  PROVE  IsSnapshot(_build_snapshot(d, at, held))
<1> DEFINE e == Visible(d)
           s == _build_snapshot(d, at, held)
<1>1. AreTables(e) /\ NoOrphans(e) BY VisibleFacts
<1> HIDE DEF e
<1>2. /\ DOMAIN s = {"at", "derived", "tables", "effective", "counts", "overview"}
      /\ s.at = at /\ s.derived = at /\ s.tables = e
      /\ s.effective = effective_statuses_rows(e.veh, e.ren, e.tic, at)
  BY DEF _build_snapshot, BuildFromAnyRow, e
<1> HIDE DEF s
<1>3. s.effective = StatusesAt(e, at) BY <1>2, LocalAgrees DEF StatusesAt
<1>4. s.at \in 0 .. now /\ s.derived \in s.at .. now BY <1>2
<1>5. IsSnapshot(s) BY <1>1, <1>2, <1>3, <1>4 DEF IsSnapshot
<1> QED BY <1>5 DEF s

\* A boundary: the statuses are derived again; a boundary that changes none of them
\* leaves statuses that are those of this instant too.
LEMMA RecomputeFacts ==
  ASSUME now \in Nat, NEW s, IsSnapshot(s), NEW held
  PROVE  LET r == recompute_effective(s, held, now) IN
         /\ IsSnapshot(r)
         /\ Shown(r) = Shown(s) => IsSnapshot([s EXCEPT !.derived = now])
<1> DEFINE r == recompute_effective(s, held, now)
           q == [s EXCEPT !.derived = now]
<1>1. DOMAIN s = {"at", "derived", "tables", "effective", "counts", "overview"} BY DEF IsSnapshot
<1>2. /\ DOMAIN r = DOMAIN s /\ r.at = now /\ r.derived = now /\ r.tables = s.tables
      /\ r.effective = effective_statuses_rows(s.tables.veh, s.tables.ren, s.tables.tic, now)
  BY <1>1 DEF recompute_effective
<1> HIDE DEF r
<1>3. r.effective = StatusesAt(s.tables, now) BY <1>2, LocalAgrees DEF StatusesAt
<1>4. IsSnapshot(r) BY <1>1, <1>2, <1>3 DEF IsSnapshot
<1>5. ASSUME Shown(r) = Shown(s) PROVE IsSnapshot(q)
  <2>1. Shown(r).effective = Shown(s).effective BY <1>5
  <2>2. r.effective = s.effective BY <2>1 DEF Shown
  <2>3. /\ DOMAIN q = DOMAIN s /\ q.at = s.at /\ q.derived = now /\ q.tables = s.tables
        /\ q.effective = s.effective
    BY <1>1
  <2>4. AreTables(s.tables) /\ NoOrphans(s.tables) /\ s.at \in 0 .. now BY DEF IsSnapshot
  <2>5. now \in s.at .. now BY <2>4
  <2> HIDE DEF q
  <2>6. /\ AreTables(q.tables) /\ NoOrphans(q.tables) /\ q.at \in 0 .. now
        /\ q.derived \in q.at .. now
    BY <2>3, <2>4, <2>5
  <2>7. q.effective = StatusesAt(q.tables, q.derived) BY <1>3, <2>2, <2>3
  <2> QED BY <1>1, <2>3, <2>6, <2>7 DEF IsSnapshot
<1> QED BY <1>4, <1>5 DEF r

(***************************************************************************)
(* Money                                                                   *)
(***************************************************************************)
LEMMA DivFacts ==
  ASSUME NEW d \in Nat \ {0}, NEW n \in Int
  PROVE  /\ n \div d \in Int /\ (n \div d) * d \in Int
         /\ (n \div d) * d <= n /\ n < (n \div d) * d + d
OBVIOUS

LEMMA TimesGrows == \A d \in Nat : \A a, b \in Int : a <= b => a * d <= b * d
OBVIOUS

\* n days begin no later than x instants after the start exactly if n - 1 have passed.
LEMMA DaysBegun ==
  ASSUME NEW d \in Nat \ {0}, NEW x \in Nat \ {0}, NEW n \in Int, x <= n
  PROVE  (x + d - 1) \div d <= (n \div d) + 1
<1> DEFINE q == (x + d - 1) \div d
           a == n \div d
<1>1. q \in Int /\ a \in Int /\ q * d \in Int /\ a * d \in Int BY DivFacts
<1>2. q * d <= x + d - 1 /\ n < a * d + d BY DivFacts
<1> HIDE DEF q, a
<1>3. SUFFICES ASSUME a + 2 <= q PROVE FALSE BY <1>1 DEF q, a
<1>4. (a + 2) * d <= q * d BY <1>1, <1>3, TimesGrows
<1>5. (a + 2) * d = a * d + d + d BY <1>1
<1> QED BY <1>1, <1>2, <1>4, <1>5

\* The form of the desktop never charges more days than the server would.
LEMMA DatesBetween ==
  ASSUME NEW s \in Nat, NEW e \in Nat, s < e
  PROVE  _recalculate(s, e) \in 1 .. calculate_days(s, e) /\ calculate_days(s, e) \in Nat
<1> DEFINE a == s \div DayLen
           b == e \div DayLen
           x == e - s + DayLen - 1
           q == x \div DayLen
<1>1. DayLen \in Nat \ {0} /\ x \in Int BY CalendarUnits
<1>2. a \in Int /\ b \in Int /\ q \in Int BY <1>1, DivFacts
<1>3. /\ a * DayLen \in Int /\ b * DayLen \in Int /\ q * DayLen \in Int
      /\ s < a * DayLen + DayLen /\ b * DayLen <= e /\ x < q * DayLen + DayLen
  BY <1>1, DivFacts
<1>4. calculate_days(s, e) = Greatest(1, q) /\ _recalculate(s, e) = Greatest(1, b - a)
  BY DEF calculate_days, _recalculate, business_date
<1>5. b * DayLen - a * DayLen < q * DayLen + DayLen
  <2> HIDE DEF a, b, q
  <2> QED BY <1>1, <1>3
<1> HIDE DEF a, b, q, x
<1>6. b - a <= q
  <2> SUFFICES ASSUME q + 1 <= b - a PROVE FALSE BY <1>2
  <2>1. (q + 1) * DayLen <= (b - a) * DayLen BY <1>1, <1>2, TimesGrows
  <2>2. (q + 1) * DayLen = q * DayLen + DayLen /\ (b - a) * DayLen = b * DayLen - a * DayLen
    BY <1>1, <1>2
  <2> QED BY <1>1, <1>3, <1>5, <2>1, <2>2
<1> QED BY <1>2, <1>4, <1>6 DEF Greatest

LEMMA RentalFacts ==
  ASSUME NEW r, Fits("ren", r)
  PROVE  /\ r.start \in Nat /\ r.end \in Nat /\ r.start < r.end /\ r.days \in Nat \ {0}
         /\ r.days <= calculate_days(r.start, r.end)
         /\ r.cancelledAt \in Int \cup {Null}
         /\ r.status \in {"RESERVED", "ACTIVE", "COMPLETED", "CANCELLED"}
         /\ business_date(r.start) \in Nat /\ business_date(r.start) + r.days <= FarFuture
         /\ r.price \div r.days \in Nat /\ (r.price \div r.days) * r.days = r.price
<1>1. /\ r.start \in Nat /\ r.end \in Nat /\ r.start < r.end
      /\ r.cancelledAt \in Int \cup {Null}
      /\ r.status \in {"RESERVED", "ACTIVE", "COMPLETED", "CANCELLED"}
      /\ r.days \in {calculate_days(r.start, r.end), _recalculate(r.start, r.end)}
      /\ business_date(r.start) + r.days <= FarFuture
      /\ r.price \in Nat /\ r.price % r.days = 0
  BY DEF Fits, BLOCKING_RESERVATION_STATUSES
<1>2. DayLen \in Nat \ {0} BY CalendarUnits
<1>3. r.days \in Nat \ {0} /\ r.days <= calculate_days(r.start, r.end)
  <2>1. /\ _recalculate(r.start, r.end) \in 1 .. calculate_days(r.start, r.end)
        /\ calculate_days(r.start, r.end) \in Nat
    BY <1>1, DatesBetween
  <2> QED BY <1>1, <2>1
<1>4. business_date(r.start) \in Nat BY <1>1, <1>2 DEF business_date
<1>5. r.price \div r.days \in Nat /\ (r.price \div r.days) * r.days = r.price BY <1>1, <1>3
<1> QED BY <1>1, <1>3, <1>4, <1>5

LEMMA SlotsFacts ==
  ASSUME NEW start \in Int, NEW days \in Nat, NEW n \in Int
  PROVE  _realised_days(start, days, n) \in 0 .. days
<1>1. DayLen \in Nat \ {0} BY CalendarUnits
<1>2. (n - start) \div DayLen \in Int BY <1>1, DivFacts
<1> QED BY <1>2 DEF _realised_days, Least, Greatest

LEMMA RealisedFacts ==
  ASSUME NEW r, Fits("ren", r), NEW n \in Int
  PROVE  /\ Realised(r, n) \in 0 .. r.days /\ _realised_for_row(r, n) \in 0 .. r.days
         /\ r.status = "COMPLETED" \/ (r.status # "CANCELLED" /\ r.end <= n)
              => Realised(r, n) = r.days
<1>1. /\ r.start \in Nat /\ r.end \in Nat /\ r.start < r.end /\ r.days \in Nat \ {0}
      /\ r.cancelledAt \in Int \cup {Null}
  BY RentalFacts
<1>2. Least(n, InterruptedAt(r)) \in Int BY <1>1 DEF Least, InterruptedAt
<1>3. /\ _realised_days(r.start, r.days, Least(n, InterruptedAt(r))) \in 0 .. r.days
      /\ _realised_days(r.start, r.days, n) \in 0 .. r.days
  <2>1. r.start \in Int /\ r.days \in Nat BY <1>1
  <2>2. \A m \in Int : _realised_days(r.start, r.days, m) \in 0 .. r.days BY <2>1, SlotsFacts
  <2> QED BY <1>2, <2>2
<1>4. Realised(r, n) \in 0 .. r.days BY <1>1, <1>3 DEF Realised
<1>5. _realised_for_row(r, n) \in 0 .. r.days BY <1>1, <1>3 DEF _realised_for_row
<1>6. ASSUME r.end <= n PROVE _realised_days(r.start, r.days, n) = r.days
  <2> DEFINE x == r.end - r.start
             a == (n - r.start) \div DayLen
             q == (x + DayLen - 1) \div DayLen
  <2>1. DayLen \in Nat \ {0} BY CalendarUnits
  <2>2. x \in Nat \ {0} /\ n - r.start \in Int /\ x <= n - r.start BY <1>1, <1>6
  <2>3. q <= a + 1
    <3> HIDE DEF x
    <3> QED BY <2>1, <2>2, DaysBegun
  <2>4. a \in Int /\ q \in Int /\ 0 <= a
    <3>1. n - r.start \in Nat BY <2>2
    <3> QED BY <2>1, <2>2, <3>1, DivFacts
  <2>5. r.days <= Greatest(1, q) /\ r.days \in Nat BY RentalFacts DEF calculate_days
  <2>6. _realised_days(r.start, r.days, n) = Greatest(0, Least(r.days, a + 1)) BY DEF _realised_days
  <2> HIDE DEF a, q
  <2> QED BY <2>3, <2>4, <2>5, <2>6 DEF Greatest, Least
<1>7. ASSUME r.status = "COMPLETED" \/ (r.status # "CANCELLED" /\ r.end <= n)
      PROVE  Realised(r, n) = r.days
  <2>1. r.status # "CANCELLED" BY <1>7
  <2>2. ~ Interrupted(r) /\ is_revenue_eligible(r) BY <2>1 DEF Interrupted, is_revenue_eligible
  <2> QED BY <1>6, <1>7, <2>2 DEF Realised
<1> QED BY <1>4, <1>5, <1>7

\* A rental across the border of two periods is split at the border.
LEMMA DaysSplit ==
  ASSUME NEW d \in Nat, NEW n \in Nat, NEW from \in Int, NEW mid \in Int, NEW to \in Int,
         from <= mid, mid <= to
  PROVE  DaysInside(d, n, [from |-> from, to |-> to])
           = DaysInside(d, n, [from |-> from, to |-> mid]) + DaysInside(d, n, [from |-> mid, to |-> to])
BY DEF DaysInside, Greatest, Least

LEMMA DaysInsideFacts ==
  ASSUME NEW d \in Nat, NEW n \in Nat, NEW p, p.from \in Int, p.to \in Int
  PROVE  DaysInside(d, n, p) \in Nat /\ (p.to <= d \/ n = 0 => DaysInside(d, n, p) = 0)
BY DEF DaysInside, Greatest, Least

LEMMA RentalRevenue ==
  ASSUME NEW r, Fits("ren", r), NEW n \in Int, NEW p, p.from \in Int, p.to \in Int
  PROVE  reservation_period_revenue(r, p, n) \in Nat /\ RealisedInside(r, p, n) \in Nat
<1>1. business_date(r.start) \in Nat /\ r.price \div r.days \in Nat /\ r.days \in Nat BY RentalFacts
<1>2. Realised(r, n) \in Nat BY <1>1, RealisedFacts
<1>3. RealisedInside(r, p, n) \in Nat BY <1>1, <1>2, DaysInsideFacts DEF RealisedInside
<1> QED BY <1>1, <1>3 DEF reservation_period_revenue

(***************************************************************************)
(* The sums of the code                                                    *)
(***************************************************************************)
Earned(rs, p, n)        == [k \in DOMAIN rs |-> reservation_period_revenue(rs[k], p, n)]
EarnedLocally(rs, p, n) == [k \in DOMAIN rs |-> _reservation_revenue(rs[k], p, n)]
Days(rs, p, n)          == [k \in DOMAIN rs |-> RealisedInside(rs[k], p, n)]

LEMMA RevenueIsTotal ==
  ASSUME NEW rs, NEW p, NEW n
  PROVE  revenue_between(rs, p, n) = Total(Earned(rs, p, n), DOMAIN rs)
<1> DEFINE f == Earned(rs, p, n)
           S == DOMAIN rs
<1>1. \A s \in SUBSET S : s # {} => f[Pick(s)] = reservation_period_revenue(rs[Pick(s)], p, n)
  BY DEF Pick, Earned
<1> HIDE DEF f
<1>2. \A g : Adds(g, f, S) <=>
        g = [s \in SUBSET S |-> IF s = {} THEN 0
               ELSE reservation_period_revenue(rs[Pick(s)], p, n) + g[s \ {Pick(s)}]]
  BY <1>1 DEF Adds
<1>3. revenue_between(rs, p, n) =
        (CHOOSE g : g = [s \in SUBSET S |-> IF s = {} THEN 0
               ELSE reservation_period_revenue(rs[Pick(s)], p, n) + g[s \ {Pick(s)}]])[S]
  BY DEF revenue_between, MapThenSumSet, MapThenFoldSet, Pick
<1>4. (CHOOSE g : Adds(g, f, S)) =
        CHOOSE g : g = [s \in SUBSET S |-> IF s = {} THEN 0
               ELSE reservation_period_revenue(rs[Pick(s)], p, n) + g[s \ {Pick(s)}]]
  BY <1>2
<1> QED BY <1>3, <1>4 DEF Total, f

LEMMA LocalRevenueIsTotal ==
  ASSUME NEW rs, NEW p, NEW n
  PROVE  revenue_between_rows(rs, p, n).revenue = Total(EarnedLocally(rs, p, n), DOMAIN rs)
<1> DEFINE f == EarnedLocally(rs, p, n)
           S == DOMAIN rs
<1>1. \A s \in SUBSET S : s # {} => f[Pick(s)] = _reservation_revenue(rs[Pick(s)], p, n)
  BY DEF Pick, EarnedLocally
<1> HIDE DEF f
<1>2. \A g : Adds(g, f, S) <=>
        g = [s \in SUBSET S |-> IF s = {} THEN 0
               ELSE _reservation_revenue(rs[Pick(s)], p, n) + g[s \ {Pick(s)}]]
  BY <1>1 DEF Adds
<1>3. revenue_between_rows(rs, p, n).revenue =
        (CHOOSE g : g = [s \in SUBSET S |-> IF s = {} THEN 0
               ELSE _reservation_revenue(rs[Pick(s)], p, n) + g[s \ {Pick(s)}]])[S]
  BY DEF revenue_between_rows, MapThenSumSet, MapThenFoldSet, Pick
<1>4. (CHOOSE g : Adds(g, f, S)) =
        CHOOSE g : g = [s \in SUBSET S |-> IF s = {} THEN 0
               ELSE _reservation_revenue(rs[Pick(s)], p, n) + g[s \ {Pick(s)}]]
  BY <1>2
<1> QED BY <1>3, <1>4 DEF Total, f

LEMMA RentalDaysIsTotal ==
  ASSUME NEW rs, NEW p, NEW n
  PROVE  rental_days_between(rs, p, n) = Total(Days(rs, p, n), DOMAIN rs)
<1> DEFINE f == Days(rs, p, n)
           S == DOMAIN rs
<1>1. \A s \in SUBSET S : s # {} => f[Pick(s)] = RealisedInside(rs[Pick(s)], p, n)
  BY DEF Pick, Days
<1> HIDE DEF f
<1>2. \A g : Adds(g, f, S) <=>
        g = [s \in SUBSET S |-> IF s = {} THEN 0
               ELSE RealisedInside(rs[Pick(s)], p, n) + g[s \ {Pick(s)}]]
  BY <1>1 DEF Adds
<1>3. rental_days_between(rs, p, n) =
        (CHOOSE g : g = [s \in SUBSET S |-> IF s = {} THEN 0
               ELSE RealisedInside(rs[Pick(s)], p, n) + g[s \ {Pick(s)}]])[S]
  BY DEF rental_days_between, MapThenSumSet, MapThenFoldSet, Pick
<1>4. (CHOOSE g : Adds(g, f, S)) =
        CHOOSE g : g = [s \in SUBSET S |-> IF s = {} THEN 0
               ELSE RealisedInside(rs[Pick(s)], p, n) + g[s \ {Pick(s)}]]
  BY <1>2
<1> QED BY <1>3, <1>4 DEF Total, f

\* The money of two adjoining windows adds up, for any number of rentals.
LEMMA RevenueAdds ==
  ASSUME NEW d, AreTables(d), NEW n \in Int,
         NEW from \in Int, NEW mid \in Int, NEW to \in Int, from <= mid, mid <= to
  PROVE  revenue_between(d.ren, [from |-> from, to |-> to], n)
           = revenue_between(d.ren, [from |-> from, to |-> mid], n)
             + revenue_between(d.ren, [from |-> mid, to |-> to], n)
<1> DEFINE f == Earned(d.ren, [from |-> from, to |-> mid], n)
           g == Earned(d.ren, [from |-> mid, to |-> to], n)
           h == Earned(d.ren, [from |-> from, to |-> to], n)
<1>1. ASSUME NEW k \in DOMAIN d.ren PROVE f[k] \in Int /\ g[k] \in Int /\ h[k] = f[k] + g[k]
  <2> DEFINE r == d.ren[k]
             rate == r.price \div r.days
             date == business_date(r.start)
             all == DaysInside(date, Realised(r, n), [from |-> from, to |-> to])
             first == DaysInside(date, Realised(r, n), [from |-> from, to |-> mid])
             second == DaysInside(date, Realised(r, n), [from |-> mid, to |-> to])
  <2>1. Fits("ren", r) BY TablesFacts
  <2> HIDE DEF r
  <2>2. rate \in Nat /\ date \in Nat /\ Realised(r, n) \in Nat BY <2>1, RentalFacts, RealisedFacts
  <2> HIDE DEF rate, date
  <2>3. all = first + second /\ first \in Nat /\ second \in Nat
    <3>1. \A p : p.from \in Int /\ p.to \in Int => DaysInside(date, Realised(r, n), p) \in Nat
      BY <2>2, DaysInsideFacts
    <3>2. first \in Nat /\ second \in Nat BY <3>1
    <3>3. all = first + second BY <2>2, DaysSplit
    <3> QED BY <3>2, <3>3
  <2>4. h[k] = rate * all /\ f[k] = rate * first /\ g[k] = rate * second
    BY DEF Earned, reservation_period_revenue, RealisedInside, r, rate, date
  <2> HIDE DEF all, first, second
  <2>5. rate * (first + second) = rate * first + rate * second BY <2>2, <2>3
  <2>6. rate * first \in Int /\ rate * second \in Int BY <2>2, <2>3
  <2> HIDE DEF f, g, h
  <2> QED BY <2>3, <2>4, <2>5, <2>6
<1>2. IsFiniteSet(DOMAIN d.ren) BY DEF AreTables
<1> HIDE DEF f, g, h
<1>3. Total(h, DOMAIN d.ren) = Total(f, DOMAIN d.ren) + Total(g, DOMAIN d.ren)
  BY <1>1, <1>2, TotalAdds
<1> QED BY <1>3, RevenueIsTotal DEF f, g, h

(***************************************************************************)
(* The offline figures and the server's                                    *)
(***************************************************************************)
LEMMA PeriodFacts ==
  ASSUME NEW n \in Int, NEW name \in PERIOD_NAMES
  PROVE  period_bounds(name, n).from \in Int /\ period_bounds(name, n).to \in Int
<1> DEFINE unit == UnitOf(name)
           date == business_date(n)
<1>1. {1, DayLen, WeekLen, MonthLen, YearLen} \subseteq Nat \ {0} BY CalendarUnits
<1>2. unit \in Nat \ {0} BY <1>1 DEF UnitOf, PERIOD_NAMES, StandingPeriods
<1>3. date \in Int BY <1>1, DivFacts DEF business_date
<1> HIDE DEF unit, date
<1>4. FirstOf(unit, date) \in Int BY <1>2, <1>3 DEF FirstOf
<1> QED BY <1>2, <1>4 DEF period_bounds, unit, date

\* Without the reason the port does not know, both interpret a rental alike.
LEMMA SameMeaning ==
  ASSUME NEW rs, Urgent(rs) = {}, NEW k \in DOMAIN rs
  PROVE  /\ Interrupted(rs[k]) <=> LocallyInterrupted(rs[k])
         /\ is_revenue_eligible(rs[k]) <=> _is_revenue_eligible(rs[k])
BY DEF Urgent, Interrupted, LocallyInterrupted, INTERRUPTIONS, is_revenue_eligible,
       _is_revenue_eligible

LEMMA SameMoney ==
  ASSUME NEW d, AreTables(d), Urgent(d.ren) = {}, NEW n \in Int,
         NEW p, p.from \in Int, p.to \in Int
  PROVE  revenue_between_rows(d.ren, p, n).revenue = revenue_between(d.ren, p, n)
<1> DEFINE f == Earned(d.ren, p, n)
           g == EarnedLocally(d.ren, p, n)
<1>1. ASSUME NEW k \in DOMAIN d.ren PROVE g[k] = f[k]
  <2> DEFINE r == d.ren[k]
             date == business_date(r.start)
  <2>1. /\ Interrupted(r) <=> LocallyInterrupted(r)
        /\ is_revenue_eligible(r) <=> _is_revenue_eligible(r)
    BY SameMeaning
  <2>2. date \in Nat BY TablesFacts, RentalFacts
  <2> HIDE DEF r, date
  <2>3. CASE is_revenue_eligible(r)
    <3>1. _realised_for_row(r, n) = Realised(r, n) BY <2>1, <2>3 DEF _realised_for_row, Realised
    <3>2. LocalDaysInside(r, p, n) = RealisedInside(r, p, n)
      BY <2>1, <2>3, <3>1 DEF LocalDaysInside, RealisedInside
    <3> QED BY <3>2 DEF Earned, EarnedLocally, reservation_period_revenue, _reservation_revenue, r
  <2>4. CASE ~ is_revenue_eligible(r)
    <3>1. Realised(r, n) = 0 BY <2>4 DEF Realised
    <3>2. DaysInside(date, 0, p) = 0 BY <2>2, DaysInsideFacts
    <3>3. LocalDaysInside(r, p, n) = RealisedInside(r, p, n)
      BY <2>1, <2>4, <3>1, <3>2 DEF LocalDaysInside, RealisedInside, date
    <3> QED BY <3>3 DEF Earned, EarnedLocally, reservation_period_revenue, _reservation_revenue, r
  <2> QED BY <2>3, <2>4
<1>2. IsFiniteSet(DOMAIN d.ren) BY DEF AreTables
<1> HIDE DEF f, g
<1>3. Total(f, DOMAIN d.ren) = Total(g, DOMAIN d.ren) BY <1>1, <1>2, TotalSame
<1> QED BY <1>3, RevenueIsTotal, LocalRevenueIsTotal DEF f, g

LEMMA SameCards ==
  ASSUME now \in Int, NEW d, AreTables(d), Urgent(d.ren) = {} PROVE CardsAgree(d)
<1> DEFINE counts == compute_fleet_counts_rows(d.veh, d.ren, d.tic, now)
           here   == compute_overview_rows(d.ren, counts, d.tic, now)
           there  == legacy_overview(d.veh, d.ren, d.tic, now)
           eff    == effective_statuses(d.veh, d.ren, d.tic, now)
<1>1. here.revenue = there.revenue
  <2>1. here.revenue = [name \in StandingPeriods |->
                          revenue_between_rows(d.ren, period_bounds(name, now), now).revenue]
    BY DEF compute_overview_rows, Overview
  <2>2. there.revenue = [name \in StandingPeriods |->
                           revenue_between(d.ren, period_bounds(name, now), now)]
    BY DEF legacy_overview, Overview, _period_block
  <2>3. ASSUME NEW name \in StandingPeriods
        PROVE  revenue_between_rows(d.ren, period_bounds(name, now), now).revenue
                 = revenue_between(d.ren, period_bounds(name, now), now)
    BY PeriodFacts, SameMoney DEF PERIOD_NAMES
  <2> QED BY <2>1, <2>2, <2>3
<1>2. here.rentals = there.rentals
  <2>1. here.rentals = [name \in StandingPeriods |-> _rentals_started(d.ren, period_bounds(name, now))]
    BY DEF compute_overview_rows, Overview
  <2>2. there.rentals = [name \in StandingPeriods |->
                           rentals_started_between(d.ren, period_bounds(name, now))]
    BY DEF legacy_overview, Overview, _period_block
  <2>3. ASSUME NEW p PROVE _rentals_started(d.ren, p) = rentals_started_between(d.ren, p)
    <3>1. {k \in DOMAIN d.ren : _is_revenue_eligible(d.ren[k]) /\ StartsIn(d.ren[k], p)}
            = {k \in DOMAIN d.ren : is_revenue_eligible(d.ren[k]) /\ StartsIn(d.ren[k], p)}
      BY SameMeaning
    <3> QED BY <3>1 DEF _rentals_started, rentals_started_between
  <2> QED BY <2>1, <2>2, <2>3
<1>3. here.today_returns = there.today_returns
  BY DEF compute_overview_rows, legacy_overview, Overview, reservations_today_section
<1>4. there.fleet.available = counts.available + counts.reserved
  <2>1. counts = CountsOf(eff) BY TablesFacts, CountsAgree
  <2>2. there.fleet.available = Bucket(eff, "AVAILABLE") + Bucket(eff, "RESERVED")
    BY DEF legacy_overview, Overview, fleet_section
  <2> HIDE DEF counts, eff
  <2> QED BY <2>1, <2>2 DEF CountsOf
<1> QED BY <1>1, <1>2, <1>3, <1>4 DEF CardsAgree

LEMMA SameFiles == ASSUME now \in Int, NEW d, AreTables(d) PROVE FilesAgree(d)
<1> SUFFICES ASSUME NEW c \in Clients, LocalRentals(d.ren, c) = get_client_rentals(d.ren, c)
             PROVE  _apply_offline_fallback(d.ren, c, now) = get_client_rentals_report(d.ren, c, now)
  BY DEF FilesAgree
<1> DEFINE rs == d.ren
           mine == get_client_rentals(rs, c)
           cancelled == {k \in mine : rs[k].status = "CANCELLED"}
           eligible == {k \in mine : rs[k].status \in {"RESERVED", "ACTIVE", "COMPLETED"}}
           done == {k \in mine : rs[k].status = "COMPLETED"}
<1>1. mine \subseteq DOMAIN rs BY DEF get_client_rentals, Where
<1>2. \A k \in mine : rs[k].status \in {"RESERVED", "ACTIVE", "COMPLETED", "CANCELLED"}
  BY <1>1, TablesFacts, RentalFacts
<1>3. LocalRentals(rs, c) = mine OBVIOUS
<1>4. get_client_rentals_report(rs, c, now) =
        Report(rs, eligible, cancelled,
          {k \in eligible \ {j \in eligible : rs[j].status = "COMPLETED"} :
             rs[k].start <= now /\ now < rs[k].end},
          {j \in eligible : rs[j].status = "COMPLETED"})
  BY DEF get_client_rentals_report
<1>5. _apply_offline_fallback(rs, c, now) =
        Report(rs, mine \ cancelled, cancelled,
          {k \in mine \ (cancelled \cup done) : rs[k].start <= now /\ now < rs[k].end}, done)
  BY <1>3 DEF _apply_offline_fallback
<1> HIDE DEF mine
<1>6. mine \ cancelled = eligible /\ {j \in eligible : rs[j].status = "COMPLETED"} = done BY <1>2
<1>7. mine \ (cancelled \cup done) = eligible \ done BY <1>2
<1> HIDE DEF eligible, cancelled, done
<1> QED BY <1>4, <1>5, <1>6, <1>7

\* What the backend's query does not fetch earns nothing in the window.
LEMMA SameEndpoints ==
  ASSUME NEW d, AreTables(d), NEW n \in Int, NEW p, p.from \in Int, p.to \in Int
  PROVE  ServiceFigures(d.ren, p, n) =
           [revenue     |-> revenue_between(d.ren, p, n),
            rentals     |-> rentals_started_between(d.ren, p),
            rental_days |-> rental_days_between(d.ren, p, n)]
<1> DEFINE rs    == d.ren
           found == _load_candidate_reservations(rs, p)
           W     == DOMAIN found
<1>1. /\ W \subseteq DOMAIN rs /\ \A k \in W : found[k] = rs[k]
      /\ \A k \in DOMAIN rs \ W : ~ is_revenue_eligible(rs[k]) \/ ~ (rs[k].start < p.to * DayLen)
  BY DEF _load_candidate_reservations, is_revenue_eligible, Interrupted
<1>2. ASSUME NEW k \in DOMAIN rs
      PROVE  /\ RealisedInside(rs[k], p, n) \in Nat /\ reservation_period_revenue(rs[k], p, n) \in Nat
             /\ rs[k].price \div rs[k].days \in Nat /\ business_date(rs[k].start) \in Nat
             /\ rs[k].start \in Nat /\ Realised(rs[k], n) \in Nat
  <2>1. Fits("ren", rs[k]) BY TablesFacts
  <2>2. rs[k].days \in Nat BY <2>1, RentalFacts
  <2>3. Realised(rs[k], n) \in Nat BY <2>1, <2>2, RealisedFacts
  <2> QED BY <2>1, <2>3, RentalFacts, RentalRevenue
<1>3. ASSUME NEW k \in DOMAIN rs, ~ (rs[k].start < p.to * DayLen)
      PROVE  p.to <= business_date(rs[k].start)
  <2> DEFINE q == rs[k].start \div DayLen
  <2>1. DayLen \in Nat \ {0} /\ rs[k].start \in Int BY <1>2, CalendarUnits
  <2>2. q \in Int /\ q * DayLen \in Int /\ rs[k].start < q * DayLen + DayLen BY <2>1, DivFacts
  <2> HIDE DEF q
  <2>3. p.to <= q
    <3> SUFFICES ASSUME q + 1 <= p.to PROVE FALSE BY <2>2
    <3>1. (q + 1) * DayLen <= p.to * DayLen BY <2>1, <2>2, TimesGrows
    <3>2. (q + 1) * DayLen = q * DayLen + DayLen /\ p.to * DayLen \in Int BY <2>1, <2>2
    <3> QED BY <1>3, <2>1, <2>2, <3>1, <3>2
  <2> QED BY <2>3 DEF q, business_date
<1>4. ASSUME NEW k \in DOMAIN rs \ W
      PROVE  /\ RealisedInside(rs[k], p, n) = 0 /\ reservation_period_revenue(rs[k], p, n) = 0
             /\ ~ (is_revenue_eligible(rs[k]) /\ StartsIn(rs[k], p))
  <2>1. p.to <= business_date(rs[k].start) \/ ~ is_revenue_eligible(rs[k]) BY <1>1, <1>3
  <2>2. p.to <= business_date(rs[k].start) \/ Realised(rs[k], n) = 0 BY <2>1 DEF Realised
  <2>3. RealisedInside(rs[k], p, n) = 0 BY <1>2, <2>2, DaysInsideFacts DEF RealisedInside
  <2>4. reservation_period_revenue(rs[k], p, n) = 0
    BY <1>2, <2>3 DEF reservation_period_revenue
  <2>5. ~ (is_revenue_eligible(rs[k]) /\ StartsIn(rs[k], p)) BY <1>2, <2>1 DEF StartsIn
  <2> QED BY <2>3, <2>4, <2>5
<1>5. IsFiniteSet(DOMAIN rs) /\ IsFiniteSet(W) BY <1>1, FS_Subset DEF AreTables
<1> HIDE DEF rs, found, W
<1>6. revenue_between(found, p, n) = revenue_between(rs, p, n)
  <2> DEFINE f == Earned(rs, p, n)
             g == Earned(found, p, n)
  <2>1. \A k \in DOMAIN rs : f[k] \in Int BY <1>2 DEF Earned
  <2>2. \A k \in DOMAIN rs \ W : f[k] = 0 BY <1>4 DEF Earned
  <2>3. \A k \in W : g[k] = f[k] BY <1>1 DEF Earned, W
  <2> HIDE DEF f, g
  <2>4. Total(f, DOMAIN rs) = Total(f, W) BY <1>1, <1>5, <2>1, <2>2, TotalOfFewer
  <2>5. Total(f, W) = Total(g, W) BY <1>5, <2>3, TotalSame
  <2> QED BY <2>4, <2>5, RevenueIsTotal DEF f, g, W
<1>7. rental_days_between(found, p, n) = rental_days_between(rs, p, n)
  <2> DEFINE f == Days(rs, p, n)
             g == Days(found, p, n)
  <2>1. \A k \in DOMAIN rs : f[k] \in Int BY <1>2 DEF Days
  <2>2. \A k \in DOMAIN rs \ W : f[k] = 0 BY <1>4 DEF Days
  <2>3. \A k \in W : g[k] = f[k] BY <1>1 DEF Days, W
  <2> HIDE DEF f, g
  <2>4. Total(f, DOMAIN rs) = Total(f, W) BY <1>1, <1>5, <2>1, <2>2, TotalOfFewer
  <2>5. Total(f, W) = Total(g, W) BY <1>5, <2>3, TotalSame
  <2> QED BY <2>4, <2>5, RentalDaysIsTotal DEF f, g, W
<1>8. rentals_started_between(found, p) = rentals_started_between(rs, p)
  <2>1. {k \in W : is_revenue_eligible(found[k]) /\ StartsIn(found[k], p)}
          = {k \in DOMAIN rs : is_revenue_eligible(rs[k]) /\ StartsIn(rs[k], p)}
    BY <1>1, <1>4
  <2> QED BY <2>1 DEF rentals_started_between, W
<1>9. ServiceFigures(rs, p, n) =
        [revenue     |-> revenue_between(found, p, n),
         rental_days |-> rental_days_between(found, p, n),
         rentals     |-> rentals_started_between(found, p)]
  BY DEF ServiceFigures, found
<1> QED BY <1>6, <1>7, <1>8, <1>9 DEF rs

LEMMA SamePeriods == ASSUME now \in Int, NEW d, AreTables(d) PROVE PeriodsAgree(d)
<1>1. ASSUME NEW name, NEW from, NEW to, NEW p, p = resolve_period(name, now, from, to),
             p.from \in Int, p.to \in Int
      PROVE  build_dashboard_snapshot(d, name, from, to, now).revenue = ServiceFigures(d.ren, p, now)
  <2>1. build_dashboard_snapshot(d, name, from, to, now).revenue =
          [revenue     |-> revenue_between(d.ren, p, now),
           rentals     |-> rentals_started_between(d.ren, p),
           rental_days |-> rental_days_between(d.ren, p, now)]
    BY <1>1 DEF build_dashboard_snapshot, build_snapshot
  <2>2. ServiceFigures(d.ren, p, now) =
          [revenue     |-> revenue_between(d.ren, p, now),
           rentals     |-> rentals_started_between(d.ren, p),
           rental_days |-> rental_days_between(d.ren, p, now)]
    BY <1>1, SameEndpoints
  <2> QED BY <2>1, <2>2
<1>2. ASSUME NEW name \in PERIOD_NAMES
      PROVE  build_dashboard_snapshot(d, name, 0, 0, now).revenue = get_period_stats(d.ren, name, now)
  <2>1. name # "custom" BY DEF PERIOD_NAMES, StandingPeriods
  <2>2. resolve_period(name, now, 0, 0) = period_bounds(name, now) BY <2>1 DEF resolve_period
  <2>3. get_period_stats(d.ren, name, now) = ServiceFigures(d.ren, period_bounds(name, now), now)
    BY DEF get_period_stats
  <2>4. period_bounds(name, now).from \in Int /\ period_bounds(name, now).to \in Int BY PeriodFacts
  <2> QED BY <1>1, <2>2, <2>3, <2>4
<1>3. ASSUME NEW from \in 0 .. business_date(Horizon), NEW to \in 0 .. business_date(Horizon)
      PROVE  build_dashboard_snapshot(d, "custom", from, to, now).revenue
               = get_revenue_range(d.ren, from, to, now)
  <2>1. resolve_period("custom", now, from, to) = custom_bounds(from, to) BY DEF resolve_period
  <2>2. custom_bounds(from, to).from \in Int /\ custom_bounds(from, to).to \in Int BY DEF custom_bounds
  <2>3. get_revenue_range(d.ren, from, to, now) = ServiceFigures(d.ren, custom_bounds(from, to), now)
    BY DEF get_revenue_range
  <2> QED BY <1>1, <2>1, <2>2, <2>3
<1> QED BY <1>2, <1>3 DEF PeriodsAgree

(***************************************************************************)
(* The inductive invariant, step by step                                   *)
(***************************************************************************)
LEMMA TimeFacts == ASSUME StoreInv PROVE now \in Nat /\ Horizon \in Nat /\ now <= Horizon
BY TimeIsBounded DEF StoreInv

LEMMA InitStore == Init => StoreInv
<1> SUFFICES ASSUME Init PROVE StoreInv OBVIOUS
<1>1. AreTables(disk) BY TablesAreTables DEF Init
<1>2. now = 0 /\ writes = 0 /\ ui = "idle" /\ snapshot = Null /\ worker = Null BY DEF Init
<1>3. DOMAIN rows = {"at", "tables"} BY DEF Init
<1>4. DOMAIN clock = {"due", "armed", "tables"} /\ clock.due = Null /\ clock.armed = 0 BY DEF Init
<1> QED BY <1>1, <1>2, <1>3, <1>4, TimeIsBounded
        DEF StoreInv, ReloadInv, SnapshotsInv, ClockInv

LEMMA TickKeepsStore == ASSUME StoreInv, Tick PROVE StoreInv'
<1>1. /\ now \in Nat /\ now' = now + 1 /\ now' \in 0 .. Horizon /\ Horizon \in Nat
      /\ UNCHANGED <<disk, writes, ui, rows, snapshot, server, worker, clock>>
      /\ ui \in {"idle", "vehicles", "rearm"}
  BY TimeFacts DEF Tick
<1>2. ReloadInv' BY <1>1 DEF StoreInv, ReloadInv
<1>3. IsSnapshot(snapshot) => IsSnapshot(snapshot)' BY <1>1 DEF IsSnapshot
<1>4. IsSnapshot(worker) => IsSnapshot(worker)' BY <1>1 DEF IsSnapshot
<1>5. ClockInv' BY <1>1 DEF StoreInv, ClockInv
<1> QED BY <1>1, <1>2, <1>3, <1>4, <1>5 DEF StoreInv, SnapshotsInv

\* Between two ticks, snapshots that no step writes stay snapshots.
LEMMA SnapshotsKept ==
  ASSUME StoreInv, now' = now, snapshot' = snapshot, worker' = worker, clock' = clock,
         ui' = "rearm" => ui = "rearm"
  PROVE  SnapshotsInv' /\ ClockInv'
<1>1. /\ snapshot # Null \/ ui = "rearm" \/ clock.due # Null => IsSnapshot(snapshot)
      /\ worker # Null => IsSnapshot(worker)
  BY DEF StoreInv, SnapshotsInv
<1>2. IsSnapshot(snapshot) => IsSnapshot(snapshot)' BY DEF IsSnapshot
<1>3. IsSnapshot(worker) => IsSnapshot(worker)' BY DEF IsSnapshot
<1>4. SnapshotsInv' BY <1>1, <1>2, <1>3 DEF SnapshotsInv
<1>5. ClockInv' BY DEF StoreInv, ClockInv
<1> QED BY <1>4, <1>5

LEMMA CommitFacts ==
  ASSUME StoreInv, NEW c \in Changes, Commit(c)
  PROVE  AreTables(disk)' /\ (writes \in 0 .. MaxWrites)'
<1>1. AreTables(disk') BY ApplyFacts DEF StoreInv, Commit
<1>2. writes' \in 0 .. MaxWrites BY TimeIsBounded DEF StoreInv, Commit
<1>3. AreTables(disk') => AreTables(disk)' BY DEF AreTables
<1> QED BY <1>1, <1>2, <1>3

LEMMA CommitKeepsStore ==
  ASSUME StoreInv, NEW c \in Changes, SyncCommit(c) PROVE StoreInv'
<1>1. Commit(c) /\ UNCHANGED <<now, ui, rows, snapshot, server, worker, clock>> BY DEF SyncCommit
<1>2. AreTables(disk)' /\ (writes \in 0 .. MaxWrites)' BY <1>1, CommitFacts
<1>3. SnapshotsInv' /\ ClockInv' BY <1>1, SnapshotsKept
<1>4. ReloadInv'
  <2>1. IsSnapshot(rows.tables) => IsSnapshot(rows.tables)' BY <1>1 DEF IsSnapshot
  <2> QED BY <1>1, <2>1 DEF StoreInv, ReloadInv
<1> QED BY <1>1, <1>2, <1>3, <1>4 DEF StoreInv

LEMMA BeginFacts ==
  ASSUME StoreInv, now' = now, BeginReload PROVE ReloadInv' /\ ui' = "vehicles"
<1>1. ui' = "vehicles" /\ rows' = [at |-> now, tables |-> NoTables] BY DEF BeginReload
<1>2. AreTables(rows'.tables) /\ rows'.at \in 0 .. now' BY <1>1, EmptyTables, TimeFacts
<1> QED BY <1>1, <1>2 DEF ReloadInv

LEMMA MutateKeepsStore ==
  ASSUME StoreInv, NEW c \in Changes, mutate(c) PROVE StoreInv'
<1>1. Commit(c) /\ BeginReload /\ UNCHANGED <<now, snapshot, server, worker, clock>> BY DEF mutate
<1>2. AreTables(disk)' /\ (writes \in 0 .. MaxWrites)' BY <1>1, CommitFacts
<1>3. ReloadInv' /\ ui' = "vehicles" BY <1>1, BeginFacts
<1>4. SnapshotsInv' /\ ClockInv' BY <1>1, <1>3, SnapshotsKept
<1> QED BY <1>1, <1>2, <1>3, <1>4 DEF StoreInv

LEMMA ReloadKeepsStore == ASSUME StoreInv, reload PROVE StoreInv'
<1>1. BeginReload /\ UNCHANGED <<disk, writes, now, snapshot, server, worker, clock>> BY DEF reload
<1>2. ReloadInv' /\ ui' = "vehicles" BY <1>1, BeginFacts
<1>3. SnapshotsInv' /\ ClockInv' BY <1>1, <1>2, SnapshotsKept
<1> QED BY <1>1, <1>2, <1>3 DEF StoreInv

LEMMA ReadKeepsStore ==
  ASSUME StoreInv,
         NEW stage \in {"vehicles", "reservations"}, NEW table \in {"veh", "ren", "tic"},
         NEW next \in {"reservations", "build"}, Read(stage, table, next)
  PROVE  StoreInv'
<1>1. /\ ui = stage /\ rows' = [rows EXCEPT !.tables[table] = disk[table]] /\ ui' = next
      /\ UNCHANGED <<disk, writes, now, snapshot, server, worker, clock>>
  BY DEF Read
<1>2. DOMAIN rows = {"at", "tables"} /\ AreTables(rows.tables) /\ rows.at \in 0 .. now
  BY <1>1 DEF StoreInv, ReloadInv
<1>3. /\ DOMAIN rows' = {"at", "tables"} /\ rows'.at = rows.at
      /\ rows'.tables = [rows.tables EXCEPT ![table] = disk[table]]
  BY <1>1, <1>2
<1>4. AreTables(rows'.tables)
  <2>1. AreTables(disk) BY DEF StoreInv
  <2>2. AreTables([rows.tables EXCEPT ![table] = disk[table]]) BY <1>2, <2>1, ReadFacts
  <2> QED BY <1>3, <2>2
<1>5. ReloadInv' BY <1>1, <1>2, <1>3, <1>4 DEF ReloadInv
<1>6. SnapshotsInv' /\ ClockInv' BY <1>1, SnapshotsKept
<1> QED BY <1>1, <1>5, <1>6 DEF StoreInv

LEMMA BuildKeepsStore == ASSUME StoreInv, Build PROVE StoreInv'
<1> DEFINE d == [rows.tables EXCEPT !.tic = disk.tic]
<1>1. /\ ui = "build" /\ ui' = "publish"
      /\ rows' = [at |-> 0, tables |-> _build_snapshot(d, rows.at, server)]
      /\ UNCHANGED <<disk, writes, now, snapshot, server, worker, clock>>
  BY DEF Build
<1>2. AreTables(rows.tables) /\ rows.at \in 0 .. now /\ AreTables(disk)
  BY <1>1 DEF StoreInv, ReloadInv
<1>3. AreTables(d) BY <1>2, ReadFacts
<1> HIDE DEF d
<1>4. IsSnapshot(_build_snapshot(d, rows.at, server)) BY <1>2, <1>3, BuildFacts, TimeFacts
<1>5. DOMAIN rows' = {"at", "tables"} /\ rows'.tables = _build_snapshot(d, rows.at, server)
  BY <1>1
<1>6. IsSnapshot(rows.tables)' BY <1>1, <1>4, <1>5 DEF IsSnapshot
<1>7. ReloadInv' BY <1>1, <1>5, <1>6 DEF ReloadInv
<1>8. SnapshotsInv' /\ ClockInv' BY <1>1, SnapshotsKept
<1> QED BY <1>1, <1>7, <1>8 DEF StoreInv

LEMMA PublishKeepsStore == ASSUME StoreInv, Publish PROVE StoreInv'
<1>1. /\ ui = "publish" /\ rows' = [at |-> 0, tables |-> NoTables]
      /\ \/ snapshot' = rows.tables /\ ui' = "rearm"
         \/ snapshot' = snapshot /\ ui' = "idle"
      /\ UNCHANGED <<disk, writes, now, server, worker, clock>>
  BY DEF Publish
<1>2. ReloadInv' BY <1>1 DEF ReloadInv
<1>3. CASE snapshot' = rows.tables /\ ui' = "rearm"
  <2>1. IsSnapshot(rows.tables) BY <1>1 DEF StoreInv, ReloadInv
  <2>2. IsSnapshot(snapshot)' BY <1>1, <1>3, <2>1 DEF IsSnapshot
  <2>3. IsSnapshot(worker) => IsSnapshot(worker)' BY <1>1 DEF IsSnapshot
  <2>4. SnapshotsInv' BY <1>1, <2>2, <2>3 DEF StoreInv, SnapshotsInv
  <2>5. ClockInv' BY <1>1 DEF StoreInv, ClockInv
  <2> QED BY <1>1, <1>2, <1>3, <2>4, <2>5 DEF StoreInv
<1>4. CASE snapshot' = snapshot /\ ui' = "idle"
  <2>1. SnapshotsInv' /\ ClockInv' BY <1>1, <1>4, SnapshotsKept
  <2> QED BY <1>1, <1>2, <1>4, <2>1 DEF StoreInv
<1> QED BY <1>1, <1>3, <1>4

\* The timer is armed for the first edge after this instant, midnight at the
\* latest, or for a day later if that is sooner.
LEMMA RearmKeepsStore == ASSUME StoreInv, Rearm PROVE StoreInv'
<1> DEFINE ren == snapshot.tables.ren
           tic == snapshot.tables.tic
           S   == Edges(ren, tic, now) \cup {Midnight(now)}
           target == Earliest(S)
           due == now + Least(target - now, DayLen)
<1>1. /\ ui = "rearm" /\ ui' = "idle"
      /\ clock' = [due |-> due, armed |-> now, tables |-> snapshot.tables]
      /\ UNCHANGED <<disk, writes, now, rows, snapshot, server, worker>>
  BY DEF Rearm, reschedule, next_boundary_rows
<1>2. IsSnapshot(snapshot) /\ AreTables(snapshot.tables) BY <1>1 DEF StoreInv, SnapshotsInv, IsSnapshot
<1>3. now \in Nat /\ Midnight(now) \in Int /\ Midnight(now) > now BY TimeFacts, MidnightFacts
<1>4. S \subseteq {t \in Int : t > now} /\ S # {} BY <1>2, <1>3, EdgesFacts
<1>5. target \in S /\ \A u \in S : target <= u
  <2>1. now \in Int BY <1>3
  <2> HIDE DEF S
  <2>2. Earliest(S) \in S /\ \A u \in S : Earliest(S) <= u BY <1>4, <2>1, EarliestFacts
  <2> QED BY <2>2
<1>6. target \in Int /\ target > now BY <1>4, <1>5
<1>7. DayLen \in Nat \ {0} BY CalendarUnits
<1> HIDE DEF target
<1>8. due \in now .. now + DayLen /\ due <= target BY <1>3, <1>6, <1>7 DEF Least
<1>9. \A t \in Edges(ren, tic, now) : due <= t
  <2> SUFFICES ASSUME NEW t \in Edges(ren, tic, now) PROVE due <= t OBVIOUS
  <2>1. t \in S /\ t \in Int BY <1>4
  <2>2. target <= t BY <1>5, <2>1
  <2> HIDE DEF due, S
  <2> QED BY <1>3, <1>6, <1>7, <1>8, <2>1, <2>2
<1> HIDE DEF due
<1>10. /\ DOMAIN clock' = {"due", "armed", "tables"} /\ clock'.due = due /\ clock'.armed = now
       /\ clock'.tables = snapshot.tables
  BY <1>1
<1>11. ClockInv' BY <1>1, <1>3, <1>8, <1>9, <1>10 DEF ClockInv
<1>12. IsSnapshot(snapshot)' BY <1>1, <1>2 DEF IsSnapshot
<1>13. IsSnapshot(worker) => IsSnapshot(worker)' BY <1>1 DEF IsSnapshot
<1>14. SnapshotsInv' BY <1>1, <1>12, <1>13 DEF StoreInv, SnapshotsInv
<1>15. ReloadInv' BY <1>1 DEF StoreInv, ReloadInv
<1> QED BY <1>1, <1>11, <1>14, <1>15 DEF StoreInv

LEMMA FireKeepsStore == ASSUME StoreInv, _fire PROVE StoreInv'
<1> DEFINE r == recompute_effective(snapshot, server, now)
           q == [snapshot EXCEPT !.derived = now]
<1>1. /\ ui = "idle" /\ clock.due # Null /\ ui' = "rearm" /\ clock' = [clock EXCEPT !.due = Null]
      /\ snapshot' = IF server = Null /\ Shown(r) = Shown(snapshot) THEN q ELSE r
      /\ UNCHANGED <<disk, writes, now, rows, worker>>
  BY DEF _fire
<1>2. IsSnapshot(snapshot) BY <1>1 DEF StoreInv, SnapshotsInv
<1>3. IsSnapshot(r) /\ (Shown(r) = Shown(snapshot) => IsSnapshot(q))
  BY <1>2, TimeFacts, RecomputeFacts
<1> HIDE DEF r, q
<1>4. \E s : snapshot' = s /\ IsSnapshot(s) BY <1>1, <1>3
<1>5. IsSnapshot(snapshot)' BY <1>1, <1>4 DEF IsSnapshot
<1>6. IsSnapshot(worker) => IsSnapshot(worker)' BY <1>1 DEF IsSnapshot
<1>7. SnapshotsInv' BY <1>1, <1>5, <1>6 DEF StoreInv, SnapshotsInv
<1>8. /\ DOMAIN clock = {"due", "armed", "tables"} /\ clock.armed \in 0 .. now
  BY DEF StoreInv, ClockInv
<1>9. DOMAIN clock' = {"due", "armed", "tables"} /\ clock'.due = Null /\ clock'.armed = clock.armed
  BY <1>1, <1>8
<1>10. ClockInv' BY <1>1, <1>8, <1>9 DEF ClockInv
<1>11. ReloadInv' BY <1>1 DEF StoreInv, ReloadInv
<1> QED BY <1>1, <1>7, <1>10, <1>11 DEF StoreInv

LEMMA OverviewFacts ==
  ASSUME NEW s, IsSnapshot(s), NEW o PROVE IsSnapshot([s EXCEPT !.overview = o])
<1> DEFINE q == [s EXCEPT !.overview = o]
<1>1. /\ DOMAIN q = {"at", "derived", "tables", "effective", "counts", "overview"}
      /\ q.at = s.at /\ q.derived = s.derived /\ q.tables = s.tables /\ q.effective = s.effective
  BY DEF IsSnapshot
<1> HIDE DEF q
<1>2. IsSnapshot(q) BY <1>1 DEF IsSnapshot
<1> QED BY <1>2 DEF q

LEMMA ServerKeepsStore == ASSUME StoreInv, update_server_dashboard PROVE StoreInv'
<1> DEFINE base == IF snapshot # Null THEN snapshot ELSE _build_snapshot(disk, now, Null)
<1>1. /\ writes < MaxWrites /\ writes' = writes + 1 /\ worker' = [base EXCEPT !.overview = server']
      /\ UNCHANGED <<disk, now, ui, rows, snapshot, clock>>
  BY DEF update_server_dashboard
<1>2. IsSnapshot(base)
  <2>1. CASE snapshot # Null BY <2>1 DEF StoreInv, SnapshotsInv
  <2>2. CASE snapshot = Null
    <3>1. AreTables(disk) /\ now \in 0 .. now /\ now \in Nat BY TimeFacts DEF StoreInv
    <3>2. IsSnapshot(_build_snapshot(disk, now, Null)) BY <3>1, BuildFacts
    <3> QED BY <2>2, <3>2
  <2> QED BY <2>1, <2>2
<1> HIDE DEF base
<1>3. \E s : worker' = s /\ IsSnapshot(s) BY <1>1, <1>2, OverviewFacts
<1>4. IsSnapshot(worker)' BY <1>1, <1>3 DEF IsSnapshot
<1>5. IsSnapshot(snapshot) => IsSnapshot(snapshot)' BY <1>1 DEF IsSnapshot
<1>6. SnapshotsInv' BY <1>1, <1>4, <1>5 DEF StoreInv, SnapshotsInv
<1>7. IsSnapshot(rows.tables) => IsSnapshot(rows.tables)' BY <1>1 DEF IsSnapshot
<1>8. ReloadInv' BY <1>1, <1>7 DEF StoreInv, ReloadInv
<1>9. ClockInv' BY <1>1 DEF StoreInv, ClockInv
<1> QED BY <1>1, <1>6, <1>8, <1>9, TimeIsBounded DEF StoreInv

LEMMA ReplaceKeepsStore == ASSUME StoreInv, ReplaceSnapshot PROVE StoreInv'
<1>1. /\ worker # Null /\ snapshot' = worker /\ worker' = Null
      /\ UNCHANGED <<disk, writes, now, ui, rows, server, clock>>
  BY DEF ReplaceSnapshot
<1>2. IsSnapshot(worker) BY <1>1 DEF StoreInv, SnapshotsInv
<1>3. IsSnapshot(snapshot)' BY <1>1, <1>2 DEF IsSnapshot
<1>4. SnapshotsInv' BY <1>1, <1>3 DEF SnapshotsInv
<1>5. IsSnapshot(rows.tables) => IsSnapshot(rows.tables)' BY <1>1 DEF IsSnapshot
<1>6. ReloadInv' BY <1>1, <1>5 DEF StoreInv, ReloadInv
<1>7. ClockInv' BY <1>1 DEF StoreInv, ClockInv
<1> QED BY <1>1, <1>4, <1>6, <1>7 DEF StoreInv

LEMMA StepKeepsStore == StoreInv /\ [Next]_vars => StoreInv'
<1> SUFFICES ASSUME StoreInv, [Next]_vars PROVE StoreInv' OBVIOUS
<1>1. CASE Tick BY <1>1, TickKeepsStore
<1>2. ASSUME NEW c \in Changes, SyncCommit(c) PROVE StoreInv' BY <1>2, CommitKeepsStore
<1>3. ASSUME NEW c \in Changes, mutate(c) PROVE StoreInv' BY <1>3, MutateKeepsStore
<1>4. CASE reload BY <1>4, ReloadKeepsStore
<1>5. CASE Read("vehicles", "veh", "reservations") BY <1>5, ReadKeepsStore
<1>6. CASE Read("reservations", "ren", "build") BY <1>6, ReadKeepsStore
<1>7. CASE Build BY <1>7, BuildKeepsStore
<1>8. CASE Publish BY <1>8, PublishKeepsStore
<1>9. CASE Rearm BY <1>9, RearmKeepsStore
<1>10. CASE _fire BY <1>10, FireKeepsStore
<1>11. CASE update_server_dashboard BY <1>11, ServerKeepsStore
<1>12. CASE ReplaceSnapshot BY <1>12, ReplaceKeepsStore
<1>13. CASE UNCHANGED vars
  <2>1. UNCHANGED <<disk, writes, now, ui, rows, snapshot, server, worker, clock>>
    BY <1>13 DEF vars
  <2>2. SnapshotsInv' /\ ClockInv' BY <2>1, SnapshotsKept
  <2>3. IsSnapshot(rows.tables) => IsSnapshot(rows.tables)' BY <2>1 DEF IsSnapshot
  <2>4. ReloadInv' BY <2>1, <2>3 DEF StoreInv, ReloadInv
  <2> QED BY <2>1, <2>2, <2>4 DEF StoreInv
<1> QED BY <1>1, <1>2, <1>3, <1>4, <1>5, <1>6, <1>7, <1>8, <1>9, <1>10, <1>11, <1>12, <1>13 DEF Next

(***************************************************************************)
(* Rankings                                                                *)
(***************************************************************************)
\* What is ranked: finitely many vehicles, each with a count and its money.
IsEntries(e) ==
  /\ IsFiniteSet(DOMAIN e) /\ DOMAIN e \subseteq DOMAIN IdOrder
  /\ \A v \in DOMAIN e : e[v].rental_count \in Int /\ e[v].revenue \in Int

\* The identifier makes the order total: of two vehicles one is before the other,
\* and whatever is before the first is before the second.
LEMMA BeforeIsOrder ==
  ASSUME NEW e, IsEntries(e), NEW u \in DOMAIN e, NEW v \in DOMAIN e
  PROVE  /\ ~ Before(e, u, u)
         /\ u # v => Before(e, u, v) \/ Before(e, v, u)
         /\ Before(e, u, v) => \A w \in DOMAIN e : Before(e, w, u) => Before(e, w, v)
<1>1. \A x, y \in DOMAIN e : /\ IdOrder[x] \in Int /\ (IdOrder[x] = IdOrder[y] => x = y)
                             /\ e[x].rental_count \in Int /\ e[x].revenue \in Int
  BY IdentifiersDiffer DEF IsEntries
<1>2. ~ Before(e, u, u) BY <1>1 DEF Before
<1>3. u # v => Before(e, u, v) \/ Before(e, v, u) BY <1>1 DEF Before
<1>4. ASSUME Before(e, u, v), NEW w \in DOMAIN e, Before(e, w, u) PROVE Before(e, w, v)
  BY <1>1, <1>4 DEF Before
<1> QED BY <1>2, <1>3, <1>4

LEMMA PlaceFacts ==
  ASSUME NEW e, IsEntries(e), NEW u \in DOMAIN e, NEW v \in DOMAIN e
  PROVE  Place(e, v) \in 1 .. Cardinality(DOMAIN e) /\ (Before(e, u, v) => Place(e, u) < Place(e, v))
<1> DEFINE V == DOMAIN e
           a == {w \in V : Before(e, w, u)}
           b == {w \in V : Before(e, w, v)}
<1>1. IsFiniteSet(V) /\ IsFiniteSet(V \ {v}) BY FS_RemoveElement DEF IsEntries
<1>2. Cardinality(V \ {v}) = Cardinality(V) - 1 BY <1>1, FS_RemoveElement
<1>3. b \subseteq V \ {v} /\ b \subseteq V /\ a \subseteq V BY BeforeIsOrder
<1>4. Place(e, u) = Cardinality(a) + 1 /\ Place(e, v) = Cardinality(b) + 1 BY DEF Place
<1>5. Before(e, u, v) => a \subseteq b /\ u \in b /\ u \notin a BY BeforeIsOrder
<1> HIDE DEF V, a, b
<1>6. /\ IsFiniteSet(a) /\ IsFiniteSet(b) /\ Cardinality(b) <= Cardinality(V \ {v})
      /\ Cardinality(a) \in Nat /\ Cardinality(b) \in Nat /\ Cardinality(V) \in Nat
  BY <1>1, <1>3, FS_Subset, FS_CardinalityType
<1>7. Before(e, u, v) => Cardinality(a) < Cardinality(b)
  <2> SUFFICES ASSUME Before(e, u, v) PROVE Cardinality(a) < Cardinality(b) OBVIOUS
  <2>1. Cardinality(a) <= Cardinality(b) /\ (Cardinality(b) = Cardinality(a) => b = a)
    BY <1>5, <1>6, FS_Subset
  <2> QED BY <1>5, <1>6, <2>1
<1> QED BY <1>2, <1>4, <1>6, <1>7 DEF V

\* Every place is taken by one vehicle.
LEMMA PlaceTaken ==
  ASSUME NEW e, IsEntries(e), NEW i \in 1 .. Cardinality(DOMAIN e)
  PROVE  \E v \in DOMAIN e : Place(e, v) = i
<1> DEFINE V == DOMAIN e
           f == [v \in V |-> Place(e, v)]
           n == Cardinality(V)
<1>1. IsFiniteSet(V) BY DEF IsEntries
<1>2. n \in Nat BY <1>1, FS_CardinalityType
<1>3. f \in [V -> 1 .. n] BY PlaceFacts
<1>4. ASSUME NEW u \in V, NEW v \in V, f[u] = f[v] PROVE u = v
  <2> SUFFICES ASSUME u # v PROVE FALSE OBVIOUS
  <2>1. Place(e, u) = Place(e, v) /\ Place(e, u) \in Int BY <1>4, PlaceFacts
  <2>2. Place(e, u) < Place(e, v) \/ Place(e, v) < Place(e, u) BY BeforeIsOrder, PlaceFacts
  <2> QED BY <2>1, <2>2
<1> HIDE DEF f
<1>5. f \in Injection(V, 1 .. n) BY <1>3, <1>4 DEF Injection, IsInjective
<1>6. IsFiniteSet(1 .. n) /\ Cardinality(1 .. n) = n BY <1>2, FS_Interval
<1> HIDE DEF n, V
<1>7. f \in Surjection(V, 1 .. n) BY <1>5, <1>6, FS_Injection DEF n
<1>8. PICK v \in V : f[v] = i BY <1>7 DEF Surjection, n, V
<1> QED BY <1>8 DEF f, V

\* The vehicle at a place, and what is shown of it.
Winner(e, i) == CHOOSE v \in DOMAIN e : Place(e, v) = i

LEMMA RankedFacts ==
  ASSUME NEW e, IsEntries(e)
  PROVE  /\ DOMAIN Ranked(e) = 1 .. Cardinality(DOMAIN e) /\ Cardinality(DOMAIN e) \in Nat
         /\ \A i \in DOMAIN Ranked(e) : /\ Winner(e, i) \in DOMAIN e /\ Place(e, Winner(e, i)) = i
                                        /\ Ranked(e)[i] = e[Winner(e, i)]
<1>1. Cardinality(DOMAIN e) \in Nat BY FS_CardinalityType DEF IsEntries
<1>2. \A i \in 1 .. Cardinality(DOMAIN e) : Winner(e, i) \in DOMAIN e /\ Place(e, Winner(e, i)) = i
  BY PlaceTaken DEF Winner
<1> QED BY <1>1, <1>2 DEF Ranked, Winner

\* Of two entries of a ranking the first has no fewer rentals.
LEMMA RankedDescends ==
  ASSUME NEW e, IsEntries(e), NEW i \in DOMAIN Ranked(e), NEW j \in DOMAIN Ranked(e), i < j
  PROVE  Ranked(e)[i].rental_count >= Ranked(e)[j].rental_count
<1> DEFINE u == Winner(e, i)
           v == Winner(e, j)
<1>1. /\ u \in DOMAIN e /\ v \in DOMAIN e /\ Place(e, u) = i /\ Place(e, v) = j
      /\ Ranked(e)[i] = e[u] /\ Ranked(e)[j] = e[v] /\ i \in Int /\ j \in Int
  BY RankedFacts
<1> HIDE DEF u, v
<1>2. ~ Before(e, v, u) BY <1>1, PlaceFacts
<1>3. e[u].rental_count \in Int /\ e[v].rental_count \in Int BY <1>1 DEF IsEntries
<1> QED BY <1>1, <1>2, <1>3 DEF Before

\* Entries with the same counts and the same money are ranked alike.
LEMMA RankedAlike ==
  ASSUME NEW e, NEW g, IsEntries(e), DOMAIN g = DOMAIN e,
         \A v \in DOMAIN e : g[v].rental_count = e[v].rental_count /\ g[v].revenue = e[v].revenue
  PROVE  IsEntries(g) /\ DOMAIN Ranked(g) = DOMAIN Ranked(e)
         /\ \A i \in DOMAIN Ranked(e) : Winner(g, i) = Winner(e, i)
<1>1. IsEntries(g) BY DEF IsEntries
<1>2. ASSUME NEW v \in DOMAIN e PROVE Place(g, v) = Place(e, v)
  <2>1. {u \in DOMAIN g : Before(g, u, v)} = {u \in DOMAIN e : Before(e, u, v)}
    BY <1>2 DEF Before
  <2> QED BY <2>1 DEF Place
<1>3. ASSUME NEW i PROVE Winner(g, i) = Winner(e, i) BY <1>2 DEF Winner
<1> QED BY <1>1, <1>3 DEF Ranked

\* The first entries of a ranking are entries of it, in its order.
LEMMA FirstOnesFacts ==
  ASSUME NEW e, IsEntries(e), NEW limit \in Nat
  PROVE  LET top == FirstOnes(Ranked(e), limit) IN
         /\ DOMAIN top \subseteq DOMAIN Ranked(e)
         /\ \A i \in DOMAIN top : top[i] = Ranked(e)[i]
<1> DEFINE s == Ranked(e)
           n == Cardinality(DOMAIN e)
           m == Least(limit, n)
           S == {s[i] : i \in 1 .. n}
           top == SubSeq(s, 1, m)
<1>1. n \in Nat /\ DOMAIN s = 1 .. n BY RankedFacts
<1>2. s = [i \in 1 .. n |-> s[i]] BY DEF Ranked
<1> HIDE DEF s, n
<1>3. s \in Seq(S) /\ Len(s) = n
  <2>1. s \in [1 .. n -> S] BY <1>2
  <2> HIDE DEF S
  <2> QED BY <1>1, <2>1
<1>4. m \in Int /\ m \in 0 .. n BY <1>1 DEF Least
<1> HIDE DEF m
<1>5. \A i \in 1 .. m : s[i] \in S BY <1>1, <1>4
<1> HIDE DEF S
<1>6. top \in Seq(S) /\ Len(top) = (IF 1 <= m THEN m - 1 + 1 ELSE 0)
      /\ \A i \in 1 .. m - 1 + 1 : top[i] = s[1 + i - 1]
  BY <1>4, <1>5, SubSeqProperties
<1>7. DOMAIN top = 1 .. m /\ \A i \in 1 .. m : top[i] = s[i]
  <2>1. DOMAIN top = 1 .. Len(top) BY <1>6, LenProperties
  <2>2. Len(top) = m BY <1>4, <1>6
  <2> HIDE DEF top
  <2> QED BY <1>4, <1>6, <2>1, <2>2
<1>8. FirstOnes(s, limit) = top BY <1>3 DEF FirstOnes, m
<1> HIDE DEF top
<1> QED BY <1>1, <1>4, <1>7, <1>8 DEF s

(***************************************************************************)
(* The sums over the rentals of one vehicle                                *)
(***************************************************************************)
RealisedOf(rs, n) == [k \in DOMAIN rs |-> Realised(rs[k], n)]
LocallyRealisedOf(rs, n) ==
  [k \in DOMAIN rs |-> IF rs[k].status = "COMPLETED" THEN rs[k].days
                       ELSE _realised_days(rs[k].start, rs[k].days, n)]

LEMMA EarnedByIsTotal ==
  ASSUME NEW rs, NEW S, S \subseteq DOMAIN rs, NEW n
  PROVE  EarnedBy(rs, S, n) = Total(Earned(rs, AllTime, n), S)
<1> DEFINE f == Earned(rs, AllTime, n)
<1>1. \A s \in SUBSET S : s # {} => f[Pick(s)] = reservation_period_revenue(rs[Pick(s)], AllTime, n)
  BY DEF Pick, Earned
<1> HIDE DEF f
<1>2. \A g : Adds(g, f, S) <=>
        g = [s \in SUBSET S |-> IF s = {} THEN 0
               ELSE reservation_period_revenue(rs[Pick(s)], AllTime, n) + g[s \ {Pick(s)}]]
  BY <1>1 DEF Adds
<1>3. EarnedBy(rs, S, n) =
        (CHOOSE g : g = [s \in SUBSET S |-> IF s = {} THEN 0
               ELSE reservation_period_revenue(rs[Pick(s)], AllTime, n) + g[s \ {Pick(s)}]])[S]
  BY DEF EarnedBy, MapThenSumSet, MapThenFoldSet, Pick
<1>4. (CHOOSE g : Adds(g, f, S)) =
        CHOOSE g : g = [s \in SUBSET S |-> IF s = {} THEN 0
               ELSE reservation_period_revenue(rs[Pick(s)], AllTime, n) + g[s \ {Pick(s)}]]
  BY <1>2
<1> QED BY <1>3, <1>4 DEF Total, f

LEMMA LocallyEarnedByIsTotal ==
  ASSUME NEW rs, NEW S, S \subseteq DOMAIN rs, NEW n
  PROVE  LocallyEarnedBy(rs, S, n) = Total(EarnedLocally(rs, AllTime, n), S)
<1> DEFINE f == EarnedLocally(rs, AllTime, n)
<1>1. \A s \in SUBSET S : s # {} => f[Pick(s)] = _reservation_revenue(rs[Pick(s)], AllTime, n)
  BY DEF Pick, EarnedLocally
<1> HIDE DEF f
<1>2. \A g : Adds(g, f, S) <=>
        g = [s \in SUBSET S |-> IF s = {} THEN 0
               ELSE _reservation_revenue(rs[Pick(s)], AllTime, n) + g[s \ {Pick(s)}]]
  BY <1>1 DEF Adds
<1>3. LocallyEarnedBy(rs, S, n) =
        (CHOOSE g : g = [s \in SUBSET S |-> IF s = {} THEN 0
               ELSE _reservation_revenue(rs[Pick(s)], AllTime, n) + g[s \ {Pick(s)}]])[S]
  BY DEF LocallyEarnedBy, MapThenSumSet, MapThenFoldSet, Pick
<1>4. (CHOOSE g : Adds(g, f, S)) =
        CHOOSE g : g = [s \in SUBSET S |-> IF s = {} THEN 0
               ELSE _reservation_revenue(rs[Pick(s)], AllTime, n) + g[s \ {Pick(s)}]]
  BY <1>2
<1> QED BY <1>3, <1>4 DEF Total, f

LEMMA DaysOfIsTotal ==
  ASSUME NEW rs, NEW S, S \subseteq DOMAIN rs, NEW n
  PROVE  DaysOf(rs, S, n) = Total(RealisedOf(rs, n), S)
<1> DEFINE f == RealisedOf(rs, n)
<1>1. \A s \in SUBSET S : s # {} => f[Pick(s)] = Realised(rs[Pick(s)], n)
  BY DEF Pick, RealisedOf
<1> HIDE DEF f
<1>2. \A g : Adds(g, f, S) <=>
        g = [s \in SUBSET S |-> IF s = {} THEN 0
               ELSE Realised(rs[Pick(s)], n) + g[s \ {Pick(s)}]]
  BY <1>1 DEF Adds
<1>3. DaysOf(rs, S, n) =
        (CHOOSE g : g = [s \in SUBSET S |-> IF s = {} THEN 0
               ELSE Realised(rs[Pick(s)], n) + g[s \ {Pick(s)}]])[S]
  BY DEF DaysOf, MapThenSumSet, MapThenFoldSet, Pick
<1>4. (CHOOSE g : Adds(g, f, S)) =
        CHOOSE g : g = [s \in SUBSET S |-> IF s = {} THEN 0
               ELSE Realised(rs[Pick(s)], n) + g[s \ {Pick(s)}]]
  BY <1>2
<1> QED BY <1>3, <1>4 DEF Total, f

LEMMA LocalDaysOfIsTotal ==
  ASSUME NEW rs, NEW S, S \subseteq DOMAIN rs, NEW n
  PROVE  LocalDaysOf(rs, S, n) = Total(LocallyRealisedOf(rs, n), S)
<1> DEFINE f == LocallyRealisedOf(rs, n)
           at(k) == IF rs[k].status = "COMPLETED" THEN rs[k].days
                    ELSE _realised_days(rs[k].start, rs[k].days, n)
<1>1. \A s \in SUBSET S : s # {} => f[Pick(s)] = at(Pick(s))
  BY DEF Pick, LocallyRealisedOf
<1> HIDE DEF f
<1>2. \A g : Adds(g, f, S) <=>
        g = [s \in SUBSET S |-> IF s = {} THEN 0 ELSE at(Pick(s)) + g[s \ {Pick(s)}]]
  BY <1>1 DEF Adds
<1>3. LocalDaysOf(rs, S, n) =
        (CHOOSE g : g = [s \in SUBSET S |-> IF s = {} THEN 0
                                            ELSE at(Pick(s)) + g[s \ {Pick(s)}]])[S]
  BY DEF LocalDaysOf, MapThenSumSet, MapThenFoldSet, Pick
<1>4. (CHOOSE g : Adds(g, f, S)) =
        CHOOSE g : g = [s \in SUBSET S |-> IF s = {} THEN 0 ELSE at(Pick(s)) + g[s \ {Pick(s)}]]
  BY <1>2
<1> QED BY <1>3, <1>4 DEF Total, f

LEMMA AllTimeFacts == AllTime.from \in Int /\ AllTime.to \in Int
BY FarFutureIsInstant DEF AllTime

\* A rental that is not cancelled is realised and paid alike on both sides.
LEMMA SameRental ==
  ASSUME NEW r, r.status # "CANCELLED", NEW n
  PROVE  /\ Realised(r, n) = IF r.status = "COMPLETED" THEN r.days
                             ELSE _realised_days(r.start, r.days, n)
         /\ _reservation_revenue(r, AllTime, n) = reservation_period_revenue(r, AllTime, n)
<1>1. /\ ~ Interrupted(r) /\ is_revenue_eligible(r) /\ ~ LocallyInterrupted(r)
      /\ _is_revenue_eligible(r)
  BY DEF Interrupted, is_revenue_eligible, LocallyInterrupted, _is_revenue_eligible
<1>2. Realised(r, n) = IF r.status = "COMPLETED" THEN r.days
                       ELSE _realised_days(r.start, r.days, n)
  BY <1>1 DEF Realised
<1>3. _realised_for_row(r, n) = Realised(r, n) BY <1>1, <1>2 DEF _realised_for_row
<1>4. LocalDaysInside(r, AllTime, n) = RealisedInside(r, AllTime, n)
  BY <1>1, <1>3 DEF LocalDaysInside, RealisedInside
<1> QED BY <1>2, <1>4 DEF _reservation_revenue, reservation_period_revenue

\* What the three rankings count of a vehicle.
LEMMA RankedRentals ==
  ASSUME NEW d, AreTables(d), NEW n \in Int, NEW S, S \subseteq DOMAIN d.ren
  PROVE  /\ Vehicles(d.ren, S) \subseteq DOMAIN IdOrder /\ IsFiniteSet(Vehicles(d.ren, S))
         /\ \A v : /\ Cardinality(RentalsOf(d.ren, S, v)) \in Int
                   /\ EarnedBy(d.ren, RentalsOf(d.ren, S, v), n) \in Int
<1> DEFINE rs == d.ren
           V  == Vehicles(rs, S)
<1>1. IsFiniteSet(S) BY FS_Subset DEF AreTables
<1>2. \A k \in DOMAIN rs : Fits("ren", rs[k]) BY TablesFacts
<1>3. V \subseteq DOMAIN IdOrder
  <2>1. \A k \in S : rs[k].veh \in DOMAIN IdOrder BY <1>2 DEF Fits
  <2> QED BY <2>1 DEF Vehicles
<1>4. IsFiniteSet(V)
  <2> DEFINE f == [k \in S |-> rs[k].veh]
  <2>1. f \in Surjection(S, V) BY DEF Vehicles, Surjection
  <2> HIDE DEF f, V
  <2> QED BY <1>1, <2>1, FS_Surjection
<1>5. ASSUME NEW v
      PROVE  /\ Cardinality(RentalsOf(rs, S, v)) \in Int
             /\ EarnedBy(rs, RentalsOf(rs, S, v), n) \in Int
  <2> DEFINE ks == RentalsOf(rs, S, v)
             f  == Earned(rs, AllTime, n)
  <2>1. ks \subseteq S /\ ks \subseteq DOMAIN rs BY DEF RentalsOf
  <2>2. \A k \in ks : f[k] \in Int
    <3>1. \A k \in DOMAIN rs : reservation_period_revenue(rs[k], AllTime, n) \in Int
      BY <1>2, RentalRevenue, AllTimeFacts
    <3> QED BY <2>1, <3>1 DEF Earned
  <2>3. EarnedBy(rs, ks, n) = Total(f, ks) BY <2>1, EarnedByIsTotal
  <2> HIDE DEF ks, f
  <2>4. IsFiniteSet(ks) /\ Cardinality(ks) \in Nat BY <1>1, <2>1, FS_Subset, FS_CardinalityType
  <2>5. Total(f, ks) \in Int BY <2>2, <2>4, TotalIsInt
  <2> QED BY <2>3, <2>4, <2>5 DEF ks
<1> QED BY <1>3, <1>4, <1>5

\* The desktop ranks the vehicles as the server does.
LEMMA SameRankings == ASSUME now \in Int, NEW d, AreTables(d) PROVE RankingsAgree(d)
<1> DEFINE rs == d.ren
           counted == Where(rs, LAMBDA r : r.status # "CANCELLED" /\ r.start <= now)
           of(v) == RentalsOf(rs, counted, v)
           e == [v \in Vehicles(rs, counted) |->
                   [vehicle_id   |-> v,
                    rental_count |-> Cardinality(of(v)),
                    rental_days  |-> DaysOf(rs, of(v), now),
                    revenue      |-> EarnedBy(rs, of(v), now),
                    reservations |-> of(v)]]
           g == [v \in Vehicles(rs, counted) |->
                   [vehicle_id   |-> v,
                    rental_count |-> Cardinality(of(v)),
                    rental_days  |-> LocalDaysOf(rs, of(v), now),
                    revenue      |-> LocallyEarnedBy(rs, of(v), now),
                    utilization  |-> Utilization(rs, of(v), now)]]
<1>1. counted = {k \in DOMAIN rs : rs[k].status # "CANCELLED" /\ rs[k].start <= now} BY DEF Where
<1>2. /\ get_vehicle_stats(rs, now) = Ranked(e)
      /\ compute_top_vehicles_rows(rs, now, TOP_VEHICLES_LIMIT) = FirstOnes(Ranked(g), TOP_VEHICLES_LIMIT)
  BY DEF get_vehicle_stats, compute_top_vehicles_rows
<1> HIDE DEF counted
<1>3. ASSUME NEW v
      PROVE  /\ DaysOf(rs, of(v), now) = LocalDaysOf(rs, of(v), now)
             /\ EarnedBy(rs, of(v), now) = LocallyEarnedBy(rs, of(v), now)
  <2> DEFINE ks == of(v)
  <2>1. ks \subseteq DOMAIN rs /\ \A k \in ks : rs[k].status # "CANCELLED" BY <1>1 DEF RentalsOf
  <2>2. IsFiniteSet(ks) BY <2>1, FS_Subset DEF AreTables
  <2> HIDE DEF ks
  <2>3. /\ \A k \in ks : RealisedOf(rs, now)[k] = LocallyRealisedOf(rs, now)[k]
        /\ \A k \in ks : Earned(rs, AllTime, now)[k] = EarnedLocally(rs, AllTime, now)[k]
    BY <2>1, SameRental DEF RealisedOf, LocallyRealisedOf, Earned, EarnedLocally
  <2>4. /\ Total(RealisedOf(rs, now), ks) = Total(LocallyRealisedOf(rs, now), ks)
        /\ Total(Earned(rs, AllTime, now), ks) = Total(EarnedLocally(rs, AllTime, now), ks)
    BY <2>2, <2>3, TotalSame
  <2>5. /\ DaysOf(rs, ks, now) = LocalDaysOf(rs, ks, now)
        /\ EarnedBy(rs, ks, now) = LocallyEarnedBy(rs, ks, now)
    BY <2>1, <2>4, DaysOfIsTotal, LocalDaysOfIsTotal, EarnedByIsTotal, LocallyEarnedByIsTotal
  <2> QED BY <2>5 DEF ks
<1>4. /\ counted \subseteq DOMAIN rs
      /\ DOMAIN e = Vehicles(rs, counted) /\ DOMAIN g = DOMAIN e
      /\ \A v \in DOMAIN e :
           /\ e[v].vehicle_id = v /\ e[v].rental_count = Cardinality(of(v))
           /\ e[v].rental_days = DaysOf(rs, of(v), now) /\ e[v].revenue = EarnedBy(rs, of(v), now)
           /\ e[v].reservations = of(v)
           /\ g[v] = [vehicle_id   |-> v,
                      rental_count |-> Cardinality(of(v)),
                      rental_days  |-> LocalDaysOf(rs, of(v), now),
                      revenue      |-> LocallyEarnedBy(rs, of(v), now),
                      utilization  |-> Utilization(rs, of(v), now)]
           /\ g[v].rental_count = Cardinality(of(v)) /\ g[v].revenue = LocallyEarnedBy(rs, of(v), now)
  BY <1>1
<1> HIDE DEF e, g, of
<1>5. IsEntries(e)
  <2>1. DOMAIN e \subseteq DOMAIN IdOrder /\ IsFiniteSet(DOMAIN e) BY <1>4, RankedRentals
  <2>2. ASSUME NEW v \in DOMAIN e PROVE e[v].rental_count \in Int /\ e[v].revenue \in Int
    <3>1. /\ Cardinality(RentalsOf(rs, counted, v)) \in Int
          /\ EarnedBy(rs, RentalsOf(rs, counted, v), now) \in Int
      BY <1>4, RankedRentals
    <3>2. e[v].rental_count = Cardinality(of(v)) /\ e[v].revenue = EarnedBy(rs, of(v), now) BY <1>4
    <3> QED BY <3>1, <3>2 DEF of
  <2> QED BY <2>1, <2>2 DEF IsEntries
<1>6. /\ IsEntries(g) /\ DOMAIN Ranked(g) = DOMAIN Ranked(e)
      /\ \A i \in DOMAIN Ranked(e) : Winner(g, i) = Winner(e, i)
  <2>1. \A v \in DOMAIN e : g[v].rental_count = e[v].rental_count /\ g[v].revenue = e[v].revenue
    BY <1>3, <1>4
  <2> QED BY <1>4, <1>5, <2>1, RankedAlike
<1>7. get_vehicle_performance(rs, now) = Ranked(g)
  <2>1. get_vehicle_performance(rs, now) =
          [i \in DOMAIN Ranked(e) |->
             [vehicle_id   |-> Ranked(e)[i].vehicle_id,
              rental_count |-> Ranked(e)[i].rental_count,
              rental_days  |-> Ranked(e)[i].rental_days,
              revenue      |-> Ranked(e)[i].revenue,
              utilization  |-> Utilization(rs, Ranked(e)[i].reservations, now)]]
    BY <1>2 DEF get_vehicle_performance
  <2>2. ASSUME NEW i \in DOMAIN Ranked(e)
        PROVE  Ranked(g)[i] = [vehicle_id   |-> Ranked(e)[i].vehicle_id,
                               rental_count |-> Ranked(e)[i].rental_count,
                               rental_days  |-> Ranked(e)[i].rental_days,
                               revenue      |-> Ranked(e)[i].revenue,
                               utilization  |-> Utilization(rs, Ranked(e)[i].reservations, now)]
    <3> DEFINE v == Winner(e, i)
    <3>1. v \in DOMAIN e /\ Ranked(e)[i] = e[v] /\ Ranked(g)[i] = g[v]
      BY <1>5, <1>6, RankedFacts
    <3> HIDE DEF v
    <3> QED BY <1>3, <1>4, <3>1
  <2>3. Ranked(g) = [i \in DOMAIN Ranked(e) |-> Ranked(g)[i]]
    <3>1. Ranked(g) = [i \in DOMAIN Ranked(g) |-> Ranked(g)[i]] BY DEF Ranked
    <3> QED BY <1>6, <3>1
  <2> QED BY <2>1, <2>2, <2>3
<1> QED BY <1>2, <1>7 DEF RankingsAgree

(***************************************************************************)
(* A snapshot reconciles                                                   *)
(***************************************************************************)
LEMMA TotalIsNat ==
  ASSUME NEW S, IsFiniteSet(S), NEW f, \A k \in S : f[k] \in Nat PROVE Total(f, S) \in Nat
<1> DEFINE G == {T \in SUBSET S : Total(f, T) \in Nat}
<1>1. {} \in G BY NoTotal
<1>2. ASSUME NEW T \in SUBSET S, T # {}, T \ {Pick(T)} \in G PROVE T \in G
  <2>1. Total(f, T) = f[Pick(T)] + Total(f, T \ {Pick(T)}) BY <1>2, TotalFacts, FS_Subset
  <2>2. f[Pick(T)] \in Nat BY <1>2 DEF Pick
  <2> QED BY <1>2, <2>1, <2>2
<1>3. S \in G
  <2> HIDE DEF G
  <2> QED BY <1>1, <1>2, OneMore
<1> QED BY <1>3

\* No figure of a period is negative.
LEMMA FiguresAreNat ==
  ASSUME NEW d, AreTables(d), NEW n \in Int, NEW p, p.from \in Int, p.to \in Int
  PROVE  /\ revenue_between(d.ren, p, n) \in Nat /\ rental_days_between(d.ren, p, n) \in Nat
         /\ revenue_between_rows(d.ren, p, n).revenue \in Nat
<1>1. IsFiniteSet(DOMAIN d.ren) BY DEF AreTables
<1>2. ASSUME NEW k \in DOMAIN d.ren
      PROVE  /\ Earned(d.ren, p, n)[k] \in Nat /\ Days(d.ren, p, n)[k] \in Nat
             /\ EarnedLocally(d.ren, p, n)[k] \in Nat
  <2> DEFINE r == d.ren[k]
  <2>1. Fits("ren", r) BY TablesFacts
  <2>2. /\ business_date(r.start) \in Nat /\ r.price \div r.days \in Nat /\ r.days \in Nat
        /\ reservation_period_revenue(r, p, n) \in Nat /\ RealisedInside(r, p, n) \in Nat
        /\ _realised_for_row(r, n) \in Nat
    <3>1. r.days \in Nat /\ _realised_for_row(r, n) \in 0 .. r.days
      BY <2>1, RentalFacts, RealisedFacts
    <3> QED BY <2>1, <3>1, RentalFacts, RentalRevenue
  <2> HIDE DEF r
  <2>3. LocalDaysInside(r, p, n) \in Nat
    <3>1. DaysInside(business_date(r.start), _realised_for_row(r, n), p) \in Nat
      BY <2>2, DaysInsideFacts
    <3> QED BY <3>1 DEF LocalDaysInside
  <2>4. _reservation_revenue(r, p, n) \in Nat BY <2>2, <2>3 DEF _reservation_revenue
  <2> QED BY <2>2, <2>4 DEF Earned, Days, EarnedLocally, r
<1>3. /\ Total(Earned(d.ren, p, n), DOMAIN d.ren) \in Nat
      /\ Total(Days(d.ren, p, n), DOMAIN d.ren) \in Nat
      /\ Total(EarnedLocally(d.ren, p, n), DOMAIN d.ren) \in Nat
  BY <1>1, <1>2, TotalIsNat
<1> QED BY <1>3, RevenueIsTotal, LocalRevenueIsTotal, RentalDaysIsTotal

LEMMA CardinalityAdds ==
  ASSUME NEW S, NEW T, NEW U, IsFiniteSet(S), IsFiniteSet(T), S \cap T = {}, U = S \cup T
  PROVE  IsFiniteSet(U) /\ Cardinality(U) = Cardinality(S) + Cardinality(T)
<1>1. Cardinality(S \cup T) = Cardinality(S) + Cardinality(T) - 0 /\ IsFiniteSet(S \cup T)
  BY FS_Union, FS_EmptySet
<1>2. Cardinality(S) \in Nat /\ Cardinality(T) \in Nat BY FS_CardinalityType
<1> QED BY <1>1, <1>2

\* Every vehicle is in one bucket.
LEMMA BucketsAddUp ==
  ASSUME NEW eff, IsFiniteSet(DOMAIN eff), \A v \in DOMAIN eff : eff[v] \in Statuses
  PROVE  /\ \A s : Bucket(eff, s) \in Nat
         /\ Cardinality(DOMAIN eff) =
              Bucket(eff, "AVAILABLE") + Bucket(eff, "RESERVED") + Bucket(eff, "RENTED")
              + Bucket(eff, "MAINTENANCE") + Bucket(eff, "SOLD") + Bucket(eff, "INACTIVE")
<1> DEFINE in(s) == {v \in DOMAIN eff : eff[v] = s}
<1>1. ASSUME NEW s PROVE IsFiniteSet(in(s)) /\ Bucket(eff, s) = Cardinality(in(s)) /\ Bucket(eff, s) \in Nat
  <2>1. in(s) \subseteq DOMAIN eff OBVIOUS
  <2>2. Bucket(eff, s) = Cardinality(in(s)) BY DEF Bucket
  <2> HIDE DEF in
  <2> QED BY <2>1, <2>2, FS_Subset, FS_CardinalityType
<1> DEFINE A == in("AVAILABLE")
           B == A \cup in("RESERVED")
           C == B \cup in("RENTED")
           D == C \cup in("MAINTENANCE")
           E == D \cup in("SOLD")
           F == E \cup in("INACTIVE")
<1>2. F = DOMAIN eff BY DEF Statuses, Operational, STRUCTURAL_STATUSES
<1>3. /\ B = A \cup in("RESERVED") /\ A \cap in("RESERVED") = {}
      /\ C = B \cup in("RENTED") /\ B \cap in("RENTED") = {}
      /\ D = C \cup in("MAINTENANCE") /\ C \cap in("MAINTENANCE") = {}
      /\ E = D \cup in("SOLD") /\ D \cap in("SOLD") = {}
      /\ F = E \cup in("INACTIVE") /\ E \cap in("INACTIVE") = {}
  OBVIOUS
<1>4. IsFiniteSet(A) /\ Cardinality(A) = Bucket(eff, "AVAILABLE") BY <1>1
<1> HIDE DEF in, A, B, C, D, E, F
<1>5. IsFiniteSet(B) /\ Cardinality(B) = Cardinality(A) + Bucket(eff, "RESERVED")
  <2>1. IsFiniteSet(in("RESERVED")) /\ Bucket(eff, "RESERVED") = Cardinality(in("RESERVED")) BY <1>1
  <2> QED BY <1>3, <1>4, <2>1, CardinalityAdds
<1>6. IsFiniteSet(C) /\ Cardinality(C) = Cardinality(B) + Bucket(eff, "RENTED")
  <2>1. IsFiniteSet(in("RENTED")) /\ Bucket(eff, "RENTED") = Cardinality(in("RENTED")) BY <1>1
  <2> QED BY <1>3, <1>5, <2>1, CardinalityAdds
<1>7. IsFiniteSet(D) /\ Cardinality(D) = Cardinality(C) + Bucket(eff, "MAINTENANCE")
  <2>1. IsFiniteSet(in("MAINTENANCE")) /\ Bucket(eff, "MAINTENANCE") = Cardinality(in("MAINTENANCE")) BY <1>1
  <2> QED BY <1>3, <1>6, <2>1, CardinalityAdds
<1>8. IsFiniteSet(E) /\ Cardinality(E) = Cardinality(D) + Bucket(eff, "SOLD")
  <2>1. IsFiniteSet(in("SOLD")) /\ Bucket(eff, "SOLD") = Cardinality(in("SOLD")) BY <1>1
  <2> QED BY <1>3, <1>7, <2>1, CardinalityAdds
<1>9. IsFiniteSet(F) /\ Cardinality(F) = Cardinality(E) + Bucket(eff, "INACTIVE")
  <2>1. IsFiniteSet(in("INACTIVE")) /\ Bucket(eff, "INACTIVE") = Cardinality(in("INACTIVE")) BY <1>1
  <2> QED BY <1>3, <1>8, <2>1, CardinalityAdds
<1> QED BY <1>1, <1>2, <1>4, <1>5, <1>6, <1>7, <1>8, <1>9

\* The reference's ranking is in the order its check asks for.
LEMMA TopDescends ==
  ASSUME NEW d, AreTables(d), NEW n \in Int
  PROVE  LET top == top_vehicles_section(d.ren, n, TOP_VEHICLES_LIMIT) IN
         \A i, j \in DOMAIN top : i < j => top[i].rental_count >= top[j].rental_count
<1> DEFINE rs == d.ren
           counted == Where(rs, LAMBDA r : is_revenue_eligible(r) /\ r.start <= n)
           of(v) == RentalsOf(rs, counted, v)
           e == [v \in Vehicles(rs, counted) |->
                   [vehicle_id   |-> v,
                    rental_count |-> Cardinality(of(v)),
                    rental_days  |-> DaysOf(rs, of(v), n),
                    revenue      |-> EarnedBy(rs, of(v), n)]]
           top == top_vehicles_section(rs, n, TOP_VEHICLES_LIMIT)
<1>1. top = FirstOnes(Ranked(e), TOP_VEHICLES_LIMIT) BY DEF top_vehicles_section
<1>2. counted \subseteq DOMAIN rs BY DEF Where
<1> HIDE DEF counted
<1>3. IsEntries(e)
  <2>1. DOMAIN e \subseteq DOMAIN IdOrder /\ IsFiniteSet(DOMAIN e) BY <1>2, RankedRentals
  <2>2. ASSUME NEW v \in DOMAIN e PROVE e[v].rental_count \in Int /\ e[v].revenue \in Int
    <3>1. /\ Cardinality(RentalsOf(rs, counted, v)) \in Int
          /\ EarnedBy(rs, RentalsOf(rs, counted, v), n) \in Int
      BY <1>2, RankedRentals
    <3> QED BY <3>1
  <2> HIDE DEF e
  <2> QED BY <2>1, <2>2 DEF IsEntries
<1> HIDE DEF e, top
<1>4. DOMAIN top \subseteq DOMAIN Ranked(e) /\ \A i \in DOMAIN top : top[i] = Ranked(e)[i]
  BY <1>1, <1>3, FirstOnesFacts, IdentifiersDiffer
<1>5. ASSUME NEW i \in DOMAIN top, NEW j \in DOMAIN top, i < j
      PROVE  top[i].rental_count >= top[j].rental_count
  BY <1>3, <1>4, <1>5, RankedDescends
<1> QED BY <1>5 DEF top

\* A snapshot derived from any tables passes the dashboard's own check.
LEMMA SnapshotPasses ==
  ASSUME NEW d, AreTables(d), NEW n \in Int, NEW p, p.from \in Int, p.to \in Int
  PROVE  validate(build_snapshot(d.veh, d.ren, d.tic, p, n, TOP_VEHICLES_LIMIT))
<1> DEFINE dto == build_snapshot(d.veh, d.ren, d.tic, p, n, TOP_VEHICLES_LIMIT)
           eff == effective_statuses(d.veh, d.ren, d.tic, n)
           top == top_vehicles_section(d.ren, n, TOP_VEHICLES_LIMIT)
<1>1. /\ dto.vehicles = fleet_section(d.veh, d.ren, d.tic, n)
      /\ dto.top_vehicles = top
      /\ dto.revenue.revenue = revenue_between(d.ren, p, n)
      /\ dto.revenue.rental_days = rental_days_between(d.ren, p, n)
  BY DEF build_snapshot
<1>2. DOMAIN eff = DOMAIN d.veh /\ IsFiniteSet(DOMAIN eff) /\ \A v \in DOMAIN eff : eff[v] \in Statuses
  <2>1. eff \in [DOMAIN d.veh -> Statuses] BY StatusesInRange DEF StatusesAt
  <2>2. IsFiniteSet(DOMAIN d.veh) BY TablesFacts
  <2> HIDE DEF eff
  <2> QED BY <2>1, <2>2
<1>3. LET v == fleet_section(d.veh, d.ren, d.tic, n) IN
      /\ v.ready_to_rent = Bucket(eff, "AVAILABLE") + Bucket(eff, "RESERVED")
      /\ v.active_rental = Bucket(eff, "RENTED") /\ v.maintenance = Bucket(eff, "MAINTENANCE")
      /\ v.total = Bucket(eff, "AVAILABLE") + Bucket(eff, "RESERVED") + Bucket(eff, "RENTED")
                   + Bucket(eff, "MAINTENANCE")
      /\ v.excluded_structural = Bucket(eff, "SOLD") + Bucket(eff, "INACTIVE")
      /\ v.fleet_size = Cardinality(DOMAIN d.veh)
  BY DEF fleet_section
<1> HIDE DEF eff, dto
<1>4. /\ \A s : Bucket(eff, s) \in Nat
      /\ Cardinality(DOMAIN d.veh) =
           Bucket(eff, "AVAILABLE") + Bucket(eff, "RESERVED") + Bucket(eff, "RENTED")
           + Bucket(eff, "MAINTENANCE") + Bucket(eff, "SOLD") + Bucket(eff, "INACTIVE")
  BY <1>2, BucketsAddUp
<1>5. revenue_between(d.ren, p, n) \in Nat /\ rental_days_between(d.ren, p, n) \in Nat
  BY FiguresAreNat
<1>6. \A i, j \in DOMAIN top : i < j => top[i].rental_count >= top[j].rental_count
  BY TopDescends
<1> HIDE DEF top
<1>7. LET v == dto.vehicles IN
      /\ \A m \in {v.total, v.ready_to_rent, v.active_rental, v.maintenance} : m >= 0
      /\ v.ready_to_rent + v.active_rental + v.maintenance = v.total
      /\ v.total + v.excluded_structural = v.fleet_size
  BY <1>1, <1>3, <1>4
<1>8. dto.revenue.revenue >= 0 /\ dto.revenue.rental_days >= 0 BY <1>1, <1>5
<1> QED BY <1>1, <1>6, <1>7, <1>8 DEF validate, dto

\* The vehicles with a ticket 'en cours' are the ones in maintenance and the sold ones.
LEMMA TicketsReconcile ==
  ASSUME NEW d, AreTables(d), NoOrphans(d), NEW n \in Int, NEW p
  PROVE  LET dto == build_snapshot(d.veh, d.ren, d.tic, p, n, TOP_VEHICLES_LIMIT) IN
         dto.maintenance.vehicles_in_maintenance - dto.vehicles.maintenance
           = Cardinality({v \in structural(d.veh) :
               \E m \in DOMAIN d.tic : d.tic[m].veh = v /\ Occupies(d.tic[m], n)})
<1> DEFINE dto == build_snapshot(d.veh, d.ren, d.tic, p, n, TOP_VEHICLES_LIMIT)
           eff == effective_statuses(d.veh, d.ren, d.tic, n)
           active == Where(d.tic, LAMBDA m : Occupies(m, n))
           held == {d.tic[m].veh : m \in active}
           M == RefMaintenance(d.veh, d.tic, n)
           T == {v \in structural(d.veh) :
                   \E m \in DOMAIN d.tic : d.tic[m].veh = v /\ Occupies(d.tic[m], n)}
<1>1. /\ dto.maintenance.vehicles_in_maintenance = Cardinality(held)
      /\ dto.vehicles.maintenance = Bucket(eff, "MAINTENANCE")
  BY DEF build_snapshot, maintenance_section, fleet_section
<1>2. active = {m \in DOMAIN d.tic : Occupies(d.tic[m], n)} BY DEF Where
<1>3. \A m \in DOMAIN d.tic : d.tic[m].veh \in DOMAIN d.veh BY DEF NoOrphans
<1>4. Bucket(eff, "MAINTENANCE") = Cardinality(M)
  <2>1. {v \in DOMAIN eff : eff[v] = "MAINTENANCE"} = M
    BY DEF effective_statuses, structural, STRUCTURAL_STATUSES, RefMaintenance
  <2> QED BY <2>1 DEF Bucket
<1>5. held = M \cup T /\ M \cap T = {} BY <1>2, <1>3 DEF RefMaintenance, structural
<1>6. IsFiniteSet(M) /\ IsFiniteSet(T)
  <2>1. M \subseteq DOMAIN d.veh /\ T \subseteq DOMAIN d.veh BY DEF RefMaintenance, structural
  <2>2. IsFiniteSet(DOMAIN d.veh) BY TablesFacts
  <2> HIDE DEF M, T
  <2> QED BY <2>1, <2>2, FS_Subset
<1> HIDE DEF dto, eff, held, M, T
<1>7. Cardinality(held) = Cardinality(M) + Cardinality(T) BY <1>5, <1>6, CardinalityAdds
<1>8. Cardinality(M) \in Nat /\ Cardinality(T) \in Nat BY <1>6, FS_CardinalityType
<1>9. dto.maintenance.vehicles_in_maintenance - dto.vehicles.maintenance = Cardinality(T)
  BY <1>1, <1>4, <1>7, <1>8
<1> QED BY <1>9 DEF dto, T

\* A client's file counts the rentals that cover now, and the fleet shows their
\* vehicles as out.
LEMMA FilesAndBadges ==
  ASSUME now \in Int, NEW d, AreTables(d), NoOrphans(d) PROVE FilesMatchBadges(d)
<1> SUFFICES ASSUME NEW c \in Clients
             PROVE  LET file == get_client_rentals_report(d.ren, c, now)
                        out  == {k \in get_client_rentals(d.ren, c) : Out(d.ren[k], now)}
                    IN /\ file.active_rentals = Cardinality(out)
                       /\ \A k \in out :
                            /\ d.ren[k].veh \in {e.vehicle_id : e \in file.vehicles}
                            /\ effective_statuses(d.veh, d.ren, d.tic, now)[d.ren[k].veh]
                                 \notin {"AVAILABLE", "RESERVED"}
  BY DEF FilesMatchBadges
<1> DEFINE rs == d.ren
           mine == get_client_rentals(rs, c)
           file == get_client_rentals_report(rs, c, now)
           out == {k \in mine : Out(rs[k], now)}
           eligible == {k \in mine : rs[k].status \in {"RESERVED", "ACTIVE", "COMPLETED"}}
           done == {k \in eligible : rs[k].status = "COMPLETED"}
           active == {k \in eligible \ done : rs[k].start <= now /\ now < rs[k].end}
<1>1. file.active_rentals = Cardinality(active) /\ file.vehicles = Breakdown(rs, eligible)
  BY DEF get_client_rentals_report, Report
<1>2. mine \subseteq DOMAIN rs BY DEF get_client_rentals, Where
<1>3. active = out /\ out \subseteq eligible BY DEF Out, BlockingRental, BLOCKING_RESERVATION_STATUSES
<1>4. ASSUME NEW k \in out PROVE rs[k].veh \in {e.vehicle_id : e \in file.vehicles}
  <2>1. k \in eligible BY <1>3
  <2> HIDE DEF eligible, out
  <2>2. \E e \in Breakdown(rs, eligible) : e.vehicle_id = rs[k].veh
    <3>1. ASSUME NEW v \in {rs[j].veh : j \in eligible}
          PROVE  \E e \in Breakdown(rs, eligible) : e.vehicle_id = v
      <4> DEFINE e == [vehicle_id |-> v,
                       rentals |-> Cardinality({j \in eligible : rs[j].veh = v}),
                       days |-> MapThenSumSet(LAMBDA j : rs[j].days, {i \in eligible : rs[i].veh = v}),
                       amount |-> MapThenSumSet(LAMBDA j : rs[j].price, {i \in eligible : rs[i].veh = v})]
      <4>1. e \in Breakdown(rs, eligible) BY DEF Breakdown
      <4>2. e.vehicle_id = v OBVIOUS
      <4> HIDE DEF e
      <4> QED BY <4>1, <4>2
    <3>2. rs[k].veh \in {rs[j].veh : j \in eligible} BY <2>1
    <3> QED BY <3>1, <3>2
  <2> HIDE DEF file
  <2> QED BY <1>1, <2>2
<1>5. ASSUME NEW k \in out
      PROVE  effective_statuses(d.veh, rs, d.tic, now)[rs[k].veh] \notin {"AVAILABLE", "RESERVED"}
  <2> DEFINE v == rs[k].veh
  <2>1. k \in DOMAIN rs /\ Out(rs[k], now) BY <1>2
  <2>2. v \in DOMAIN d.veh BY <2>1 DEF NoOrphans
  <2>3. \/ v \in structural(d.veh) /\ d.veh[v] \in STRUCTURAL_STATUSES
        \/ v \in RefMaintenance(d.veh, d.tic, now)
        \/ v \in RefRented(d.veh, rs, d.tic, now)
    BY <2>1, <2>2 DEF structural, RefRented
  <2>4. ~ (v \in structural(d.veh) /\ v \in RefMaintenance(d.veh, d.tic, now)) BY DEF RefMaintenance
  <2>5. effective_statuses(d.veh, rs, d.tic, now)[v]
          = IF v \in structural(d.veh) THEN d.veh[v]
            ELSE IF v \in RefMaintenance(d.veh, d.tic, now) THEN "MAINTENANCE"
            ELSE IF v \in RefRented(d.veh, rs, d.tic, now) THEN "RENTED"
            ELSE IF v \in RefReserved(d.veh, rs, d.tic, now) THEN "RESERVED"
            ELSE "AVAILABLE"
    BY <2>2 DEF effective_statuses
  <2>6. effective_statuses(d.veh, rs, d.tic, now)[v] \notin {"AVAILABLE", "RESERVED"}
    <3> HIDE DEF v, rs
    <3>1. CASE v \in structural(d.veh) BY <3>1, <2>5 DEF structural, STRUCTURAL_STATUSES
    <3>2. CASE v \notin structural(d.veh) BY <3>2, <2>3, <2>5
    <3> QED BY <3>1, <3>2
  <2> QED BY <2>6
<1> HIDE DEF file, out, active
<1> QED BY <1>1, <1>3, <1>4, <1>5 DEF file, out

(***************************************************************************)
(* Every published snapshot is valid                                       *)
(***************************************************************************)
Solvent(o) == "revenue" \in DOMAIN o /\ \A p \in DOMAIN o.revenue : o.revenue[p] >= 0

LEMMA CountsAreNat ==
  ASSUME NEW d, AreTables(d), NEW n
  PROVE  LET counts == compute_fleet_counts_rows(d.veh, d.ren, d.tic, n) IN
         \A f \in DOMAIN counts : counts[f] >= 0
<1> DEFINE eff == StatusesAt(d, n)
<1>1. compute_fleet_counts_rows(d.veh, d.ren, d.tic, n) = CountsOf(eff)
  BY TablesFacts, CountsAgree DEF StatusesAt
<1>2. IsFiniteSet(DOMAIN eff) /\ \A v \in DOMAIN eff : eff[v] \in Statuses
  <2>1. eff \in [DOMAIN d.veh -> Statuses] BY StatusesInRange
  <2>2. IsFiniteSet(DOMAIN d.veh) BY TablesFacts
  <2> HIDE DEF eff
  <2> QED BY <2>1, <2>2
<1> HIDE DEF eff
<1>3. \A s : Bucket(eff, s) \in Nat BY <1>2, BucketsAddUp
<1>4. Cardinality({v \in DOMAIN eff : eff[v] \in Operational}) \in Nat
  <2>1. {v \in DOMAIN eff : eff[v] \in Operational} \subseteq DOMAIN eff OBVIOUS
  <2> QED BY <1>2, <2>1, FS_Subset, FS_CardinalityType
<1>5. \A f \in DOMAIN CountsOf(eff) : CountsOf(eff)[f] >= 0 BY <1>3, <1>4 DEF CountsOf
<1> QED BY <1>1, <1>5

LEMMA OverviewsAreSolvent ==
  ASSUME NEW d, AreTables(d), NEW n \in Int
  PROVE  /\ \A counts : Solvent(compute_overview_rows(d.ren, counts, d.tic, n))
         /\ Solvent(legacy_overview(d.veh, d.ren, d.tic, n))
<1>1. ASSUME NEW name \in StandingPeriods
      PROVE  /\ revenue_between_rows(d.ren, period_bounds(name, n), n).revenue >= 0
             /\ revenue_between(d.ren, period_bounds(name, n), n) >= 0
  <2>1. period_bounds(name, n).from \in Int /\ period_bounds(name, n).to \in Int
    BY PeriodFacts DEF PERIOD_NAMES
  <2>2. /\ revenue_between_rows(d.ren, period_bounds(name, n), n).revenue \in Nat
        /\ revenue_between(d.ren, period_bounds(name, n), n) \in Nat
    BY <2>1, FiguresAreNat
  <2> QED BY <2>2
<1>2. ASSUME NEW counts PROVE Solvent(compute_overview_rows(d.ren, counts, d.tic, n))
  <2> DEFINE o == compute_overview_rows(d.ren, counts, d.tic, n)
  <2>1. /\ "revenue" \in DOMAIN o
        /\ o.revenue = [name \in StandingPeriods |->
                          revenue_between_rows(d.ren, period_bounds(name, n), n).revenue]
    BY DEF compute_overview_rows, Overview
  <2> HIDE DEF o
  <2>2. Solvent(o) BY <1>1, <2>1 DEF Solvent
  <2> QED BY <2>2 DEF o
<1>3. Solvent(legacy_overview(d.veh, d.ren, d.tic, n))
  <2> DEFINE o == legacy_overview(d.veh, d.ren, d.tic, n)
  <2>1. /\ "revenue" \in DOMAIN o
        /\ o.revenue = [name \in StandingPeriods |->
                          revenue_between(d.ren, period_bounds(name, n), n)]
    BY DEF legacy_overview, Overview, _period_block
  <2> HIDE DEF o
  <2>2. Solvent(o) BY <1>1, <2>1 DEF Solvent
  <2> QED BY <2>2 DEF o
<1> QED BY <1>2, <1>3

\* A boundary yields a valid snapshot, and an overview that will not spoil one.
LEMMA RecomputeIsValid ==
  ASSUME NEW s, IsSnapshot(s), NEW held, held # Null => Solvent(held), NEW n \in Int
  PROVE  LET r == recompute_effective(s, held, n) IN
         _validate_snapshot(r) /\ (held # Null => Solvent(r.overview))
<1> DEFINE d == s.tables
           counts == compute_fleet_counts_rows(d.veh, d.ren, d.tic, n)
           fresh == compute_overview_rows(d.ren, counts, d.tic, n)
           kept == Evolve(held, fresh, s.at, n)
           r == recompute_effective(s, held, n)
<1>1. /\ AreTables(d)
      /\ DOMAIN s = {"at", "derived", "tables", "effective", "counts", "overview"}
  BY DEF IsSnapshot
<1>2. r.counts = counts /\ r.overview = IF held # Null THEN kept ELSE fresh
  BY <1>1 DEF recompute_effective
<1>3. Solvent(fresh) /\ \A f \in DOMAIN counts : counts[f] >= 0
  BY <1>1, OverviewsAreSolvent, CountsAreNat
<1> HIDE DEF d, counts, fresh
<1>4. held # Null => Solvent(kept)
  <2> SUFFICES ASSUME held # Null PROVE Solvent(kept) OBVIOUS
  <2>1. /\ "revenue" \in DOMAIN kept
        /\ kept.revenue = IF utc_date(n) # utc_date(s.at) THEN fresh.revenue ELSE held.revenue
    BY DEF Evolve, Solvent
  <2> HIDE DEF kept
  <2> QED BY <1>3, <2>1 DEF Solvent
<1> HIDE DEF kept, r
<1>5. Solvent(r.overview) BY <1>2, <1>3, <1>4
<1>6. _validate_snapshot(r) BY <1>2, <1>3, <1>5 DEF _validate_snapshot, Solvent
<1> QED BY <1>5, <1>6 DEF r

LEMMA StepKeepsValid == StoreInv /\ ValidInv /\ [Next]_vars => ValidInv'
<1> SUFFICES ASSUME StoreInv, ValidInv, [Next]_vars PROVE ValidInv' OBVIOUS
<1>1. /\ snapshot # Null => _validate_snapshot(snapshot)
      /\ worker # Null => _validate_snapshot(worker)
      /\ server # Null => Solvent(server)
      /\ now \in Int
  BY TimeFacts DEF ValidInv, Solvent
<1>2. SUFFICES /\ snapshot' # Null => _validate_snapshot(snapshot')
               /\ worker' # Null => _validate_snapshot(worker')
               /\ server' # Null => Solvent(server')
  <2>1. _validate_snapshot(snapshot)' <=> _validate_snapshot(snapshot') BY DEF _validate_snapshot
  <2>2. _validate_snapshot(worker)' <=> _validate_snapshot(worker') BY DEF _validate_snapshot
  <2> QED BY <1>2, <2>1, <2>2 DEF ValidInv, Solvent
<1>3. CASE UNCHANGED <<snapshot, server, worker>> BY <1>1, <1>3
<1>4. CASE Publish
  <2>1. /\ snapshot' = IF _validate_snapshot(rows.tables) THEN rows.tables ELSE snapshot
        /\ UNCHANGED <<server, worker>>
    BY <1>4 DEF Publish
  <2> QED BY <1>1, <2>1
<1>5. CASE _fire
  <2> DEFINE r == recompute_effective(snapshot, server, now)
             q == [snapshot EXCEPT !.derived = now]
  <2>1. /\ clock.due # Null
        /\ snapshot' = IF server = Null /\ Shown(r) = Shown(snapshot) THEN q ELSE r
        /\ server' = IF server # Null THEN r.overview ELSE Null
        /\ UNCHANGED worker
    BY <1>5 DEF _fire
  <2>2. IsSnapshot(snapshot) BY <2>1 DEF StoreInv, SnapshotsInv
  <2>3. _validate_snapshot(r) /\ (server # Null => Solvent(r.overview))
    BY <1>1, <2>2, RecomputeIsValid
  <2>4. Shown(r) = Shown(snapshot) => _validate_snapshot(q)
    <3> SUFFICES ASSUME Shown(r) = Shown(snapshot) PROVE _validate_snapshot(q) OBVIOUS
    <3>1. Shown(r).counts = Shown(snapshot).counts /\ Shown(r).overview = Shown(snapshot).overview
      OBVIOUS
    <3>2. r.counts = snapshot.counts /\ r.overview = snapshot.overview BY <3>1 DEF Shown
    <3>3. q.counts = snapshot.counts /\ q.overview = snapshot.overview BY <2>2 DEF IsSnapshot
    <3> HIDE DEF r, q
    <3> QED BY <2>3, <3>2, <3>3 DEF _validate_snapshot
  <2> HIDE DEF r, q
  <2> QED BY <1>1, <2>1, <2>3, <2>4
<1>6. CASE update_server_dashboard
  <2> DEFINE base == IF snapshot # Null THEN snapshot ELSE _build_snapshot(disk, now, Null)
  <2>1. /\ server' = legacy_overview(disk.veh, disk.ren, disk.tic, now)
        /\ worker' = [base EXCEPT !.overview = server']
        /\ UNCHANGED snapshot
    BY <1>6 DEF update_server_dashboard
  <2>2. Solvent(server') BY <1>1, <2>1, OverviewsAreSolvent DEF StoreInv
  <2>3. IsSnapshot(base) /\ \A f \in DOMAIN base.counts : base.counts[f] >= 0
    <3>1. CASE snapshot # Null
      BY <1>1, <3>1 DEF StoreInv, SnapshotsInv, _validate_snapshot
    <3>2. CASE snapshot = Null
      <4>1. AreTables(disk) /\ now \in 0 .. now /\ now \in Nat BY TimeFacts DEF StoreInv
      <4> DEFINE e == Visible(disk)
                 s == _build_snapshot(disk, now, Null)
      <4>2. IsSnapshot(s) BY <4>1, BuildFacts
      <4>3. AreTables(e) BY <4>1, VisibleFacts
      <4>4. s.counts = compute_fleet_counts_rows(e.veh, e.ren, e.tic, now)
        BY DEF _build_snapshot, BuildFromAnyRow
      <4>5. base = s BY <3>2
      <4> HIDE DEF s, e, base
      <4>6. \A f \in DOMAIN s.counts : s.counts[f] >= 0 BY <4>3, <4>4, CountsAreNat
      <4> QED BY <4>2, <4>5, <4>6
    <3> HIDE DEF base
    <3> QED BY <3>1, <3>2
  <2> HIDE DEF base
  <2>4. worker'.counts = base.counts /\ worker'.overview = server'
    <3>1. DOMAIN base = {"at", "derived", "tables", "effective", "counts", "overview"}
      BY <2>3 DEF IsSnapshot
    <3> QED BY <2>1, <3>1
  <2>5. _validate_snapshot(worker') BY <2>2, <2>3, <2>4 DEF _validate_snapshot, Solvent
  <2> QED BY <1>1, <2>1, <2>2, <2>5
<1>7. CASE ReplaceSnapshot BY <1>1, <1>7 DEF ReplaceSnapshot
<1>8. CASE Tick \/ reload \/ Build \/ Rearm BY <1>3, <1>8 DEF Tick, reload, Build, Rearm
<1>9. CASE \E c \in Changes : SyncCommit(c) \/ mutate(c) BY <1>3, <1>9 DEF SyncCommit, mutate
<1>10. CASE Read("vehicles", "veh", "reservations") \/ Read("reservations", "ren", "build")
  BY <1>3, <1>10 DEF Read
<1>11. CASE UNCHANGED vars BY <1>3, <1>11 DEF vars
<1> QED BY <1>4, <1>5, <1>6, <1>7, <1>8, <1>9, <1>10, <1>11 DEF Next

(***************************************************************************)
(* The promises                                                            *)
(***************************************************************************)
\* Whatever commits, is published, fires or is written back by the worker, every
\* snapshot is a whole one, has the statuses its own rows gave at the instant it
\* was derived, and the timer is due no later than the first boundary after it
\* was armed (DomainStore._build_snapshot, recompute_effective, BoundaryClock).
THEOREM StoreInvHolds == Spec => []StoreInv
<1>1. StoreInv /\ [Next]_vars => StoreInv' BY StepKeepsStore
<1> QED BY InitStore, <1>1, PTL DEF Spec

\* Every value keeps its type, and the picture has no row of a vehicle it does
\* not show: DomainStore drops such rows when it reads the tables.
THEOREM TypeCorrect == Spec => []TypeOK
<1>1. StoreInv => TypeOK
  <2> SUFFICES ASSUME StoreInv PROVE TypeOK OBVIOUS
  <2>1. ASSUME NEW s \in {snapshot, worker} \ {Null}
        PROVE  /\ s.at \in 0 .. now /\ s.derived \in s.at .. now
               /\ s.effective \in [DOMAIN s.tables.veh -> Statuses]
               /\ \A k \in DOMAIN s.tables.ren : s.tables.ren[k].veh \in DOMAIN s.effective
               /\ \A k \in DOMAIN s.tables.tic : s.tables.tic[k].veh \in DOMAIN s.effective
    <3>1. IsSnapshot(s) BY DEF StoreInv, SnapshotsInv
    <3>2. /\ AreTables(s.tables) /\ NoOrphans(s.tables)
          /\ s.at \in 0 .. now /\ s.derived \in s.at .. now
          /\ s.effective = StatusesAt(s.tables, s.derived)
      BY <3>1 DEF IsSnapshot
    <3>3. s.effective \in [DOMAIN s.tables.veh -> Statuses] BY <3>2, StatusesInRange
    <3>4. DOMAIN s.effective = DOMAIN s.tables.veh BY <3>3
    <3>5. /\ \A k \in DOMAIN s.tables.ren : s.tables.ren[k].veh \in DOMAIN s.effective
          /\ \A k \in DOMAIN s.tables.tic : s.tables.tic[k].veh \in DOMAIN s.effective
      BY <3>2, <3>4 DEF NoOrphans
    <3> QED BY <3>2, <3>3, <3>5
  <2>2. DayLen \in Nat BY CalendarUnits
  <2>3. clock.due \in 0 .. Horizon + DayLen \cup {Null} /\ clock.armed \in 0 .. now
    BY <2>2, TimeFacts DEF StoreInv, ClockInv
  <2> QED BY <2>1, <2>3 DEF TypeOK, StoreInv
<1> QED BY StoreInvHolds, <1>1, PTL

\* The reference, the backend's SQL and the desktop's sets derive the same status
\* for every vehicle and the same size for every bucket, whatever the tables
\* hold: whatever number of vehicles, with orphan rows or without.
THEOREM DerivationsAgreeHolds == Spec => []DerivationsAgree
<1>1. StoreInv => DerivationsAgree
  <2> SUFFICES ASSUME StoreInv, NEW d \in Pictures
               PROVE  LET ref == effective_statuses(d.veh, d.ren, d.tic, now) IN
                      /\ compute_effective_statuses(d.veh, d.ren, d.tic, now) = ref
                      /\ effective_statuses_rows(d.veh, d.ren, d.tic, now) = ref
                      /\ compute_fleet_counts_rows(d.veh, d.ren, d.tic, now) = CountsOf(ref)
    BY DEF DerivationsAgree
  <2>1. AreTables(disk) BY DEF StoreInv
  <2>2. AreTables(d)
    <3>1. CASE d = disk BY <2>1, <3>1
    <3>2. CASE ui = "build" /\ d = [rows.tables EXCEPT !.tic = disk.tic]
      <4>1. AreTables(rows.tables) BY <3>2 DEF StoreInv, ReloadInv
      <4>2. AreTables([rows.tables EXCEPT !.tic = disk.tic]) BY <2>1, <4>1, ReadFacts
      <4> QED BY <3>2, <4>2
    <3> QED BY <3>1, <3>2 DEF Pictures
  <2>3. IsFiniteSet(DOMAIN d.veh) /\ \A v \in DOMAIN d.veh : d.veh[v] \in Statuses
    BY <2>2, TablesFacts
  <2> QED BY <2>3, SqlAgrees, LocalAgrees, CountsAgree
<1> QED BY StoreInvHolds, <1>1, PTL

\* The boundary clock needs no polling: while its timer is not due, the statuses
\* on screen are the ones the rows give at this very moment.
THEOREM StatusesCurrentHolds == Spec => []StatusesCurrent
<1>1. StoreInv => StatusesCurrent
  <2> SUFFICES ASSUME StoreInv, Resting, snapshot.tables = clock.tables, Missed = {}
               PROVE  Current(snapshot, now)
    BY DEF StatusesCurrent
  <2> DEFINE d == snapshot.tables
             a == snapshot.derived
  <2>1. /\ IsSnapshot(snapshot) /\ clock.due # Null /\ now < clock.due
    BY DEF StoreInv, SnapshotsInv, Resting
  <2>2. AreTables(d) /\ a \in 0 .. now /\ snapshot.effective = StatusesAt(d, a)
    <3>1. /\ AreTables(d) /\ snapshot.at \in 0 .. now /\ a \in snapshot.at .. now
          /\ snapshot.effective = StatusesAt(d, a)
      BY <2>1 DEF IsSnapshot
    <3> QED BY <3>1, TimeFacts
  <2>3. now \in Int /\ now < FarFuture /\ clock.due \in Int /\ clock.armed \in 0 .. now
    BY <2>1, CalendarUnits, TimeFacts, TimeIsBounded, FarFutureIsInstant DEF StoreInv, ClockInv
  <2>4. ASSUME NEW t \in Edges(d.ren, d.tic, a) PROVE now < t
    <3>1. t \in Int /\ t > a BY <2>2, EdgesFacts
    <3>2. ~ (t <= clock.armed) BY DEF Missed
    <3>3. t \in Edges(clock.tables.ren, clock.tables.tic, clock.armed)
      BY <2>3, <3>1, <3>2 DEF Edges
    <3>4. clock.due <= t BY <2>1, <3>3 DEF StoreInv, ClockInv
    <3> QED BY <2>1, <2>3, <3>1, <3>4
  <2> HIDE DEF d, a
  <2>5. StatusesAt(d, a) = StatusesAt(d, now) BY <2>2, <2>3, <2>4, StatusesStable
  <2> QED BY <2>2, <2>5 DEF Current, StatusesAt, d
<1> QED BY StoreInvHolds, <1>1, PTL

\* Time only goes forward.
LEMMA NowGrows == ASSUME StoreInv, [Next]_vars PROVE now' \in Nat /\ now <= now'
<1>1. now \in Nat BY TimeFacts
<1>2. CASE Tick BY <1>1, <1>2 DEF Tick
<1>3. CASE \E c \in Changes : SyncCommit(c) \/ mutate(c) BY <1>1, <1>3 DEF SyncCommit, mutate
<1>4. CASE reload \/ Read("vehicles", "veh", "reservations") \/ Read("reservations", "ren", "build")
  BY <1>1, <1>4 DEF reload, Read
<1>5. CASE Build \/ Publish \/ Rearm \/ _fire BY <1>1, <1>5 DEF Build, Publish, Rearm, _fire
<1>6. CASE update_server_dashboard \/ ReplaceSnapshot \/ UNCHANGED vars
  BY <1>1, <1>6 DEF update_server_dashboard, ReplaceSnapshot, vars
<1> QED BY <1>2, <1>3, <1>4, <1>5, <1>6 DEF Next

\* The closed periods of an interrupted rental are immutable: once it is
\* interrupted, neither the reference's days nor the desktop's money depend on
\* the instant they are asked for (revenue_reference.py, dashboard_cache.py).
THEOREM InterruptedRevenueFrozenHolds == Spec => InterruptedRevenueFrozen
<1>1. ASSUME StoreInv, [Next]_vars,
             NEW k \in DOMAIN disk.ren \cap DOMAIN disk'.ren,
             disk'.ren[k] = disk.ren[k], Interrupted(disk.ren[k]),
             disk.ren[k].cancelledAt # Null, disk.ren[k].cancelledAt <= now
      PROVE  /\ Realised(disk.ren[k], now') = Realised(disk.ren[k], now)
             /\ _reservation_revenue(disk.ren[k], AllTime, now')
                  = _reservation_revenue(disk.ren[k], AllTime, now)
  <2> DEFINE r == disk.ren[k]
  <2>1. now \in Nat /\ now' \in Nat /\ now <= now' BY <1>1, NowGrows, TimeFacts
  <2>2. r.cancelledAt \in Int BY <1>1, TablesFacts DEF StoreInv
  <2>3. /\ Least(now, InterruptedAt(r)) = r.cancelledAt
        /\ Least(now', InterruptedAt(r)) = r.cancelledAt
    BY <1>1, <2>1, <2>2 DEF Least, InterruptedAt
  <2> HIDE DEF r
  <2>4. Interrupted(r) BY <1>1 DEF r
  <2>5. Realised(r, now') = Realised(r, now) BY <2>3, <2>4 DEF Realised
  <2>6. LocalDaysInside(r, AllTime, now') = LocalDaysInside(r, AllTime, now)
    <3>1. CASE LocallyInterrupted(r) BY <2>3, <3>1 DEF LocalDaysInside, _realised_for_row
    <3>2. CASE ~ LocallyInterrupted(r)
      BY <2>4, <3>2 DEF LocalDaysInside, _is_revenue_eligible, Interrupted
    <3> QED BY <3>1, <3>2
  <2> QED BY <2>5, <2>6 DEF _reservation_revenue, r
<1>2. StoreInv /\ [Next]_vars =>
        [\A k \in DOMAIN disk.ren \cap DOMAIN disk'.ren :
           LET r == disk.ren[k] IN
           disk'.ren[k] = r /\ Interrupted(r) /\ r.cancelledAt # Null /\ r.cancelledAt <= now
             => /\ Realised(r, now') = Realised(r, now)
                /\ _reservation_revenue(r, AllTime, now') = _reservation_revenue(r, AllTime, now)]_vars
  BY <1>1
<1> QED BY <1>2, StoreInvHolds, PTL DEF Spec, InterruptedRevenueFrozen

\* Each period gets its days of a rental and no day is lost or counted twice:
\* the money of adjoining windows adds up for any number of rentals, and a rental
\* over and done has earned its price (revenue_reference.py).
THEOREM RevenueSplitsHolds == Spec => []RevenueSplits
<1>1. StoreInv => RevenueSplits
  <2> SUFFICES ASSUME StoreInv PROVE RevenueSplits OBVIOUS
  <2> DEFINE last == business_date(Horizon) + 2
  <2>1. AreTables(disk) /\ now \in Int BY TimeFacts DEF StoreInv
  <2>2. last \in Int
    <3>1. DayLen \in Nat \ {0} /\ Horizon \in Int BY CalendarUnits, TimeIsBounded
    <3> QED BY <3>1, DivFacts DEF business_date
  <2>3. ASSUME NEW from \in 0 .. last, NEW mid \in from .. last
        PROVE  revenue_between(disk.ren, [from |-> from, to |-> last], now)
                 = revenue_between(disk.ren, [from |-> from, to |-> mid], now)
                   + revenue_between(disk.ren, [from |-> mid, to |-> last], now)
    BY <2>1, <2>2, RevenueAdds
  <2>4. ASSUME NEW k \in DOMAIN disk.ren,
               disk.ren[k].status = "COMPLETED"
                 \/ (disk.ren[k].status # "CANCELLED" /\ disk.ren[k].end <= now)
        PROVE  reservation_period_revenue(disk.ren[k], AllTime, now) = disk.ren[k].price
    <3> DEFINE r == disk.ren[k]
    <3>1. Fits("ren", r) BY <2>1, TablesFacts
    <3>2. Realised(r, now) = r.days BY <2>1, <2>4, <3>1, RealisedFacts
    <3>3. /\ business_date(r.start) \in Nat /\ r.days \in Nat
          /\ business_date(r.start) + r.days <= FarFuture
          /\ (r.price \div r.days) * r.days = r.price
      BY <3>1, RentalFacts
    <3> HIDE DEF r
    <3>4. DaysInside(business_date(r.start), r.days, AllTime) = r.days
      BY <3>3, FarFutureIsInstant DEF DaysInside, Greatest, Least, AllTime
    <3>5. reservation_period_revenue(r, AllTime, now) = (r.price \div r.days) * r.days
      BY <3>2, <3>4 DEF reservation_period_revenue, RealisedInside
    <3> QED BY <3>3, <3>5 DEF r
  <2> QED BY <2>3, <2>4 DEF RevenueSplits
<1> QED BY StoreInvHolds, <1>1, PTL

\* Whatever the server sends and whenever the timer fires, no snapshot the window
\* may draw has a negative figure (DomainStore._validate_snapshot).
THEOREM ValidInvHolds == Spec => []ValidInv
<1>1. Init => ValidInv BY DEF Init, ValidInv
<1>2. StoreInv /\ ValidInv /\ [Next]_vars => ValidInv' BY StepKeepsValid
<1> QED BY <1>1, <1>2, StoreInvHolds, PTL DEF Spec

\* From the same rows the offline dashboard shows the figures of the server: cards,
\* the ranking of the vehicles and the files of the clients, as long as no rental
\* was interrupted for the reason the desktop's port does not know
\* (dashboard_cache.py, client_details.py).
THEOREM OfflineFiguresHold == Spec => []OfflineFiguresAgree
<1>1. StoreInv => OfflineFiguresAgree
  <2> SUFFICES ASSUME StoreInv, Urgent(Visible(disk).ren) = {}
               PROVE  /\ CardsAgree(Visible(disk)) /\ RankingsAgree(Visible(disk))
                      /\ FilesAgree(Visible(disk))
    BY DEF OfflineFiguresAgree
  <2>1. AreTables(Visible(disk)) BY VisibleFacts DEF StoreInv
  <2>2. now \in Int BY TimeFacts
  <2> QED BY <2>1, <2>2, SameCards, SameRankings, SameFiles
<1> QED BY StoreInvHolds, <1>1, PTL

\* The SQL filter of the period and range endpoints loses nothing: they report
\* what the snapshot reports for the same window (revenue_service.py), and a
\* client's file never contradicts the badge of a vehicle (client_service.py).
THEOREM EndpointsAgreeHolds == Spec => []EndpointsAgree
<1>1. StoreInv => EndpointsAgree
  <2> SUFFICES ASSUME StoreInv PROVE PeriodsAgree(Visible(disk)) /\ FilesMatchBadges(Visible(disk))
    BY DEF EndpointsAgree
  <2>1. AreTables(Visible(disk)) /\ NoOrphans(Visible(disk)) BY VisibleFacts DEF StoreInv
  <2>2. now \in Int BY TimeFacts
  <2> QED BY <2>1, <2>2, SamePeriods, FilesAndBadges
<1> QED BY StoreInvHolds, <1>1, PTL

\* What the store has just published passes the dashboard's own integrity check at
\* every instant until the clock is armed: the buckets add up to the fleet, nothing
\* is negative, the ranking descends (dashboard_reference.py), and a ticket is under
\* way only for vehicles that are shown in maintenance or were sold.
THEOREM SnapshotReconcilesHolds == Spec => []SnapshotReconciles
<1>1. StoreInv /\ ValidInv => SnapshotReconciles
  <2> SUFFICES ASSUME StoreInv, ValidInv, snapshot # Null, ui = "rearm"
               PROVE  LET d == snapshot.tables
                          dto == build_local_snapshot(snapshot, "month", 0, 0)
                      IN /\ validate(dto) /\ _validate_snapshot(snapshot)
                         /\ dto.maintenance.vehicles_in_maintenance - dto.vehicles.maintenance
                              = Cardinality({v \in structural(d.veh) :
                                  \E m \in DOMAIN d.tic : d.tic[m].veh = v /\ Occupies(d.tic[m], now)})
    BY DEF SnapshotReconciles
  <2> DEFINE d == snapshot.tables
             p == resolve_period("month", now, 0, 0)
             dto == build_snapshot(d.veh, d.ren, d.tic, p, now, TOP_VEHICLES_LIMIT)
  <2>1. build_local_snapshot(snapshot, "month", 0, 0) = dto
    BY DEF build_local_snapshot, rows_from_domain_snapshot
  <2>2. AreTables(d) /\ NoOrphans(d) BY DEF StoreInv, SnapshotsInv, IsSnapshot
  <2>3. now \in Int BY TimeFacts
  <2>4. p.from \in Int /\ p.to \in Int
    BY <2>3, PeriodFacts DEF resolve_period, PERIOD_NAMES, StandingPeriods
  <2> HIDE DEF d, p
  <2>5. validate(dto) BY <2>2, <2>3, <2>4, SnapshotPasses
  <2>6. dto.maintenance.vehicles_in_maintenance - dto.vehicles.maintenance
          = Cardinality({v \in structural(d.veh) :
              \E m \in DOMAIN d.tic : d.tic[m].veh = v /\ Occupies(d.tic[m], now)})
    BY <2>2, <2>3, TicketsReconcile
  <2>7. _validate_snapshot(snapshot) BY DEF ValidInv
  <2> HIDE DEF dto
  <2> QED BY <2>1, <2>5, <2>6, <2>7 DEF d
<1> QED BY StoreInvHolds, ValidInvHolds, <1>1, PTL
=============================================================================
