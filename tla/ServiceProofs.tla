--------------------------- MODULE ServiceProofs ---------------------------
(***************************************************************************)
(* The reads of the service: whatever scene a behaviour of Service is, and *)
(* whatever its constants, the clients that page through a listing by its  *)
(* links or by offset see what they should, and an inbound message is      *)
(* taken by the routes it should be.                                       *)
(***************************************************************************)
EXTENDS ComponentProofs, PagingProofs

USE PagingAssumption DEF PagingAssumption

\* A scene stays the scene it is, and its walk is of one kind.
ServiceInv == IF scene = "offsets" THEN OffsetInv ELSE PagingInv

LEMMA ServiceStart == Init => ServiceInv
<1> SUFFICES ASSUME Init PROVE ServiceInv
  OBVIOUS
<1>1. OffsetInit
  BY DEF Init
<1>2. PagingInit
  BY <1>1 DEF OffsetInit
<1>3. QED
  BY <1>1, <1>2, OffsetStart, PagingStart DEF ServiceInv

LEMMA ServiceStep == ServiceInv /\ [Next]_vars => ServiceInv'
<1> SUFFICES ASSUME ServiceInv, [Next]_vars PROVE ServiceInv'
  OBVIOUS
<1>1. scene' = scene
  BY DEF Next, vars
<1>2. CASE UNCHANGED <<pagingVars, offsetVars>>
  BY <1>1, <1>2, OffsetStep, PagingStep DEF ServiceInv
<1>3. CASE scene = "paging" /\ PagingNext
  BY <1>1, <1>3, PagingStep DEF ServiceInv
<1>4. CASE scene = "offsets" /\ OffsetNext
  BY <1>1, <1>4, OffsetStep DEF ServiceInv
<1>5. QED
  BY <1>2, <1>3, <1>4 DEF Next, vars

LEMMA ServiceInvImplies == ServiceInv => WalkSeesAll /\ OffsetWalkSeesAll
<1> SUFFICES ASSUME ServiceInv PROVE WalkSeesAll /\ OffsetWalkSeesAll
  OBVIOUS
<1>1. CASE scene = "offsets"
  <2>1. walk \in OffsetWalks \cup {"off"}
    BY <1>1 DEF ServiceInv, OffsetInv, OffsetTypes
  <2>2. WalkSeesAll
    BY <2>1 DEF WalkSeesAll, OffsetWalks
  <2>3. QED
    BY <1>1, <2>2, OffsetInvImplies DEF ServiceInv
<1>2. CASE scene # "offsets"
  <2>1. walk \in Walks \cup {"off"}
    BY <1>2 DEF ServiceInv, PagingInv, PagingTypeOK
  <2>2. OffsetWalkSeesAll
    BY <2>1 DEF OffsetWalkSeesAll, OffsetWalks, AllWalks
  <2>3. QED
    BY <1>2, <2>2, PagingInvImplies DEF ServiceInv
<1>3. QED
  BY <1>1, <1>2

\* In every behaviour of the service, a walk along the `next' links repeats no row and
\* misses none that stays, and a walk by offset repeats or misses one only for the
\* reasons OffsetWalkSeesAll names (internal/pagination, ListEvents, ListMessages).
THEOREM ServiceWalksAreComplete == Spec => [](WalkSeesAll /\ OffsetWalkSeesAll)
<1>1. QED
  BY ServiceStart, ServiceStep, ServiceInvImplies, PTL DEF Spec

----------------------------------------------------------------------------
(* Induction over the numbers, as a fact about sets.                       *)

\* What holds of 0 and passes on holds of every number.
LEMMA SetInduction ==
  ASSUME NEW S, 0 \in S, \A n \in Nat : n \in S => n + 1 \in S
  PROVE  Nat \subseteq S
<1> DEFINE T == Nat \ S
           R == OpToRel(<, Nat)
<1>1. SUFFICES ASSUME T # {} PROVE FALSE
  OBVIOUS
<1>2. IsWellFoundedOn(R, Nat)
  BY NatLessThanWellFounded
<1>3. \A x, y \in Nat : <<x, y>> \in R <=> x < y
  BY DEF OpToRel
<1> HIDE DEF T, R
<1>4. T \subseteq Nat
  BY DEF T
<1>5. PICK x \in T : \A y \in T : <<y, x>> \notin R
  BY <1>1, <1>2, <1>4, WFMin
<1>6. x \in Nat /\ x \notin S
  BY DEF T
<1>7. x # 0 /\ x - 1 \in Nat
  BY <1>6
<1>8. <<x - 1, x>> \in R
  BY <1>3, <1>6, <1>7
<1>9. x - 1 \in S
  BY <1>5, <1>7, <1>8 DEF T
<1>10. (x - 1) + 1 \in S
  BY <1>7, <1>9
<1>11. QED
  BY <1>6, <1>10

----------------------------------------------------------------------------
(* ORDER BY: routes that were created at different moments have one order. *)

Dated(R) == /\ IsFiniteSet(R)
            /\ \A x \in R : x.priority \in Int /\ x.at \in Nat /\ x.stop \in BOOLEAN
            /\ \A x, y \in R : x.at = y.at => x = y
InOrder(s) == \A i, j \in DOMAIN s : i < j => ComesFirst(s[i], s[j])

LEMMA OneComesFirst ==
  ASSUME NEW R, Dated(R)
  PROVE  /\ \A x \in R : ~ComesFirst(x, x)
         /\ \A x, y \in R : x # y => ComesFirst(x, y) \/ ComesFirst(y, x)
         /\ \A x, y, z \in R : ComesFirst(x, y) /\ ComesFirst(y, z) => ComesFirst(x, z)
BY DEF Dated, ComesFirst

\* As many come before a route as come before those before it, and one more.
Sooner(R, x) == {y \in R : ComesFirst(y, x)}

LEMMA SoonerGrows ==
  ASSUME NEW R, Dated(R), NEW x \in R, NEW y \in R, ComesFirst(x, y)
  PROVE  Cardinality(Sooner(R, x)) < Cardinality(Sooner(R, y))
<1> DEFINE S == Sooner(R, x)
           T == Sooner(R, y)
<1>1. x \notin S /\ S \cup {x} \subseteq T /\ S \subseteq R /\ T \subseteq R
  BY OneComesFirst DEF Sooner
<1> HIDE DEF S, T
<1>2. IsFiniteSet(S) /\ IsFiniteSet(T)
  BY <1>1, FS_Subset DEF Dated
<1>3. Cardinality(S \cup {x}) = Cardinality(S) + 1
  BY <1>1, <1>2, FS_AddElement
<1>4. Cardinality(S \cup {x}) <= Cardinality(T)
  BY <1>1, <1>2, FS_Subset
<1>5. Cardinality(S) \in Nat /\ Cardinality(T) \in Nat
  BY <1>2, FS_CardinalityType
<1>6. QED
  BY <1>3, <1>4, <1>5 DEF S, T

LEMMA Places ==
  ASSUME NEW R, Dated(R)
  PROVE  /\ Cardinality(R) \in Nat
         /\ \A x \in R : Cardinality(Sooner(R, x)) + 1 \in 1..Cardinality(R)
         /\ \A k \in 1..Cardinality(R) : \E x \in R : Cardinality(Sooner(R, x)) + 1 = k
<1> DEFINE n == Cardinality(R)
           place == [x \in R |-> Cardinality(Sooner(R, x)) + 1]
<1>1. IsFiniteSet(R) /\ n \in Nat
  BY FS_CardinalityType DEF Dated
<1>2. ASSUME NEW x \in R PROVE Cardinality(Sooner(R, x)) + 1 \in 1..n
  <2>1. Sooner(R, x) \subseteq R \ {x}
    BY OneComesFirst DEF Sooner
  <2>2. IsFiniteSet(R \ {x}) /\ Cardinality(R \ {x}) = n - 1
    BY <1>1, FS_RemoveElement
  <2>3. IsFiniteSet(Sooner(R, x)) /\ Cardinality(Sooner(R, x)) <= n - 1
    BY <2>1, <2>2, FS_Subset
  <2>4. Cardinality(Sooner(R, x)) \in Nat
    BY <2>3, FS_CardinalityType
  <2>5. QED
    BY <1>1, <2>3, <2>4
<1>3. place \in [R -> 1..n]
  BY <1>2
<1>4. ASSUME NEW x \in R, NEW y \in R, x # y PROVE place[x] # place[y]
  <2>1. place[x] \in Int /\ place[y] \in Int
    BY <1>3
  <2>2. Cardinality(Sooner(R, x)) \in Nat /\ Cardinality(Sooner(R, y)) \in Nat
    BY <1>1, FS_Subset, FS_CardinalityType DEF Sooner
  <2>3. CASE ComesFirst(x, y)
    BY <2>2, <2>3, SoonerGrows
  <2>4. CASE ComesFirst(y, x)
    BY <2>2, <2>4, SoonerGrows
  <2>5. QED
    BY <1>4, <2>3, <2>4, OneComesFirst
<1> HIDE DEF place
<1>5. place \in Injection(R, 1..n)
  BY <1>3, <1>4 DEF Injection, IsInjective
<1>6. IsFiniteSet(1..n) /\ Cardinality(1..n) = n
  BY <1>1, FS_Interval
<1>7. place \in Surjection(R, 1..n)
  BY <1>5, <1>6, FS_Injection
<1>8. \A k \in 1..n : \E x \in R : place[x] = k
  BY <1>7 DEF Surjection
<1>9. QED
  BY <1>1, <1>2, <1>8 DEF place

LEMMA OrderThere ==
  ASSUME NEW R, Dated(R)
  PROVE  \E s \in SetToSeqs(R) : InOrder(s)
<1> DEFINE n == Cardinality(R)
           place(x) == Cardinality(Sooner(R, x)) + 1
           s == [k \in 1..n |-> CHOOSE x \in R : place(x) = k]
<1>1. n \in Nat /\ (\A x \in R : place(x) \in 1..n) /\ \A k \in 1..n : \E x \in R : place(x) = k
  BY Places
<1>2. ASSUME NEW k \in 1..n PROVE s[k] \in R /\ place(s[k]) = k
  BY <1>1
<1>3. s \in [1..n -> R]
  BY <1>2
<1>4. \A i, j \in 1..n : i # j => s[i] # s[j]
  BY <1>2
<1>5. s \in SetToSeqs(R)
  BY <1>3, <1>4 DEF SetToSeqs
<1>6. ASSUME NEW i \in DOMAIN s, NEW j \in DOMAIN s, i < j PROVE ComesFirst(s[i], s[j])
  <2>1. i \in 1..n /\ j \in 1..n /\ s[i] \in R /\ s[j] \in R /\ place(s[i]) = i /\ place(s[j]) = j
    BY <1>2
  <2> HIDE DEF s
  <2>2. s[i] # s[j]
    BY <1>6, <2>1
  <2>3. ~ComesFirst(s[j], s[i])
    <3>1. SUFFICES ASSUME ComesFirst(s[j], s[i]) PROVE FALSE
      OBVIOUS
    <3>2. Cardinality(Sooner(R, s[j])) < Cardinality(Sooner(R, s[i]))
      BY <2>1, <3>1, SoonerGrows
    <3>3. Cardinality(Sooner(R, s[j])) = j - 1 /\ Cardinality(Sooner(R, s[i])) = i - 1
      <4>1. Cardinality(Sooner(R, s[j])) \in Nat /\ Cardinality(Sooner(R, s[i])) \in Nat
        BY FS_Subset, FS_CardinalityType DEF Sooner, Dated
      <4>2. QED
        BY <2>1, <4>1
    <3>4. QED
      BY <1>1, <1>6, <2>1, <3>2, <3>3
  <2>4. QED
    BY <2>1, <2>2, <2>3, OneComesFirst
<1> HIDE DEF s
<1>7. QED
  BY <1>5, <1>6 DEF InOrder

\* The R of the query: each once, in order.
LEMMA OrderedIs ==
  ASSUME NEW R, Dated(R)
  PROVE  LET s == Ordered(R) IN
         /\ Len(s) \in Nat /\ DOMAIN s = 1..Len(s) /\ s \in Seq(R) /\ InOrder(s)
         /\ \A x \in R : \E i \in DOMAIN s : s[i] = x
<1> DEFINE s == Ordered(R)
           n == Cardinality(R)
<1>1. s \in SetToSeqs(R) /\ InOrder(s)
  BY OrderThere DEF Ordered, InOrder
<1> HIDE DEF s
<1>2. s \in [1..n -> R] /\ \A i, j \in 1..n : i # j => s[i] # s[j]
  BY <1>1 DEF SetToSeqs
<1>3. n \in Nat /\ IsFiniteSet(R)
  BY FS_CardinalityType DEF Dated
<1>4. s \in Seq(R) /\ Len(s) = n /\ DOMAIN s = 1..n
  BY <1>2, <1>3
<1>5. IsFiniteSet(1..n) /\ Cardinality(1..n) = n
  BY <1>3, FS_Interval
<1>6. s \in Injection(1..n, R)
  BY <1>2 DEF Injection, IsInjective
<1>7. s \in Surjection(1..n, R)
  BY <1>3, <1>5, <1>6, FS_Injection
<1>8. \A x \in R : \E i \in 1..n : s[i] = x
  BY <1>7 DEF Surjection
<1>9. QED
  BY <1>1, <1>3, <1>4, <1>8 DEF s

----------------------------------------------------------------------------
(* The loop over the routes, one after the other.                          *)

Start == [matched |-> << >>, stopped |-> FALSE]
Loop(address, s) ==
  LET Step(acc, x) == TryRoute(address, acc, x) IN FoldLeft(Step, Start, s)

\* What the fold is defined by, for the indices up to k.
Tries(address, s, k, f) ==
  f = [t \in SUBSET (1..k) |-> IF t = {} THEN Start
                               ELSE TryRoute(address, f[t \ {Max(t)}], s[Max(t)])]

LEMMA LoopIs ==
  ASSUME NEW address, NEW n, NEW s, DOMAIN s = 1..n
  PROVE  Loop(address, s) = (CHOOSE f : Tries(address, s, n, f))[1..n]
BY DEF FoldLeft, MapThenFoldSet, Loop, Tries

LEMMA TryOneMore ==
  ASSUME NEW address, NEW s, NEW k \in Nat, NEW f, Tries(address, s, k, f)
  PROVE  \E g : Tries(address, s, k + 1, g)
<1> DEFINE g == [t \in SUBSET (1..(k + 1)) |-> IF k + 1 \in t THEN TryRoute(address, f[t \ {k + 1}], s[k + 1])
                                                              ELSE f[t]]
<1>1. ASSUME NEW t \in SUBSET (1..(k + 1)), k + 1 \in t
      PROVE  g[t] = TryRoute(address, g[t \ {Max(t)}], s[Max(t)])
  <2>1. Max(t) = k + 1
    <3>1. \A y \in t : y \in Int /\ k + 1 >= y
      OBVIOUS
    <3>2. \A x \in t : (\A y \in t : x >= y) => x = k + 1
      BY <1>1, <3>1
    <3>3. \E x \in t : \A y \in t : x >= y
      BY <1>1, <3>1
    <3> DEFINE M == CHOOSE x \in t : \A y \in t : x >= y
    <3>4. M \in t /\ \A y \in t : M >= y
      BY <3>3
    <3>5. Max(t) = M
      BY DEF Max
    <3> HIDE DEF M
    <3>6. QED
      BY <3>2, <3>4, <3>5
  <2>2. t \ {k + 1} \in SUBSET (1..(k + 1)) /\ k + 1 \notin t \ {k + 1}
    OBVIOUS
  <2>3. g[t \ {k + 1}] = f[t \ {k + 1}]
    BY <2>2
  <2>4. g[t] = TryRoute(address, f[t \ {k + 1}], s[k + 1])
    BY <1>1
  <2> HIDE DEF g
  <2>5. QED
    BY <2>1, <2>3, <2>4
<1>2. ASSUME NEW t \in SUBSET (1..(k + 1)), k + 1 \notin t, t # {}
      PROVE  g[t] = TryRoute(address, g[t \ {Max(t)}], s[Max(t)])
  <2>1. t \in SUBSET (1..k) /\ t \ {Max(t)} \in SUBSET (1..k) /\ k + 1 \notin t \ {Max(t)}
    <3>1. \A x \in t : x \in 1..k
      <4>1. \A x \in t : x \in 1..(k + 1) /\ x # k + 1
        BY <1>2
      <4>2. QED
        BY <4>1
    <3>2. QED
      BY <1>2, <3>1
  <2>2. f[t] = TryRoute(address, f[t \ {Max(t)}], s[Max(t)])
    BY <1>2, <2>1 DEF Tries
  <2>3. t \ {Max(t)} \in SUBSET (1..(k + 1))
    BY <1>2
  <2>4. g[t] = f[t] /\ g[t \ {Max(t)}] = f[t \ {Max(t)}]
    BY <1>2, <2>1, <2>3
  <2> HIDE DEF g
  <2>5. QED
    BY <2>2, <2>4
<1>3. g[{}] = Start
  <2>1. {} \in SUBSET (1..k) /\ {} \in SUBSET (1..(k + 1))
    OBVIOUS
  <2>2. f[{}] = Start
    BY <2>1 DEF Tries
  <2>3. QED
    BY <2>1, <2>2
<1>4. DOMAIN g = SUBSET (1..(k + 1)) /\ g = [t \in SUBSET (1..(k + 1)) |-> g[t]]
  OBVIOUS
<1> HIDE DEF g
<1>5. Tries(address, s, k + 1, g)
  BY <1>1, <1>2, <1>3, <1>4 DEF Tries
<1>6. QED
  BY <1>5

LEMMA TriesThere ==
  ASSUME NEW address, NEW s
  PROVE  \A n \in Nat : \E f : Tries(address, s, n, f)
<1> DEFINE S == {n \in Nat : \E f : Tries(address, s, n, f)}
<1>1. 0 \in S
  <2> DEFINE f == [t \in SUBSET (1..0) |-> Start]
  <2>1. SUBSET (1..0) = {{}}
    OBVIOUS
  <2>2. f = [t \in SUBSET (1..0) |-> IF t = {} THEN Start ELSE TryRoute(address, f[t \ {Max(t)}], s[Max(t)])]
    BY <2>1
  <2>3. Tries(address, s, 0, f)
    BY <2>2 DEF Tries
  <2>4. QED
    BY <2>3
<1>2. ASSUME NEW n \in Nat, n \in S PROVE n + 1 \in S
  BY <1>2, TryOneMore
<1> HIDE DEF S
<1>3. Nat \subseteq S
  BY <1>1, <1>2, SetInduction
<1>4. QED
  BY <1>3 DEF S

\* The loop's variables, after each of the routes.
Runs(address, s, n, a) == /\ a[0] = Start /\ a[n] = Loop(address, s)
                          /\ \A i \in 1..n : a[i] = TryRoute(address, a[i - 1], s[i])

LEMMA LoopRuns ==
  ASSUME NEW address, NEW n \in Nat, NEW s, DOMAIN s = 1..n
  PROVE  \E a : Runs(address, s, n, a)
<1> DEFINE f == CHOOSE f : Tries(address, s, n, f)
           a == [i \in 0..n |-> f[1..i]]
<1>1. Tries(address, s, n, f)
  BY TriesThere
<1>2. Loop(address, s) = f[1..n]
  BY LoopIs
<1> HIDE DEF f
<1>3. a[0] = Start
  <2>1. 1..0 = {} /\ {} \in SUBSET (1..n)
    OBVIOUS
  <2>2. f[{}] = Start
    BY <1>1, <2>1 DEF Tries
  <2>3. QED
    BY <2>1, <2>2
<1>4. ASSUME NEW i \in 1..n PROVE a[i] = TryRoute(address, a[i - 1], s[i])
  <2>1. 1..i \in SUBSET (1..n) /\ 1..i # {}
    OBVIOUS
  <2>2. Max(1..i) = i
    BY DEF Max
  <2>3. (1..i) \ {i} = 1..(i - 1)
    OBVIOUS
  <2>4. f[1..i] = TryRoute(address, f[(1..i) \ {Max(1..i)}], s[Max(1..i)])
    BY <1>1, <2>1 DEF Tries
  <2>5. a[i] = f[1..i] /\ a[i - 1] = f[1..(i - 1)]
    OBVIOUS
  <2> HIDE DEF a
  <2>6. QED
    BY <2>2, <2>3, <2>4, <2>5
<1>5. a[n] = f[1..n]
  OBVIOUS
<1> HIDE DEF a
<1>6. QED
  BY <1>2, <1>3, <1>4, <1>5 DEF Runs

----------------------------------------------------------------------------
(* What the loop has taken of the first i routes.                          *)

Takes(address, x) == evaluateExpression(x.expression, address)
CatchAll(x)       == x.expression = <<catch_all>>

\* The first that matches is the first it took, and there is one once any matches.
TookFirst(address, s, i, m) ==
  /\ m = << >> => \A j \in 1..i : ~Takes(address, s[j])
  /\ m # << >> => \E j \in 1..i : /\ m[1] = s[j] /\ Takes(address, s[j])
                                  /\ \A k \in 1..(j - 1) : ~Takes(address, s[k])
TookNoMore(m) == \A k \in DOMAIN m : /\ k > 1 => ~CatchAll(m[k])
                                     /\ m[k].stop => k = Len(m)
\* Whatever matches and was not taken comes after the one with the stop().
TookAll(address, s, i, acc) ==
  \A j \in 1..i : Takes(address, s[j]) /\ ~CatchAll(s[j]) =>
    \/ \E k \in DOMAIN acc.matched : acc.matched[k] = s[j]
    \/ acc.stopped /\ \E k \in 1..(j - 1) : acc.matched[Len(acc.matched)] = s[k]
Took(address, R, s, i, acc) ==
  /\ acc.matched \in Seq(R)
  /\ acc.stopped \in BOOLEAN
  /\ \A k \in DOMAIN acc.matched : \E j \in 1..i : acc.matched[k] = s[j]
  /\ acc.stopped <=> acc.matched # << >> /\ acc.matched[Len(acc.matched)].stop
  /\ TookFirst(address, s, i, acc.matched)
  /\ TookNoMore(acc.matched)
  /\ TookAll(address, s, i, acc)

LEMMA CatchAllTakes ==
  ASSUME NEW address, NEW x, CatchAll(x)
  PROVE  Takes(address, x)
<1>1. catch_all.function = "catch_all"
  BY DEF catch_all, Condition
<1>2. DOMAIN <<catch_all>> = {1} /\ <<catch_all>>[1] = catch_all
  OBVIOUS
<1>3. evaluateSingleExpression(catch_all, address)
  BY <1>1 DEF evaluateSingleExpression
<1>4. QED
  BY <1>2, <1>3 DEF CatchAll, Takes, evaluateExpression

LEMMA TookStart ==
  ASSUME NEW address, NEW R, NEW s
  PROVE  Took(address, R, s, 0, Start)
<1>1. Start.matched = << >> /\ Start.stopped = FALSE /\ << >> \in Seq(R) /\ DOMAIN << >> = {}
  BY DEF Start
<1> DEFINE acc == Start
<1> HIDE DEF acc
<1>2. 1..0 = {}
  OBVIOUS
<1>3. QED
  BY <1>1, <1>2 DEF Took, TookFirst, TookNoMore, TookAll, acc

\* A route that is passed over.
LEMMA TookNothing ==
  ASSUME NEW address, NEW R, NEW i \in Nat \ {0}, NEW s, \A j \in 1..i : s[j] \in R, NEW acc,
         Took(address, R, s, i - 1, acc),
         acc.stopped \/ ~Matches(address, s[i], acc.matched = << >>)
  PROVE  Took(address, R, s, i, acc)
<1> DEFINE m == acc.matched
<1>1. ~acc.stopped => ~Takes(address, s[i]) \/ (CatchAll(s[i]) /\ m # << >>)
  BY DEF Matches, isCatchAllExpression, CatchAll, Takes
<1>2. CASE m = << >>
  <2>1. ~acc.stopped
    BY <1>2 DEF Took
  <2>2. ~Takes(address, s[i])
    BY <1>1, <1>2, <2>1
  <2>3. \A j \in 1..i : j = i \/ j \in 1..(i - 1)
    OBVIOUS
  <2>4. DOMAIN m = {}
    BY <1>2
  <2>5. TookFirst(address, s, i, m)
    BY <1>2, <2>2, <2>3 DEF Took, TookFirst
  <2>6. TookAll(address, s, i, acc)
    BY <1>2, <2>2, <2>3, <2>1, <2>4 DEF Took, TookAll
  <2>7. QED
    BY <2>4, <2>5, <2>6 DEF Took
<1>3. CASE m # << >>
  <2>1. TookFirst(address, s, i, m)
    <3>1. PICK j \in 1..(i - 1) : /\ m[1] = s[j] /\ Takes(address, s[j])
                                  /\ \A k \in 1..(j - 1) : ~Takes(address, s[k])
      BY <1>3 DEF Took, TookFirst
    <3>2. j \in 1..i
      OBVIOUS
    <3>3. QED
      BY <1>3, <3>1, <3>2 DEF TookFirst
  <2>2. TookAll(address, s, i, acc)
    <3>1. SUFFICES ASSUME NEW j \in 1..i, Takes(address, s[j]), ~CatchAll(s[j])
                   PROVE  \/ \E k \in DOMAIN m : m[k] = s[j]
                          \/ acc.stopped /\ \E k \in 1..(j - 1) : m[Len(m)] = s[k]
      BY DEF TookAll
    <3>2. CASE j # i
      <4>1. j \in 1..(i - 1)
        BY <3>2
      <4>2. QED
        BY <3>1, <4>1 DEF Took, TookAll
    <3>3. CASE j = i
      <4>1. acc.stopped
        BY <1>1, <3>1, <3>3
      <4>2. m \in Seq(R)
        BY DEF Took
      <4>3. Len(m) \in DOMAIN m
        BY <1>3, <4>2
      <4>4. \E k \in 1..(i - 1) : m[Len(m)] = s[k]
        BY <4>3 DEF Took
      <4>5. QED
        BY <3>3, <4>1, <4>4
    <3>4. QED
      BY <3>2, <3>3
  <2>3. \A k \in DOMAIN m : \E j \in 1..i : m[k] = s[j]
    <3>1. 1..(i - 1) \subseteq 1..i
      OBVIOUS
    <3>2. QED
      BY <3>1 DEF Took
  <2>4. QED
    BY <2>1, <2>2, <2>3 DEF Took
<1>4. QED
  BY <1>2, <1>3

\* A route that is taken.
LEMMA TookOne ==
  ASSUME NEW address, NEW R, NEW i \in Nat \ {0}, NEW s, \A j \in 1..i : s[j] \in R, s[i].stop \in BOOLEAN,
         NEW acc, Took(address, R, s, i - 1, acc),
         ~acc.stopped, Matches(address, s[i], acc.matched = << >>)
  PROVE  Took(address, R, s, i, [matched |-> Append(acc.matched, s[i]), stopped |-> s[i].stop])
<1> DEFINE m == acc.matched
           x == s[i]
           w == Append(m, x)
           b == [matched |-> w, stopped |-> x.stop]
<1>1. m \in Seq(R) /\ x \in R
  BY DEF Took
<1> DEFINE l == Len(m)
<1>2. l \in Nat /\ DOMAIN m = 1..l /\ (m = << >> <=> l = 0)
  BY <1>1
<1>3. /\ w \in Seq(R) /\ Len(w) = l + 1 /\ DOMAIN w = 1..(l + 1) /\ w # << >>
      /\ w[l + 1] = x /\ \A k \in 1..l : w[k] = m[k]
  BY <1>1
<1>4. b.matched = w /\ b.stopped = x.stop
  OBVIOUS
<1>5. \A j \in 1..i : j = i \/ j \in 1..(i - 1)
  OBVIOUS
<1>6. 1..(i - 1) \subseteq 1..i /\ i \in 1..i
  OBVIOUS
<1>7. IF CatchAll(x) THEN m = << >> ELSE Takes(address, x)
  BY DEF Matches, isCatchAllExpression, CatchAll, Takes
<1>8. Takes(address, x)
  BY <1>7, CatchAllTakes
<1> HIDE DEF m, x, w, b, l
<1>9. \A k \in DOMAIN w : \E j \in 1..i : w[k] = s[j]
  <2>1. SUFFICES ASSUME NEW k \in 1..(l + 1) PROVE \E j \in 1..i : w[k] = s[j]
    BY <1>3
  <2>2. CASE k = l + 1
    BY <1>3, <1>6, <2>2 DEF x
  <2>3. CASE k # l + 1
    <3>1. k \in 1..l
      BY <1>2, <2>3
    <3>2. QED
      BY <1>2, <1>3, <1>6, <3>1 DEF Took, m
  <2>4. QED
    BY <2>2, <2>3
<1>10. TookFirst(address, s, i, w)
  <2>1. CASE m = << >>
    <3>1. w[1] = s[i] /\ Takes(address, s[i])
      BY <1>2, <1>3, <1>8, <2>1 DEF x
    <3>2. \A k \in 1..(i - 1) : ~Takes(address, s[k])
      BY <2>1 DEF Took, TookFirst, m
    <3>3. QED
      BY <1>3, <1>6, <3>1, <3>2 DEF TookFirst
  <2>2. CASE m # << >>
    <3>1. PICK j \in 1..(i - 1) : /\ m[1] = s[j] /\ Takes(address, s[j])
                                  /\ \A k \in 1..(j - 1) : ~Takes(address, s[k])
      BY <2>2 DEF Took, TookFirst, m
    <3>2. w[1] = m[1]
      BY <1>2, <1>3, <2>2
    <3>3. QED
      BY <1>3, <1>6, <3>1, <3>2 DEF TookFirst
  <2>3. QED
    BY <2>1, <2>2
<1>11. TookNoMore(w)
  <2>1. SUFFICES ASSUME NEW k \in 1..(l + 1)
                 PROVE  (k > 1 => ~CatchAll(w[k])) /\ (w[k].stop => k = l + 1)
    BY <1>3 DEF TookNoMore
  <2>2. CASE k = l + 1
    BY <1>2, <1>3, <1>7, <2>2
  <2>3. CASE k # l + 1
    <3>1. k \in 1..l /\ w[k] = m[k]
      BY <1>2, <1>3, <2>3
    <3>2. (k > 1 => ~CatchAll(m[k])) /\ (m[k].stop => k = l)
      BY <1>2, <3>1 DEF Took, TookNoMore, m, l
    <3>3. ~m[l].stop
      BY <1>2, <3>1 DEF Took, m, l
    <3>4. QED
      BY <3>1, <3>2, <3>3
  <2>4. QED
    BY <2>2, <2>3
<1>12. TookAll(address, s, i, b)
  <2>1. SUFFICES ASSUME NEW j \in 1..i, Takes(address, s[j]), ~CatchAll(s[j]) PROVE \E k \in DOMAIN w : w[k] = s[j]
    BY <1>4 DEF TookAll
  <2>2. CASE j = i
    BY <1>2, <1>3, <2>2 DEF x
  <2>3. CASE j # i
    <3>1. j \in 1..(i - 1)
      BY <1>5, <2>3
    <3>2. PICK k \in DOMAIN m : m[k] = s[j]
      BY <2>1, <3>1 DEF Took, TookAll, m
    <3>3. k \in 1..l /\ k \in 1..(l + 1)
      BY <1>2
    <3>4. QED
      BY <1>3, <3>2, <3>3
  <2>4. QED
    BY <2>2, <2>3
<1>13. b.stopped \in BOOLEAN /\ (b.stopped <=> w # << >> /\ w[Len(w)].stop)
  BY <1>3, <1>4 DEF x
<1>14. Took(address, R, s, i, b)
  BY <1>3, <1>4, <1>9, <1>10, <1>11, <1>12, <1>13 DEF Took
<1>15. QED
  BY <1>14 DEF b, w, m, x

LEMMA LoopTook ==
  ASSUME NEW address, NEW R, NEW n \in Nat, NEW s, DOMAIN s = 1..n,
         \A j \in 1..n : s[j] \in R /\ s[j].stop \in BOOLEAN
  PROVE  Took(address, R, s, n, Loop(address, s))
<1>0. PICK a : Runs(address, s, n, a)
  BY LoopRuns
<1>1. /\ a[0] = Start /\ a[n] = Loop(address, s)
      /\ \A i \in 1..n : a[i] = TryRoute(address, a[i - 1], s[i])
  BY <1>0 DEF Runs
<1> DEFINE S == {i \in Nat : i <= n => Took(address, R, s, i, a[i])}
<1>2. 0 \in S
  BY <1>1, TookStart
<1>3. ASSUME NEW k \in Nat, k \in S PROVE k + 1 \in S
  <2> DEFINE i == k + 1
  <2>1. SUFFICES ASSUME i <= n PROVE Took(address, R, s, i, a[i])
    OBVIOUS
  <2>2. i \in 1..n /\ i \in Nat \ {0} /\ i - 1 = k
    BY <2>1
  <2>3. Took(address, R, s, i - 1, a[i - 1])
    BY <1>3, <2>2
  <2>4. a[i] = TryRoute(address, a[i - 1], s[i]) /\ s[i].stop \in BOOLEAN /\ \A j \in 1..i : s[j] \in R
    BY <1>1, <2>2
  <2> HIDE DEF i, S
  <2> DEFINE acc == a[i - 1]
  <2>5. CASE acc.stopped \/ ~Matches(address, s[i], acc.matched = << >>)
    <3>1. a[i] = acc
      BY <2>4, <2>5 DEF TryRoute
    <3>2. QED
      BY <2>2, <2>3, <2>4, <2>5, <3>1, TookNothing
  <2>6. CASE ~(acc.stopped \/ ~Matches(address, s[i], acc.matched = << >>))
    <3>1. a[i] = [matched |-> Append(acc.matched, s[i]), stopped |-> s[i].stop]
      BY <2>4, <2>6 DEF TryRoute
    <3>2. ~acc.stopped /\ Matches(address, s[i], acc.matched = << >>)
      BY <2>6
    <3>3. Took(address, R, s, i - 1, acc)
      BY <2>3
    <3> HIDE DEF acc
    <3>4. Took(address, R, s, i, [matched |-> Append(acc.matched, s[i]), stopped |-> s[i].stop])
      BY <2>2, <2>4, <3>2, <3>3, TookOne
    <3>5. QED
      BY <3>1, <3>4
  <2>7. QED
    BY <2>5, <2>6
<1> HIDE DEF S
<1>4. n \in S
  BY <1>2, <1>3, SetInduction
<1>5. QED
  BY <1>1, <1>4 DEF S

\* An inbound message takes the routes it should, whatever routes there are.
LEMMA DatedTaken ==
  ASSUME Dated(Live("routes"))
  PROVE  InboundTakesItsRoutes
<1> SUFFICES ASSUME NEW address \in Recipients
             PROVE  LET taken == SimulateInbound(address)
                        first == MatchRoute(address)
                    IN /\ first = {taken[i] : i \in DOMAIN taken \cap {1}}
                       /\ \A i \in DOMAIN taken :
                            /\ i > 1 => taken[i].expression # <<catch_all>>
                            /\ taken[i].stop => i = Len(taken)
                       /\ \A x \in Live("routes") :
                            /\ evaluateExpression(x.expression, address)
                            /\ x.expression # <<catch_all>>
                            /\ \A i \in DOMAIN taken : taken[i].stop => x.priority < taken[i].priority
                            => x \in ToSet(taken)
  BY DEF InboundTakesItsRoutes
<1> DEFINE R == Live("routes")
           s == Ordered(R)
           acc == Loop(address, s)
           taken == acc.matched
           n == Len(s)
<1>1. SimulateInbound(address) = taken
  BY DEF SimulateInbound, Loop, Start
<1>2. n \in Nat /\ DOMAIN s = 1..n /\ s \in Seq(R) /\ InOrder(s) /\ \A x \in R : \E i \in DOMAIN s : s[i] = x
  BY OrderedIs
<1>3. \A x \in R : x.priority \in Int /\ x.stop \in BOOLEAN
  BY DEF Dated
<1> HIDE DEF R, s
<1>4. \A j \in 1..n : s[j] \in R /\ s[j].stop \in BOOLEAN
  BY <1>2, <1>3
<1>5. Took(address, R, s, n, acc)
  BY <1>2, <1>4, LoopTook
<1> HIDE DEF acc
<1>6. taken \in Seq(R) /\ Len(taken) \in Nat /\ DOMAIN taken = 1..Len(taken) /\ (taken = << >> <=> Len(taken) = 0)
  BY <1>5 DEF Took
<1>7. MatchRoute(address) = {taken[i] : i \in DOMAIN taken \cap {1}}
  <2> DEFINE F == {i \in DOMAIN s : /\ evaluateExpression(s[i].expression, address)
                                    /\ \A j \in 1..(i - 1) : ~evaluateExpression(s[j].expression, address)}
  <2>1. MatchRoute(address) = {s[i] : i \in F}
    BY DEF MatchRoute, s, R
  <2>2. \A i \in F : i \in 1..n /\ Takes(address, s[i]) /\ \A j \in 1..(i - 1) : ~Takes(address, s[j])
    BY <1>2 DEF Takes
  <2>3. \A i \in 1..n : Takes(address, s[i]) /\ (\A j \in 1..(i - 1) : ~Takes(address, s[j])) => i \in F
    BY <1>2 DEF Takes
  <2> HIDE DEF F
  <2>4. CASE taken = << >>
    <3>1. F = {}
      BY <1>5, <2>2, <2>4 DEF Took, TookFirst
    <3>2. DOMAIN taken \cap {1} = {}
      BY <1>6, <2>4
    <3>3. QED
      BY <2>1, <3>1, <3>2
  <2>5. CASE taken # << >>
    <3>1. PICK j \in 1..n : /\ taken[1] = s[j] /\ Takes(address, s[j])
                            /\ \A k \in 1..(j - 1) : ~Takes(address, s[k])
      BY <1>5, <2>5 DEF Took, TookFirst
    <3>2. F = {j}
      <4>1. j \in F
        BY <2>3, <3>1
      <4>2. ASSUME NEW i \in F PROVE i = j
        <5>1. ~(i < j)
          BY <2>2, <3>1
        <5>2. ~(j < i)
          BY <2>2, <3>1
        <5>3. QED
          BY <2>2, <5>1, <5>2
      <4>3. QED
        BY <4>1, <4>2
    <3>3. DOMAIN taken \cap {1} = {1}
      BY <1>6, <2>5
    <3>4. QED
      BY <2>1, <3>1, <3>2, <3>3
  <2>6. QED
    BY <2>4, <2>5
<1>8. \A i \in DOMAIN taken : /\ i > 1 => taken[i].expression # <<catch_all>>
                              /\ taken[i].stop => i = Len(taken)
  BY <1>5 DEF Took, TookNoMore, CatchAll
<1>9. ASSUME NEW x \in R, evaluateExpression(x.expression, address), x.expression # <<catch_all>>,
             \A i \in DOMAIN taken : taken[i].stop => x.priority < taken[i].priority
      PROVE  x \in ToSet(taken)
  <2>1. PICK j \in 1..n : s[j] = x
    BY <1>2
  <2>2. Takes(address, s[j]) /\ ~CatchAll(s[j])
    BY <1>9, <2>1 DEF Takes, CatchAll
  <2>3. CASE \E k \in DOMAIN taken : taken[k] = s[j]
    BY <2>1, <2>3 DEF ToSet
  <2>4. CASE acc.stopped /\ \E k \in 1..(j - 1) : taken[Len(taken)] = s[k]
    <3>1. PICK k \in 1..(j - 1) : taken[Len(taken)] = s[k]
      BY <2>4
    <3>2. taken # << >> /\ taken[Len(taken)].stop
      BY <1>5, <2>4 DEF Took
    <3>3. x.priority < s[k].priority
      BY <1>6, <1>9, <3>1, <3>2
    <3>4. ComesFirst(s[k], s[j]) /\ s[k] \in R
      BY <1>2, <1>4 DEF InOrder
    <3>5. s[k].priority <= x.priority
      BY <1>3, <2>1, <3>4 DEF ComesFirst
    <3>6. QED
      BY <1>3, <3>3, <3>4, <3>5
  <2>5. QED
    BY <1>5, <2>2, <2>3, <2>4 DEF Took, TookAll
<1>10. QED
  BY <1>1, <1>7, <1>8, <1>9 DEF R

----------------------------------------------------------------------------
(* The routes there are, and those that requests have still to store: each *)
(* was created at a moment of its own.                                     *)

Begun      == {s \in Requests : asked[s] # NotAsked}
RoutePuts  == {p \in UNION {Will(r) : r \in Requests} : p.do = "put" /\ p.table = "routes"}
RouteRows  == db["routes"] \cup {p.row : p \in RoutePuts}
Ranked(x)  == x.priority \in Int /\ x.stop \in BOOLEAN

RoutesStored == \A r \in Requests : \A p \in Will(r) : p.table = "routes" => p.do \in {"put", "purge"}
RoutesRanked == \A x \in RouteRows : Ranked(x) /\ x.at \in Nat /\ x.at < Cardinality(Begun)
RoutesApart  == \A x, y \in RouteRows : x.at = y.at => x.id = y.id

RouteInv == scene = "routes" => IsFiniteSet(Begun) /\ RoutesStored /\ RoutesRanked /\ RoutesApart

LEMMA RouteTable ==
  /\ "routes" \in Tables /\ "routes" # "config" /\ "routes" # "webhook_deliveries"
  /\ Columns("routes") = {"id", "dead", "at", "priority", "expression", "stop"}
BY DEF Tables, UniqueIndex, Columns, Fixed, Saved, Marked, Schema

\* A step of a request stores nothing that was not to be stored.
LEMMA RoutesContinue ==
  ASSUME RecordsInv, RouteInv, NEW q \in Requests, Continue(q), scene' = scene
  PROVE  RouteInv'
<1> DEFINE t == "routes"
<1> SUFFICES ASSUME scene = "routes" PROVE RouteInv'
  BY DEF RouteInv
<1>1. Outcome(q) /\ asked' = asked /\ \A r \in Requests \ {q} : todo'[r] = todo[r]
  BY OutcomeOfContinue DEF Outcome
<1>2. IsFiniteSet(Begun) /\ RoutesStored /\ RoutesRanked /\ RoutesApart
  BY DEF RouteInv
<1>3. Begun' = Begun
  BY <1>1 DEF Begun
<1>4. ASSUME NEW r \in Requests, NEW p \in WillOf(r, todo'[r]), p.table = t
      PROVE  p \in Will(r)
  BY <1>1, <1>4, RouteTable DEF Outcome, ProgramAfter, Records, Will
<1>5. RoutesStored'
  BY <1>2, <1>4 DEF RoutesStored, Will
<1>6. RoutePuts' \subseteq RoutePuts
  <2>1. SUFFICES ASSUME NEW p \in RoutePuts' PROVE p \in RoutePuts
    OBVIOUS
  <2>2. PICK r \in Requests : p \in WillOf(r, todo'[r]) /\ p.do = "put" /\ p.table = t
    BY DEF RoutePuts, Will
  <2>3. QED
    BY <1>4, <2>2 DEF RoutePuts
<1>7. ASSUME NEW x \in db'[t] PROVE x \in RouteRows
  <2>1. Kept(t, x) \/ Stored(q, t, x) \/ Changed(q, t, x)
    BY <1>1, NewRows, RouteTable
  <2>2. CASE Kept(t, x)
    BY <2>2 DEF Kept, RouteRows
  <2>3. CASE Stored(q, t, x)
    BY <2>3 DEF Stored, RouteRows, RoutePuts
  <2>4. CASE Changed(q, t, x)
    BY <1>2, <2>4 DEF Changed, RoutesStored
  <2>5. QED
    BY <2>1, <2>2, <2>3, <2>4
<1>8. RouteRows' \subseteq RouteRows
  BY <1>6, <1>7 DEF RouteRows
<1>9. RoutesRanked' /\ RoutesApart'
  BY <1>2, <1>3, <1>8 DEF RoutesRanked, RoutesApart, Ranked
<1>10. QED
  BY <1>2, <1>3, <1>5, <1>9 DEF RouteInv

\* A new route is of this moment, and an update leaves a route's moment as it was.
NewRoute(r, row) == row.id = <<r, 1>> /\ row.at = Cardinality(Begun) /\ Ranked(row)
NewTerms(x, row) == row.id = x.id /\ row.at = x.at /\ Ranked(row)
RouteAsk(r, q) ==
  \A p \in WillOf(r, q) : p.table = "routes" =>
    \/ p.do = "purge"
    \/ p.do = "put" /\ (NewRoute(r, p.row) \/ \E x \in db["routes"] : NewTerms(x, p.row))

LEMMA RouteAskOne ==
  ASSUME NEW r, NEW row, NEW s \in {Insert("routes", row), SaveOrFail("routes", row)},
         NewRoute(r, row) \/ \E x \in db["routes"] : NewTerms(x, row)
  PROVE  RouteAsk(r, <<s>>)
<1>1. OneTable(s, "routes") /\ s.do \in {"put", "save"} /\ s.row = row
  BY StatementTables DEF Insert, SaveOrFail
<1>2. WillOf(r, <<s>>) = {Prim(s)}
  BY <1>1, WillOne
<1>3. Prim(s).do = "put" /\ Prim(s).row = row
  BY <1>1, PrimOf DEF OneTable
<1>4. QED
  BY <1>2, <1>3 DEF RouteAsk

LEMMA RouteAsked ==
  ASSUME RecordsInv, RoutesRanked, NEW r, RouteHandlers(r) \/ ResetAll(r, resetTables["routes"])
  PROVE  \E a, q : Begin(r, a, q) /\ RouteAsk(r, q)
<1>1. CASE CreateRoute(r)
  <2> DEFINE n == Cardinality(Begun)
  <2>1. PICK p \in Priorities, e \in Expressions, stop \in BOOLEAN :
          Begin(r, Ask("CreateRoute", r), <<Insert("routes", Route(<<r, 1>>, n, p, e, stop))>>)
    BY <1>1 DEF CreateRoute, Begun
  <2> DEFINE row == Route(<<r, 1>>, n, p, e, stop)
  <2>2. p \in Int
    BY RoutesAssumption
  <2>3. row.id = <<r, 1>> /\ row.at = n /\ row.priority = p /\ row.stop = stop
    BY DEF Route
  <2> HIDE DEF n, row
  <2>4. NewRoute(r, row)
    BY <2>2, <2>3 DEF NewRoute, Ranked, n
  <2>5. RouteAsk(r, <<Insert("routes", row)>>)
    BY <2>4, RouteAskOne
  <2>6. QED
    BY <2>1, <2>5 DEF row
<1>2. CASE UpdateRoute(r)
  <2>1. PICK x \in Live("routes"),
             set \in [priority : Priorities] \cup [expression : Expressions] \cup [stop : BOOLEAN] :
          Begin(r, AskSave("UpdateRoute", by(x), "routes", x, set), <<SaveOrFail("routes", With(x, set))>>)
    BY <1>2 DEF UpdateRoute
  <2> DEFINE row == With(x, set)
  <2>2. x \in db["routes"] /\ DOMAIN x = Columns("routes")
    BY RowOf, RouteTable
  <2>3. Ranked(x)
    BY <2>2 DEF RoutesRanked, RouteRows
  <2>4. /\ DOMAIN set \subseteq {"priority", "expression", "stop"}
        /\ "priority" \in DOMAIN set => set["priority"] \in Int
        /\ "stop" \in DOMAIN set => set["stop"] \in BOOLEAN
    BY RoutesAssumption
  <2>5. (\A c \in DOMAIN set : row[c] = set[c]) /\ \A c \in DOMAIN x \ DOMAIN set : row[c] = x[c]
    <3>1. ASSUME NEW c \in DOMAIN set PROVE With(x, set)[c] = set[c]
      BY WithSet
    <3>2. \A c \in DOMAIN x \ DOMAIN set : With(x, set)[c] = x[c]
      BY WithColumn, Zenon
    <3>3. QED
      BY <3>1, <3>2
  <2> HIDE DEF row
  <2>6. row["id"] = x["id"] /\ row["at"] = x["at"]
    BY <2>2, <2>4, <2>5, RouteTable
  <2>7. row["priority"] \in Int /\ row["stop"] \in BOOLEAN
    BY <2>2, <2>3, <2>4, <2>5, RouteTable DEF Ranked
  <2>8. NewTerms(x, row)
    BY <2>6, <2>7 DEF NewTerms, Ranked
  <2>9. RouteAsk(r, <<SaveOrFail("routes", row)>>)
    BY <2>2, <2>8, RouteAskOne
  <2>10. QED
    BY <2>1, <2>9 DEF row
<1>3. CASE DeleteRoute(r)
  <2>1. PICK x : Begin(r, AskDelete("DeleteRoute", by(x), "routes", {x}), <<Purge("routes", [id |-> x.id])>>)
    BY <1>3 DEF DeleteRoute
  <2> DEFINE s == Purge("routes", [id |-> x.id])
  <2>2. s.do = "purge" /\ OneTable(s, "routes")
    BY StatementTables DEF Purge
  <2> HIDE DEF s
  <2>3. \A p \in WillOf(r, <<s>>) : p.do = "purge"
    BY <2>2, WillOne DEF Prim
  <2>4. RouteAsk(r, <<s>>)
    BY <2>3 DEF RouteAsk
  <2>5. QED
    BY <2>1, <2>4 DEF s
<1>4. CASE ResetAll(r, resetTables["routes"])
  <2>1. "routes" \in DOMAIN resetTables
    BY DEF resetTables
  <2>2. PICK a, q : Begin(r, a, q) /\ Empties(r, a, q)
    BY <1>4, <2>1, ResetEmpties
  <2>3. RouteAsk(r, q)
    BY <2>2 DEF Empties, RouteAsk
  <2>4. QED
    BY <2>2, <2>3
<1>5. QED
  BY <1>1, <1>2, <1>3, <1>4 DEF RouteHandlers

LEMMA RoutesArrive ==
  ASSUME RecordsInv, RouteInv, NEW q \in Requests, Arrive(q), scene' = scene
  PROVE  RouteInv'
<1> SUFFICES ASSUME scene = "routes" PROVE RouteInv'
  BY DEF RouteInv
<1>1. RouteHandlers(q) \/ ResetAll(q, resetTables["routes"])
  BY DEF Arrive
<1>2. IsFiniteSet(Begun) /\ RoutesStored /\ RoutesRanked /\ RoutesApart
  BY DEF RouteInv
<1>3. PICK a, p : Begin(q, a, p) /\ RouteAsk(q, p)
  BY <1>1, <1>2, RouteAsked
<1>4. Starts(q, a, p)
  BY <1>3, ArriveStarts, BeginStarts
<1>5. /\ db' = db /\ asked[q] = NotAsked /\ asked'[q] = a /\ todo'[q] = p /\ WillOf(q, todo'[q]) = WillOf(q, p)
      /\ \A r \in Requests \ {q} : asked'[r] = asked[r] /\ WillOf(r, todo'[r]) = Will(r)
  BY <1>4, Starting
<1>6. a # NotAsked
  BY <1>4 DEF Starts, Sound
<1>7. Begun' = Begun \cup {q} /\ q \notin Begun
  BY <1>5, <1>6 DEF Begun
<1>8. IsFiniteSet(Begun') /\ Cardinality(Begun') = Cardinality(Begun) + 1 /\ Cardinality(Begun) \in Nat
  BY <1>2, <1>7, FS_AddElement, FS_CardinalityType
<1>9. RoutesStored'
  <2>1. ASSUME NEW r \in Requests, NEW u \in WillOf(r, todo'[r]), u.table = "routes" PROVE u.do \in {"put", "purge"}
    BY <1>2, <1>3, <1>5, <2>1 DEF RoutesStored, RouteAsk
  <2>2. QED
    BY <2>1 DEF RoutesStored, Will
<1> DEFINE Expected(x) == x \in RouteRows \/ NewRoute(q, x) \/ \E y \in RouteRows : NewTerms(y, x)
<1>10. ASSUME NEW x \in RouteRows' PROVE Expected(x)
  <2>1. CASE x \in db'["routes"]
    BY <1>5, <2>1 DEF RouteRows
  <2>2. CASE x \notin db'["routes"]
    <3>0. PICK r \in Requests : \E u \in WillOf(r, todo'[r]) : u.do = "put" /\ u.table = "routes" /\ x = u.row
      BY <2>2 DEF RouteRows, RoutePuts, Will
    <3>1. PICK u \in WillOf(r, todo'[r]) : u.do = "put" /\ u.table = "routes" /\ x = u.row
      BY <3>0
    <3>2. CASE r # q
      <4>1. u \in Will(r)
        BY <1>5, <3>1, <3>2
      <4>2. QED
        BY <3>1, <4>1 DEF RouteRows, RoutePuts
    <3>3. CASE r = q
      BY <1>3, <1>5, <3>1, <3>3 DEF RouteAsk, RouteRows
    <3>4. QED
      BY <3>2, <3>3
  <2>3. QED
    BY <2>1, <2>2
<1>11. ASSUME NEW x \in RouteRows'
       PROVE  /\ Ranked(x) /\ x.at \in Nat /\ x.at < Cardinality(Begun')
              /\ x.at = Cardinality(Begun) => x.id = <<q, 1>>
              /\ x.at # Cardinality(Begun) => \E y \in RouteRows : y.at = x.at /\ y.id = x.id
  <2>1. Expected(x)
    BY <1>10
  <2>2. CASE x \in RouteRows
    BY <1>2, <1>8, <2>2 DEF RoutesRanked
  <2>3. CASE NewRoute(q, x)
    BY <1>8, <2>3 DEF NewRoute
  <2>4. CASE \E y \in RouteRows : NewTerms(y, x)
    BY <1>2, <1>8, <2>4 DEF RoutesRanked, NewTerms
  <2>5. QED
    BY <2>1, <2>2, <2>3, <2>4
<1> HIDE DEF Expected
<1>12. RoutesRanked'
  BY <1>11 DEF RoutesRanked, Ranked
<1>13. RoutesApart'
  <2>1. SUFFICES ASSUME NEW x \in RouteRows', NEW y \in RouteRows', x.at = y.at PROVE x.id = y.id
    BY DEF RoutesApart
  <2>2. CASE x.at = Cardinality(Begun)
    BY <1>11, <2>1, <2>2
  <2>3. CASE x.at # Cardinality(Begun)
    <3>1. PICK v \in RouteRows : v.at = x.at /\ v.id = x.id
      BY <1>11, <2>3
    <3>2. PICK w \in RouteRows : w.at = y.at /\ w.id = y.id
      BY <1>11, <2>1, <2>3
    <3>3. QED
      BY <1>2, <2>1, <3>1, <3>2 DEF RoutesApart
  <2>4. QED
    BY <2>2, <2>3
<1>14. QED
  BY <1>8, <1>9, <1>12, <1>13 DEF RouteInv

LEMMA RoutesBegin == Init => RouteInv
<1> SUFFICES ASSUME Init, scene = "routes" PROVE RouteInv
  BY DEF RouteInv
<1>1. PICK d : DatabaseInit(d) /\ d = NoRows
  BY DEF Init, Seeds, RouteSeeds
<1>2. db = NoRows /\ \A r \in Requests : asked[r] = NotAsked /\ todo[r] = << >>
  BY <1>1 DEF DatabaseInit
<1>3. db["routes"] = {}
  BY <1>2, RouteTable DEF NoRows
<1>4. \A r \in Requests : Will(r) = {}
  BY <1>2, NothingLeft
<1>5. RoutePuts = {} /\ RouteRows = {}
  BY <1>3, <1>4 DEF RoutePuts, RouteRows
<1>6. Begun = {}
  BY <1>2 DEF Begun
<1>7. QED
  BY <1>4, <1>5, <1>6, FS_EmptySet DEF RouteInv, RoutesStored, RoutesRanked, RoutesApart

LEMMA RoutesImply ==
  ASSUME RecordsInv, Scoped, RouteInv
  PROVE  InboundTakesItsRoutes
<1>1. CASE scene = "routes"
  <2>1. RoutesRanked /\ RoutesApart
    BY <1>1 DEF RouteInv
  <2>2. IsFiniteSet(db["routes"]) /\ \A x, y \in db["routes"] : x.id = y.id => x = y
    BY RouteTable DEF RecordsInv, Shapes, DatabaseTypeOK
  <2>3. Live("routes") \subseteq db["routes"] /\ db["routes"] \subseteq RouteRows
    BY DEF Live, RouteRows
  <2>4. IsFiniteSet(Live("routes"))
    BY <2>2, <2>3, FS_Subset
  <2>5. \A x \in Live("routes") : x.priority \in Int /\ x.at \in Nat /\ x.stop \in BOOLEAN
    BY <2>1, <2>3 DEF RoutesRanked, Ranked
  <2>6. \A x, y \in Live("routes") : x.at = y.at => x = y
    BY <2>1, <2>2, <2>3 DEF RoutesApart
  <2>7. QED
    BY <2>4, <2>5, <2>6, DatedTaken DEF Dated
<1>2. CASE scene # "routes"
  <2>1. scene \in Components => scene \in DOMAIN Duties
    BY ServiceAssumption, ResetTablesOf
  <2>2. Elsewhere("routes")
    BY <1>2, <2>1 DEF Elsewhere, TablesOf, OwnOf, Duties
  <2>3. db["routes"] = {}
    BY <2>2, RouteTable DEF Scoped
  <2>4. Live("routes") = {}
    BY <2>3 DEF Live
  <2>5. QED
    BY <2>4, FS_EmptySet, DatedTaken DEF Dated
<1>3. QED
  BY <1>1, <1>2

LEMMA RoutesStep == Settled /\ RouteInv /\ [Next]_vars => RouteInv'
<1> SUFFICES ASSUME Settled, RouteInv, [Next]_vars PROVE RouteInv'
  OBVIOUS
<1>1. RecordsInv /\ Scoped /\ scene' = scene /\ (Idle \/ \E q \in Requests : Arrive(q) \/ Continue(q))
  BY ServiceSteps DEF Settled, Steady
<1>2. CASE Idle
  <2>1. db' = db /\ todo' = todo /\ asked' = asked /\ scene' = scene
    BY <1>2 DEF Idle, dbVars
  <2>2. Begun' = Begun /\ RouteRows' = RouteRows /\ RoutesStored' = RoutesStored
    BY <2>1 DEF Begun, RouteRows, RoutePuts, RoutesStored, Will
  <2>3. QED
    BY <2>1, <2>2 DEF RouteInv, RoutesRanked, RoutesApart, Ranked
<1>3. ASSUME NEW q \in Requests, Arrive(q) PROVE RouteInv'
  BY <1>1, <1>3, RoutesArrive
<1>4. ASSUME NEW q \in Requests, Continue(q) PROVE RouteInv'
  BY <1>1, <1>4, RoutesContinue
<1>5. QED
  BY <1>1, <1>2, <1>3, <1>4

\* For any number of routes, written and deleted by any number of requests, an inbound
\* message takes the routes it should: the one GET /v3/routes/match names is the first, a
\* catch_all() takes it only if nothing before it did, a stop() is the last, and no route
\* that matches is passed over before one (route/handlers.go:252, :287).
THEOREM RoutesMatch == Spec => []InboundTakesItsRoutes
<1>1. Settled /\ RouteInv => InboundTakesItsRoutes
  BY RoutesImply DEF Settled, Steady
<1>2. QED
  BY <1>1, SettledBegins, SettledSteps, RoutesBegin, RoutesStep, PTL DEF Spec
=============================================================================
