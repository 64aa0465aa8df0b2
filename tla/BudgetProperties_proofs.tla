----------------------- MODULE BudgetProperties_proofs -----------------------
(***************************************************************************)
(* Proofs about shots and missions that spend from one account, for every  *)
(* set of processes, jobs and catalogs: they refine BudgetLock, what they  *)
(* log adds up, and a route is not beaten by another that was eligible.    *)
(***************************************************************************)
EXTENDS BudgetProperties, FiniteSetTheorems, SequenceTheorems, TLAPS

\* The invariant speaks of one process p at a time, of its record s, the
\* account's balance bal, and its ghosts: paid, fired, foreign and blind.
Open == {"idle", "turn", "stage", "firing", "answered", "closing"}
KnownOf(p, s) ==
    IF s.metered /\ p \in Runners THEN CreditDelta(s.before, s.last) ELSE s.spent

\* Where a process may be.
Placed(p, s) ==
    /\ p \in Runners => s.at # "stage"
    /\ p \in Missions => s.at \notin {"turn", "closing"}

\* The books of a process whose costs can all be told: between its two readings
\* the account has lost what it and others paid; without a meter the responses
\* have told what it paid; and what it paid is in the books or in this shot.
Ledgered(p, s, bal, pd, fi, fo, bl) ==
    /\ s.at = "idle" => s = Idle /\ pd = 0
    /\ s.at \in {"idle", "stage"} => fi = 0 /\ fo = 0 /\ s.metered = FALSE
    /\ s.at # "answered" => s.told = 0
    /\ ~bl /\ s.at \in Open =>
           /\ s.metered => s.before - bal = fi + fo
           /\ ~s.metered => fi = s.told + IF p \in Runners THEN s.spent ELSE 0
           /\ pd <= fi + IF p \in Runners THEN 0 ELSE s.spent

\* A request is made only with room for its estimated cost.
InRoom(p, s, limit) ==
    /\ Over * s.in <= Slack
    /\ s.at = "firing" =>
           /\ s.cap > 0
           /\ KnownOf(p, s) < limit
           /\ s.est * s.in + s.cap * s.out <= limit - KnownOf(p, s)

Sound(p) ==
    /\ Placed(p, shot[p])
    /\ Ledgered(p, shot[p], balance, paid[p], fired[p], foreign[p], blind[p])
    /\ InRoom(p, shot[p], job[p].limit)

\* A route is the one FireControl plans, and the stage that is being fired has
\* the budget it was planned with.
Routed(m, s) ==
    plan[m] # NoPlan =>
        LET route == plan[m]
        IN  /\ Eligible(route.offers, route.budget, route.out) # {}
            /\ route.winner = Winner(route.goal, route.offers, route.budget, route.out)
            /\ s.at = "firing" => route.budget <= job[m].limit - s.spent

IInv ==
    /\ TypeOK
    /\ \A r \in Runners : job[r] \in RunnerJobs
    /\ \A m \in Missions : job[m] \in MissionJobs /\ Routed(m, shot[m])
    /\ \A p \in Procs : Sound(p)
    /\ ReportAddsUp
-----------------------------------------------------------------------------
(* Arithmetic *)

\* A product grows with its first factor.
LEMMA ProductGrows ==
    ASSUME NEW a \in Nat, NEW b \in Nat, NEW c \in Nat, a <= b
    PROVE  /\ a * c <= b * c
           /\ a * c \in Nat /\ b * c \in Nat
<1>1. PICK d \in Nat : b = a + d
  <2>1. b - a \in Nat /\ b = a + (b - a)
    OBVIOUS
  <2> QED
    BY <2>1
<1>2. b * c = a * c + d * c
  BY <1>1
<1>3. d * c \in Nat /\ a * c \in Nat /\ b * c \in Nat
  OBVIOUS
<1> QED
  BY <1>2, <1>3

\* What is affordable can be paid for.
LEMMA QuotientFits ==
    ASSUME NEW a \in Int, NEW b \in Nat \ {0}
    PROVE  /\ a \div b \in Int
           /\ (a \div b) * b <= a
    OBVIOUS

\* A cap that is not blocked has room: at least one token, and no more than what
\* remains can pay for.
LEMMA CapHasRoom ==
    ASSUME NEW remaining \in Int, NEW est \in Nat, NEW in \in Nat, NEW out \in Nat,
           NEW most \in Nat \ {0}, ~Blocked(remaining, est, in, out)
    PROVE  LET cap == Cap(most, remaining, est, in, out)
           IN  /\ cap \in Nat /\ cap > 0
               /\ est * in + cap * out <= remaining
<1> DEFINE left == remaining - est * in
           afford == left \div out
<1>1. est * in \in Nat
  OBVIOUS
<1>2. left \in Int /\ left > 0
  BY <1>1 DEF Blocked
<1>3. CASE out = 0
  <2>1. Cap(most, remaining, est, in, out) = most
    BY <1>3 DEF Cap
  <2>2. most * out = 0
    BY <1>3
  <2> QED
    BY <1>1, <1>2, <2>1, <2>2
<1>4. CASE out # 0
  <2>1. Affordable(remaining, est, in, out) = afford
    BY DEF Affordable
  <2>2. afford \in Int /\ afford * out <= left
    BY <1>2, <1>4, QuotientFits
  <2> HIDE DEF left, afford
  <2>3. afford > 0
    BY <1>4, <2>1, <2>2 DEF Blocked
  <2>4. Cap(most, remaining, est, in, out) = Larger(1, Smaller(most, afford))
    BY <1>4, <2>1 DEF Cap
  <2>5. /\ Larger(1, Smaller(most, afford)) \in Nat
        /\ Larger(1, Smaller(most, afford)) > 0
        /\ Larger(1, Smaller(most, afford)) <= afford
    BY <2>2, <2>3 DEF Larger, Smaller
  <2> DEFINE cap == Larger(1, Smaller(most, afford))
  <2> HIDE DEF cap
  <2>6. cap * out <= afford * out /\ cap * out \in Nat
    BY <2>2, <2>3, <2>5, ProductGrows DEF cap
  <2>7. cap * out <= left
    BY <1>2, <2>2, <2>6
  <2> QED
    BY <1>1, <2>4, <2>5, <2>7 DEF cap, left
<1> QED
  BY <1>3, <1>4

\* A bill exceeds its estimate by at most the slack.
LEMMA BillFits ==
    ASSUME NEW est \in Nat, NEW in \in Nat, NEW cap \in Nat, NEW out \in Nat,
           NEW input \in est .. est + Over, NEW output \in 0 .. cap,
           NEW room \in Int, est * in + cap * out <= room, Over * in <= Slack
    PROVE  input * in + output * out \in 0 .. room + Slack
<1>1. Over \in Nat /\ Slack \in Nat
  BY BudgetAssumption, SlackAssumption
<1>2. input * in <= (est + Over) * in /\ input * in \in Nat
  BY <1>1, ProductGrows
<1>3. (est + Over) * in = est * in + Over * in
  BY <1>1
<1>4. output * out <= cap * out /\ output * out \in Nat
  BY ProductGrows
<1>5. est * in \in Nat /\ Over * in \in Nat /\ cap * out \in Nat
  BY <1>1
<1> QED
  BY <1>1, <1>2, <1>3, <1>4, <1>5
-----------------------------------------------------------------------------
(* The winner of a route exists: min() of keys that are tuples of naturals. *)

\* A set of naturals that is not empty has a least element.
LEMMA LeastNatural ==
    ASSUME NEW T \in SUBSET Nat, T # {}
    PROVE  \E n \in T : \A m \in T : n <= m
<1> DEFINE F == {0 .. n : n \in T}
<1>1. \A n \in T : 0 .. n \in FiniteSubsetsOf(Nat)
  <2> TAKE n \in T
  <2>1. IsFiniteSet(0 .. n)
    BY FS_Interval
  <2>2. 0 .. n \in SUBSET Nat
    OBVIOUS
  <2> QED
    BY <2>1, <2>2 DEF FiniteSubsetsOf
<1>2. F \subseteq FiniteSubsetsOf(Nat) /\ F # {}
  BY <1>1
<1>3. IsWellFoundedOn(StrictSubsetOrdering(Nat), FiniteSubsetsOf(Nat))
  BY FS_StrictSubsetOrderingWellFounded
<1> HIDE DEF F
<1>4. PICK X \in F : \A Y \in F : <<Y, X>> \notin StrictSubsetOrdering(Nat)
  BY <1>2, <1>3, WFMin
<1>5. PICK n \in T : X = 0 .. n
  BY <1>4 DEF F
<1>6. ASSUME NEW m \in T, m < n
      PROVE  FALSE
  <2>1. 0 .. m \in F
    BY DEF F
  <2>2. 0 .. m \subseteq 0 .. n /\ 0 .. m # 0 .. n
    BY <1>6
  <2>3. 0 .. m \in SUBSET Nat /\ 0 .. n \in SUBSET Nat
    OBVIOUS
  <2>4. <<0 .. m, 0 .. n>> \in StrictSubsetOrdering(Nat)
    BY <2>2, <2>3 DEF StrictSubsetOrdering
  <2> QED
    BY <1>4, <1>5, <2>1, <2>4
<1> QED
  BY <1>6

\* x's key is smaller at one of the first i places, and agrees before it.
Beats(K, x, y, i) ==
    \E k \in 1 .. i : K[x][k] < K[y][k] /\ \A j \in 1 .. k - 1 : K[x][j] = K[y][j]

\* At the first i places the members of U are tied, and beat everyone else.
Leading(T, K, U, i) ==
    /\ U # {} /\ U \subseteq T
    /\ \A x \in U, y \in U : \A j \in 1 .. i : K[x][j] = K[y][j]
    /\ \A x \in U, y \in T \ U : Beats(K, x, y, i)

\* One place more: the leaders with the least next figure lead.
LEMMA NextPlace ==
    ASSUME NEW n \in Nat, NEW T, NEW K \in [T -> [1 .. n -> Nat]],
           NEW i \in 0 .. n - 1, NEW U, Leading(T, K, U, i)
    PROVE  \E V : Leading(T, K, V, i + 1)
<1> DEFINE next(x) == K[x][i + 1]
           V == {x \in U : \A y \in U : next(x) <= next(y)}
<1>1. \A x \in U : x \in T /\ next(x) \in Nat
  BY DEF Leading
<1>2. V # {}
  <2> DEFINE S == {next(x) : x \in U}
  <2>1. S \in SUBSET Nat /\ S # {}
    BY <1>1 DEF Leading
  <2> HIDE DEF S
  <2>2. PICK least \in S : \A m \in S : least <= m
    BY <2>1, LeastNatural
  <2>3. PICK x \in U : next(x) = least
    BY <2>2 DEF S
  <2>4. \A y \in U : next(y) \in S
    BY DEF S
  <2>5. x \in V
    BY <2>2, <2>3, <2>4
  <2> QED
    BY <2>5
<1>3. \A x \in V, y \in V : \A j \in 1 .. i + 1 : K[x][j] = K[y][j]
  <2> TAKE x \in V, y \in V
  <2>1. \A j \in 1 .. i : K[x][j] = K[y][j]
    BY DEF Leading
  <2>2. next(x) = next(y)
    BY <1>1
  <2> QED
    BY <2>1, <2>2
<1>4. ASSUME NEW y \in T \ V, NEW x \in V
      PROVE  Beats(K, x, y, i + 1)
  <2>1. CASE y \notin U
    BY <2>1 DEF Leading, Beats
  <2>2. CASE y \in U
    <3>1. next(x) < next(y)
      <4>1. PICK z \in U : ~(next(y) <= next(z))
        BY <2>2
      <4>2. next(x) <= next(z)
        OBVIOUS
      <4>3. next(x) \in Nat /\ next(y) \in Nat /\ next(z) \in Nat
        BY <1>1, <2>2
      <4> HIDE DEF next
      <4> QED
        BY <4>1, <4>2, <4>3
    <3>2. \A j \in 1 .. i : K[x][j] = K[y][j]
      BY <2>2 DEF Leading
    <3>3. i + 1 \in 1 .. i + 1 /\ (i + 1) - 1 = i
      OBVIOUS
    <3> QED
      BY <3>1, <3>2, <3>3 DEF Beats
  <2> QED
    BY <2>1, <2>2
<1>5. V \subseteq T
  BY <1>1
<1> HIDE DEF V
<1>6. Leading(T, K, V, i + 1)
  BY <1>2, <1>3, <1>4, <1>5 DEF Leading
<1> QED
  BY <1>6

\* A set that is not empty has a member whose key precedes all the others', when
\* keys are tuples of naturals of one length and no two are the same.
LEMMA LeastKey ==
    ASSUME NEW n \in Nat, NEW T, T # {}, NEW K \in [T -> [1 .. n -> Nat]],
           \A x \in T, y \in T : (\A j \in 1 .. n : K[x][j] = K[y][j]) => x = y
    PROVE  \E x \in T : \A y \in T \ {x} : Precedes(K[x], K[y])
<1> DEFINE led(i) == \E V : Leading(T, K, V, i)
           B == {i \in 0 .. n : ~led(i)}
<1>1. led(0)
  <2>1. Leading(T, K, T, 0)
    BY DEF Leading
  <2> QED
    BY <2>1
<1>2. \A i \in 0 .. n - 1 : led(i) => led(i + 1)
  BY NextPlace
<1> HIDE DEF led
<1>3. led(n)
  <2> SUFFICES ASSUME ~led(n)
               PROVE  FALSE
    OBVIOUS
  <2>1. n \in B
    OBVIOUS
  <2>2. B \in SUBSET Nat
    OBVIOUS
  <2>3. PICK i \in B : \A m \in B : i <= m
    BY <2>1, <2>2, LeastNatural
  <2>4. i # 0 /\ i \in 0 .. n /\ ~led(i)
    BY <1>1, <2>3
  <2>5. i - 1 \in 0 .. n - 1 /\ i - 1 \notin B
    BY <2>3, <2>4
  <2>6. led(i - 1)
    BY <2>5
  <2>7. led((i - 1) + 1)
    BY <1>2, <2>5, <2>6
  <2>8. (i - 1) + 1 = i
    BY <2>4
  <2> QED
    BY <2>4, <2>7, <2>8
<1>4. PICK V : Leading(T, K, V, n)
  BY <1>3 DEF led
<1>5. PICK x \in V : x \in T
  BY <1>4 DEF Leading
<1>6. ASSUME NEW y \in T \ {x}
      PROVE  Precedes(K[x], K[y])
  <2>1. y \notin V
    BY <1>4, <1>5, <1>6 DEF Leading
  <2>2. Beats(K, x, y, n)
    BY <1>4, <1>5, <1>6, <2>1 DEF Leading
  <2>3. DOMAIN K[x] = 1 .. n
    BY <1>5
  <2> QED
    BY <2>2, <2>3 DEF Precedes, Beats
<1> QED
  BY <1>5, <1>6
-----------------------------------------------------------------------------
(* Routes *)

\* An estimate is a natural number or unknown.
LEMMA CostTyped ==
    ASSUME NEW offer \in Offer, NEW out \in Nat
    PROVE  /\ Cost(offer, out) \in AmountOrUnknown
           /\ InPrice(offer) \in AmountOrUnknown /\ OutPrice(offer) \in AmountOrUnknown
           /\ Priced(offer) => InPrice(offer) \in Nat /\ OutPrice(offer) \in Nat
           /\ Priced(offer) <=> Cost(offer, out) # Unknown
<1>1. /\ InPrice(offer) \in AmountOrUnknown /\ OutPrice(offer) \in AmountOrUnknown
      /\ Priced(offer) => InPrice(offer) \in Nat /\ OutPrice(offer) \in Nat
  BY DEF InPrice, OutPrice, Priced, Offer, AmountOrUnknown, Unknown
<1>2. ASSUME Priced(offer)
      PROVE  Cost(offer, out) \in Nat
  <2>1. InPrice(offer) \in Nat /\ OutPrice(offer) \in Nat /\ EstimatedInput \in Nat
    BY <1>1, <1>2, RoutingAssumption
  <2>2. EstimatedInput * InPrice(offer) \in Nat /\ out * OutPrice(offer) \in Nat
    BY <2>1
  <2> QED
    BY <1>2, <2>2 DEF Cost
<1> QED
  BY <1>1, <1>2 DEF Cost, AmountOrUnknown, Unknown

\* Two tuples one after the other.
LEMMA PairAndTriple ==
    ASSUME NEW a \in Nat, NEW b \in Nat, NEW c \in Nat, NEW d \in Nat, NEW e \in Nat
    PROVE  <<a, b>> \o <<c, d, e>> = <<a, b, c, d, e>>
<1> DEFINE s == <<a, b>>
           t == <<c, d, e>>
           u == <<a, b, c, d, e>>
<1>1. s \in Seq(Nat) /\ t \in Seq(Nat) /\ u \in Seq(Nat)
  OBVIOUS
<1>2. Len(s) = 2 /\ Len(t) = 3 /\ Len(u) = 5
  OBVIOUS
<1>3. \A i \in 1 .. 5 : u[i] = IF i <= 2 THEN s[i] ELSE t[i - 2]
  <2>1. \A i \in 1 .. 5 : i = 1 \/ i = 2 \/ i = 3 \/ i = 4 \/ i = 5
    OBVIOUS
  <2> QED
    BY <2>1
<1> HIDE DEF s, t, u
<1>4. /\ s \o t \in Seq(Nat) /\ Len(s \o t) = Len(s) + Len(t)
      /\ \A i \in 1 .. Len(s) + Len(t) :
             (s \o t)[i] = IF i <= Len(s) THEN s[i] ELSE t[i - Len(s)]
  BY <1>1, ConcatProperties
<1> DEFINE v == s \o t
<1> HIDE DEF v
<1>5. v \in Seq(Nat) /\ Len(v) = 5 /\ \A i \in 1 .. 5 : v[i] = u[i]
  <2>1. v \in Seq(Nat) /\ Len(v) = 5
    BY <1>2, <1>4 DEF v
  <2>2. \A i \in 1 .. 2 + 3 : v[i] = IF i <= 2 THEN s[i] ELSE t[i - 2]
    BY <1>2, <1>4, Zenon DEF v
  <2>3. 2 + 3 = 5
    OBVIOUS
  <2> QED
    BY <1>3, <2>1, <2>2, <2>3
<1>6. v = u
  BY <1>1, <1>2, <1>5, SeqEqual
<1> QED
  BY <1>6 DEF s, t, u, v

\* A key that is greater at the first difference precedes nothing.
LEMMA FirstDifference ==
    ASSUME NEW n \in Nat, NEW k \in [1 .. n -> Nat], NEW m \in [1 .. n -> Nat],
           NEW i \in 1 .. n, m[i] < k[i], \A j \in 1 .. i - 1 : k[j] = m[j]
    PROVE  ~Precedes(k, m)
<1> SUFFICES ASSUME Precedes(k, m)
             PROVE  FALSE
  OBVIOUS
<1>1. PICK h \in 1 .. n : k[h] < m[h] /\ \A j \in 1 .. h - 1 : k[j] = m[j]
  BY DEF Precedes
<1>2. CASE h < i
  <2>1. h \in 1 .. i - 1
    BY <1>2
  <2> QED
    BY <1>1, <2>1
<1>3. CASE i < h
  <2>1. i \in 1 .. h - 1
    BY <1>3
  <2> QED
    BY <1>1, <2>1
<1>4. CASE h = i
  BY <1>1, <1>4
<1> QED
  BY <1>2, <1>3, <1>4

\* The key of a lane is a tuple of naturals that ends with the lane.
KeyLength(goal) == IF goal = "cheapest" THEN 3 ELSE 5
LEMMA KeyTyped ==
    ASSUME NEW offers \in [Lanes -> Offer], NEW l \in Lanes, NEW out \in Nat,
           NEW goal \in Goals
    PROVE  /\ Key(goal, offers, l, out) \in [1 .. KeyLength(goal) -> Nat]
           /\ Key(goal, offers, l, out)[KeyLength(goal)] = l
           /\ goal = "cheapest" => Key(goal, offers, l, out) =
                  <<UnknownLast(Cost(offers[l], out)), OrInfinity(Cost(offers[l], out)), l>>
           /\ goal = "fastest" => Key(goal, offers, l, out) =
                  <<UnknownLast(offers[l].seconds), OrInfinity(offers[l].seconds),
                    UnknownLast(Cost(offers[l], out)), OrInfinity(Cost(offers[l], out)), l>>
           /\ goal = "balanced" => Key(goal, offers, l, out) =
                  <<UnknownLast(Cost(offers[l], out)), UnknownLast(offers[l].seconds),
                    OrInfinity(Cost(offers[l], out)), OrInfinity(offers[l].seconds), l>>
<1> DEFINE cost == Cost(offers[l], out)
           seconds == offers[l].seconds
<1>1. cost \in AmountOrUnknown /\ seconds \in AmountOrUnknown
  BY CostTyped DEF Offer
<1> HIDE DEF cost, seconds
<1>2. \A a \in AmountOrUnknown : UnknownLast(a) \in Nat /\ OrInfinity(a) \in Nat
  BY RoutingAssumption DEF AmountOrUnknown, UnknownLast, OrInfinity, Unknown
<1>3. l \in Nat
  BY RoutingAssumption
<1>4. CASE goal = "cheapest"
  <2>1. Key(goal, offers, l, out) = <<UnknownLast(cost), OrInfinity(cost), l>>
    BY <1>4 DEF Key, CostKey, cost
  <2> QED
    BY <1>1, <1>2, <1>3, <1>4, <2>1 DEF KeyLength, cost
<1>5. CASE goal = "fastest"
  <2>1. Key(goal, offers, l, out) =
            <<UnknownLast(seconds), OrInfinity(seconds)>> \o
                <<UnknownLast(cost), OrInfinity(cost), l>>
    BY <1>5 DEF Key, SpeedKey, CostKey, cost, seconds
  <2>2. Key(goal, offers, l, out) =
            <<UnknownLast(seconds), OrInfinity(seconds),
              UnknownLast(cost), OrInfinity(cost), l>>
    BY <1>1, <1>2, <1>3, <2>1, PairAndTriple
  <2> QED
    BY <1>1, <1>2, <1>3, <1>5, <2>2 DEF KeyLength, cost, seconds
<1>6. CASE goal = "balanced"
  <2>1. Key(goal, offers, l, out) =
            <<UnknownLast(cost), UnknownLast(seconds),
              OrInfinity(cost), OrInfinity(seconds), l>>
    BY <1>6 DEF Key, BalancedKey, cost, seconds
  <2> QED
    BY <1>1, <1>2, <1>3, <1>6, <2>1 DEF KeyLength, cost, seconds
<1> QED
  BY <1>4, <1>5, <1>6 DEF Goals

\* When a lane is eligible, the winner is one whose key precedes all the others'.
LEMMA WinnerLeads ==
    ASSUME NEW offers \in [Lanes -> Offer], NEW out \in Nat, NEW goal \in Goals,
           NEW budget, Eligible(offers, budget, out) # {}
    PROVE  LET winner == Winner(goal, offers, budget, out)
           IN  /\ winner \in Eligible(offers, budget, out) /\ winner \in Lanes
               /\ \A l \in Eligible(offers, budget, out) \ {winner} :
                      Precedes(Key(goal, offers, winner, out), Key(goal, offers, l, out))
<1> DEFINE T == Eligible(offers, budget, out)
           K == [l \in T |-> Key(goal, offers, l, out)]
           n == KeyLength(goal)
<1>1. T \subseteq Lanes
  BY DEF Eligible
<1>2. n \in Nat
  BY DEF KeyLength
<1>3. \A l \in T : K[l] \in [1 .. n -> Nat] /\ K[l][n] = l
  BY <1>1, KeyTyped
<1>4. K \in [T -> [1 .. n -> Nat]]
  BY <1>3
<1>5. \A x \in T, y \in T : (\A j \in 1 .. n : K[x][j] = K[y][j]) => x = y
  <2>1. n \in 1 .. n
    BY DEF KeyLength
  <2> QED
    BY <1>3, <2>1
<1>6. \A l \in T : K[l] = Key(goal, offers, l, out)
  OBVIOUS
<1> HIDE DEF K, n
<1>7. \E x \in T : \A y \in T \ {x} : Precedes(K[x], K[y])
  BY <1>2, <1>4, <1>5, LeastKey
<1>8. \E x \in T : \A y \in T \ {x} :
          Precedes(Key(goal, offers, x, out), Key(goal, offers, y, out))
  BY <1>6, <1>7
<1> HIDE DEF T
<1>9. Winner(goal, offers, budget, out) =
          CHOOSE x \in T : \A y \in T \ {x} :
              Precedes(Key(goal, offers, x, out), Key(goal, offers, y, out))
  BY DEF Winner, T
<1>10. /\ Winner(goal, offers, budget, out) \in T
       /\ \A y \in T \ {Winner(goal, offers, budget, out)} :
              Precedes(Key(goal, offers, Winner(goal, offers, budget, out), out),
                       Key(goal, offers, y, out))
  BY <1>8, <1>9, Zenon
<1> QED
  BY <1>1, <1>10 DEF T

\* No eligible lane is better than the winner by figures that are known.
LEMMA WinnerUndominated ==
    ASSUME NEW offers \in [Lanes -> Offer], NEW out \in Nat, NEW goal \in Goals,
           NEW budget, NEW l \in Eligible(offers, budget, out)
    PROVE  ~Better(goal, offers[l], offers[Winner(goal, offers, budget, out)], out)
<1> DEFINE winner == Winner(goal, offers, budget, out)
<1>1. /\ winner \in Lanes /\ l \in Lanes
      /\ l # winner => Precedes(Key(goal, offers, winner, out), Key(goal, offers, l, out))
  BY WinnerLeads DEF Eligible
<1> DEFINE w == offers[winner]
           o == offers[l]
           wc == Cost(w, out)
           oc == Cost(o, out)
           ws == w.seconds
           os == o.seconds
<1>2. /\ wc \in AmountOrUnknown /\ oc \in AmountOrUnknown
      /\ ws \in AmountOrUnknown /\ os \in AmountOrUnknown
      /\ Priced(w) <=> wc # Unknown
      /\ Priced(o) <=> oc # Unknown
  BY <1>1, CostTyped DEF Offer
<1>3. /\ goal = "cheapest" =>
             /\ Key(goal, offers, winner, out) = <<UnknownLast(wc), OrInfinity(wc), winner>>
             /\ Key(goal, offers, l, out) = <<UnknownLast(oc), OrInfinity(oc), l>>
      /\ goal = "fastest" =>
             /\ Key(goal, offers, winner, out) =
                  <<UnknownLast(ws), OrInfinity(ws), UnknownLast(wc), OrInfinity(wc), winner>>
             /\ Key(goal, offers, l, out) =
                  <<UnknownLast(os), OrInfinity(os), UnknownLast(oc), OrInfinity(oc), l>>
      /\ goal = "balanced" =>
             /\ Key(goal, offers, winner, out) =
                  <<UnknownLast(wc), UnknownLast(ws), OrInfinity(wc), OrInfinity(ws), winner>>
             /\ Key(goal, offers, l, out) =
                  <<UnknownLast(oc), UnknownLast(os), OrInfinity(oc), OrInfinity(os), l>>
  BY <1>1, KeyTyped
<1>4. /\ Key(goal, offers, winner, out) \in [1 .. KeyLength(goal) -> Nat]
      /\ Key(goal, offers, l, out) \in [1 .. KeyLength(goal) -> Nat]
  BY <1>1, KeyTyped
<1>5. ASSUME NEW a \in AmountOrUnknown, NEW b \in AmountOrUnknown, Less(a, b)
      PROVE  /\ UnknownLast(a) = 0 /\ a # Unknown
             /\ UnknownLast(b) \in {0, 1}
             /\ UnknownLast(b) = 0 => OrInfinity(a) < OrInfinity(b)
             /\ a # b
  BY <1>5 DEF Less, AmountOrUnknown, UnknownLast, OrInfinity, Unknown
<1> SUFFICES ASSUME Better(goal, o, w, out)
             PROVE  FALSE
  OBVIOUS
<1> HIDE DEF winner, w, o, wc, oc, ws, os
<1>6. CASE goal = "cheapest"
  <2>1. Less(oc, wc)
    BY <1>6 DEF Better, oc, wc
  <2>2. l # winner
    BY <1>2, <1>5, <2>1 DEF wc, oc, w, o
  <2> DEFINE k == <<UnknownLast(wc), OrInfinity(wc), winner>>
             m == <<UnknownLast(oc), OrInfinity(oc), l>>
  <2>3. Precedes(k, m) /\ k \in [1 .. 3 -> Nat] /\ m \in [1 .. 3 -> Nat]
    BY <1>1, <1>3, <1>6, <1>4, <2>2 DEF winner, KeyLength
  <2>4. \/ m[1] < k[1]
        \/ m[1] = k[1] /\ m[2] < k[2]
    BY <1>2, <1>5, <2>1
  <2> HIDE DEF k, m
  <2>5. \E i \in 1 .. 3 : m[i] < k[i] /\ \A j \in 1 .. i - 1 : k[j] = m[j]
    BY <2>4
  <2> QED
    BY <2>3, <2>5, FirstDifference
<1>7. CASE goal = "fastest"
  <2>1. Less(os, ws)
    BY <1>7 DEF Better, os, ws
  <2>2. l # winner
    BY <1>2, <1>5, <2>1 DEF ws, os, w, o
  <2> DEFINE k == <<UnknownLast(ws), OrInfinity(ws), UnknownLast(wc), OrInfinity(wc), winner>>
             m == <<UnknownLast(os), OrInfinity(os), UnknownLast(oc), OrInfinity(oc), l>>
  <2>3. Precedes(k, m) /\ k \in [1 .. 5 -> Nat] /\ m \in [1 .. 5 -> Nat]
    BY <1>1, <1>3, <1>7, <1>4, <2>2 DEF winner, KeyLength
  <2>4. \/ m[1] < k[1]
        \/ m[1] = k[1] /\ m[2] < k[2]
    BY <1>2, <1>5, <2>1
  <2> HIDE DEF k, m
  <2>5. \E i \in 1 .. 5 : m[i] < k[i] /\ \A j \in 1 .. i - 1 : k[j] = m[j]
    BY <2>4
  <2> QED
    BY <2>3, <2>5, FirstDifference
<1>8. CASE goal = "balanced"
  <2>1. Less(oc, wc)
    BY <1>8 DEF Better, oc, wc
  <2>2. l # winner
    BY <1>2, <1>5, <2>1 DEF wc, oc, w, o
  <2>3. ws # Unknown => os # Unknown
    BY <1>8 DEF Better, Knows, ws, os
  <2> DEFINE k == <<UnknownLast(wc), UnknownLast(ws), OrInfinity(wc), OrInfinity(ws), winner>>
             m == <<UnknownLast(oc), UnknownLast(os), OrInfinity(oc), OrInfinity(os), l>>
  <2>4. Precedes(k, m) /\ k \in [1 .. 5 -> Nat] /\ m \in [1 .. 5 -> Nat]
    BY <1>1, <1>3, <1>8, <1>4, <2>2 DEF winner, KeyLength
  <2>5. UnknownLast(os) = UnknownLast(ws) \/ UnknownLast(os) < UnknownLast(ws)
    BY <1>2, <2>3 DEF UnknownLast
  <2>6. \/ m[1] < k[1]
        \/ m[1] = k[1] /\ m[2] < k[2]
        \/ m[1] = k[1] /\ m[2] = k[2] /\ m[3] < k[3]
    BY <1>2, <1>5, <2>1, <2>5
  <2> HIDE DEF k, m
  <2>7. \E i \in 1 .. 5 : m[i] < k[i] /\ \A j \in 1 .. i - 1 : k[j] = m[j]
    BY <2>6
  <2> QED
    BY <2>4, <2>7, FirstDifference
<1> QED
  BY <1>6, <1>7, <1>8 DEF Goals
-----------------------------------------------------------------------------
(* What every step shares: the records it builds, and what it leaves alone. *)

\* A process is asked what it owes when a call it made is not accounted for.
Due(s) == s.at \in {"answered", "lost"}

LEMMA JobsTyped ==
    ASSUME IInv
    PROVE  /\ \A p \in Procs : job[p].limit \in Nat \ {0}
           /\ \A r \in Runners : job[r] \in RunnerJob /\ r \in Procs /\ r \notin Missions
           /\ \A m \in Missions : job[m] \in MissionJob /\ m \in Procs /\ m \notin Runners
    BY BudgetAssumption DEF IInv, RunnerJob, MissionJob, Procs

\* The fields of a process's record.
LEMMA ShotTyped ==
    ASSUME NEW s \in Shot
    PROVE  /\ s.at \in Places /\ s.n \in Nat /\ s.metered \in BOOLEAN
           /\ s.in \in Nat /\ s.out \in Nat /\ s.before \in Int /\ s.last \in Int
           /\ s.spent \in Nat /\ s.est \in Nat /\ s.cap \in Nat /\ s.told \in Nat
           /\ s.choice \in {"none", "final", "tools"}
    BY DEF Shot

LEMMA IdleTyped ==
    /\ Idle \in Shot
    /\ Idle.at = "idle" /\ Idle.n = 0 /\ Idle.metered = FALSE /\ Idle.in = 0
    /\ Idle.out = 0 /\ Idle.before = 0 /\ Idle.last = 0 /\ Idle.spent = 0
    /\ Idle.est = 0 /\ Idle.cap = 0 /\ Idle.told = 0 /\ Idle.choice = "none"
    BY DEF Idle, Shot, Places

LEMMA DeltaTyped ==
    ASSUME NEW b \in Int, NEW a \in Int
    PROVE  /\ CreditDelta(b, a) \in Nat
           /\ CreditDelta(b, a) >= b - a
           /\ b - a >= 0 => CreditDelta(b, a) = b - a
           /\ CreditDelta(b, b) = 0
    BY DEF CreditDelta

LEMMA KnownTyped ==
    ASSUME NEW p, NEW s \in Shot
    PROVE  KnownOf(p, s) \in Nat
    BY ShotTyped, DeltaTyped DEF KnownOf

\* The record of a process that has ended knows what it knew.
LEMMA EndedTyped ==
    ASSUME NEW p, NEW s \in Shot, NEW place \in {"done", "failed", "lost"}
    PROVE  /\ Ended(s, place) \in Shot
           /\ Ended(s, place).at = place /\ Ended(s, place).told = 0
           /\ Ended(s, place).in = 0
           /\ KnownOf(p, Ended(s, place)) = KnownOf(p, s)
<1> DEFINE e == Ended(s, place)
<1>1. /\ s.metered \in BOOLEAN /\ s.before \in Int /\ s.last \in Int /\ s.spent \in Nat
  BY ShotTyped
<1>2. place \in Places
  BY DEF Places
<1>3. e \in Shot
  BY <1>1, <1>2, IdleTyped, Zenon DEF Ended, Shot
<1>4. /\ e.at = place /\ e.told = 0 /\ e.in = 0 /\ e.metered = s.metered
      /\ e.before = s.before /\ e.last = s.last /\ e.spent = s.spent
  BY Zenon DEF Ended, Idle
<1> QED
  BY <1>3, <1>4 DEF KnownOf

\* A process that ended keeps its books whatever happens.
LEMMA EndedSound ==
    ASSUME IInv, NEW p \in Procs, NEW place \in {"done", "failed", "lost"},
           UNCHANGED job, shot'[p] = Ended(shot[p], place)
    PROVE  Sound(p)'
<1>1. shot[p] \in Shot
  BY DEF IInv, TypeOK
<1>2. shot'[p].at = place /\ shot'[p].told = 0 /\ shot'[p].in = 0
  BY <1>1, EndedTyped
<1>3. Over * shot'[p].in <= Slack
  BY <1>2, BudgetAssumption, SlackAssumption
<1> QED
  BY <1>2, <1>3 DEF Sound, Placed, Ledgered, InRoom, Open

\* One process moves to a new record.
Moves(p, e) == e \in Shot /\ shot' = [shot EXCEPT ![p] = e] /\ UNCHANGED job

LEMMA Moved ==
    ASSUME IInv, NEW p \in Procs, NEW e, Moves(p, e)
    PROVE  /\ shot' \in [Procs -> Shot] /\ shot'[p] = e
           /\ \A q \in Procs \ {p} : shot'[q] = shot[q]
    BY DEF Moves, IInv, TypeOK

\* The others keep their books when nothing is paid, and when a shot is over.
LEMMA OthersUnpaid ==
    ASSUME IInv, NEW p \in Procs, NEW e, Moves(p, e), Unpaid \/ ShotOver(p)
    PROVE  \A q \in Procs \ {p} : Sound(q)'
<1> SUFFICES ASSUME NEW q \in Procs \ {p} PROVE Sound(q)'
  OBVIOUS
<1>1. /\ balance' = balance /\ paid'[q] = paid[q] /\ fired'[q] = fired[q]
      /\ foreign'[q] = foreign[q] /\ blind'[q] = blind[q]
  BY DEF Unpaid, ShotOver, ghosts, IInv, TypeOK
<1>2. shot'[q] = shot[q] /\ job' = job
  BY Moved DEF Moves
<1>3. Sound(q)
  BY DEF IInv
<1> QED
  BY <1>1, <1>2, <1>3 DEF Sound, InRoom

LEMMA GhostsUnpaid ==
    ASSUME IInv, NEW p \in Procs, Unpaid \/ ShotOver(p)
    PROVE  /\ balance' = balance /\ topUps' = topUps /\ paid' = paid /\ blind' = blind
           /\ fired' \in [Procs -> Nat] /\ foreign' \in [Procs -> Nat]
           /\ ShotOver(p) => fired'[p] = 0 /\ foreign'[p] = 0
           /\ Unpaid => fired' = fired /\ foreign' = foreign
    BY DEF Unpaid, ShotOver, ghosts, IInv, TypeOK

\* A step that pays nothing keeps the invariant when it keeps the books of its own
\* process, what it logs adds up, and it plans no route but a sound one.
LEMMA UnpaidKeeps ==
    ASSUME IInv, NEW p \in Procs, NEW e, Moves(p, e), Unpaid \/ ShotOver(p), Sound(p)',
           Unlogged \/ (log' \in Log /\ ReportAddsUp'),
           \/ UNCHANGED plan /\ (p \in Missions => e.at # "firing")
           \/ /\ plan' \in [Missions -> Plan \cup {NoPlan}]
              /\ \A m \in Missions : Routed(m, shot[m])'
    PROVE  IInv'
<1>1. /\ shot' \in [Procs -> Shot] /\ shot'[p] = e
      /\ \A q \in Procs \ {p} : shot'[q] = shot[q]
  BY Moved
<1>2. job' = job
  BY DEF Moves
<1>3. /\ balance' = balance /\ topUps' = topUps /\ paid' = paid /\ blind' = blind
      /\ fired' \in [Procs -> Nat] /\ foreign' \in [Procs -> Nat]
  BY GhostsUnpaid
<1>4. \A q \in Procs : Sound(q)'
  BY OthersUnpaid
<1>5. log' \in Log /\ ReportAddsUp'
  <2>1. CASE Unlogged
    <3>1. NoLog \in Log
      BY DEF NoLog, Log
    <3>2. log' = NoLog
      BY <2>1 DEF Unlogged
    <3> QED
      BY <3>1, <3>2 DEF ReportAddsUp, NoLog
  <2> QED
    BY <2>1
<1>6. \A q \in Procs :
          shot'[q].at = "firing" => shot'[q].cap > 0 /\ Over * shot'[q].in <= Slack
  BY <1>4 DEF Sound, InRoom
<1>7. /\ plan' \in [Missions -> Plan \cup {NoPlan}]
      /\ \A m \in Missions : Routed(m, shot[m])'
  <2>1. CASE UNCHANGED plan /\ (p \in Missions => e.at # "firing")
    <3>1. plan' \in [Missions -> Plan \cup {NoPlan}]
      BY <2>1 DEF IInv, TypeOK
    <3> SUFFICES ASSUME NEW m \in Missions PROVE Routed(m, shot[m])'
      BY <3>1
    <3>2. shot'[m].at = "firing" => shot'[m] = shot[m]
      BY <1>1, <2>1, JobsTyped
    <3> QED
      BY <1>2, <2>1, <3>2 DEF IInv, Routed
  <2> QED
    BY <2>1
<1>8. TypeOK'
  BY <1>1, <1>2, <1>3, <1>5, <1>6, <1>7 DEF IInv, TypeOK, At
<1> QED
  BY <1>2, <1>4, <1>5, <1>7, <1>8 DEF IInv
-----------------------------------------------------------------------------
(* What a step is to the lock: nothing, a payment, or learning its cost. *)

Quiet ==
    /\ UNCHANGED <<job, paid>>
    /\ \A q \in Procs : /\ KnownOf(q, shot'[q]) = KnownOf(q, shot[q])
                        /\ Due(shot'[q]) <=> Due(shot[q])
                        /\ blind[q] => blind'[q]

Pays(p) ==
    /\ UNCHANGED job
    /\ ~Due(shot[p]) /\ KnownOf(p, shot[p]) < job[p].limit
    /\ \E cost \in 0 .. job[p].limit - KnownOf(p, shot[p]) + Slack :
          paid' = [paid EXCEPT ![p] = @ + cost]
    /\ Due(shot'[p]) /\ KnownOf(p, shot'[p]) = KnownOf(p, shot[p])
    /\ \A q \in Procs \ {p} : shot'[q] = shot[q]
    /\ \A q \in Procs : blind[q] => blind'[q]

Learns(p) ==
    /\ UNCHANGED <<job, paid, blind>>
    /\ Due(shot[p]) /\ ~Due(shot'[p])
    /\ blind'[p] \/ KnownOf(p, shot'[p]) >= paid[p]
    /\ \A q \in Procs \ {p} : shot'[q] = shot[q]

LEMMA QuietMove ==
    ASSUME IInv, NEW p \in Procs, NEW e, Moves(p, e), Unpaid \/ ShotOver(p),
           KnownOf(p, e) = KnownOf(p, shot[p]), Due(e) <=> Due(shot[p])
    PROVE  Quiet
<1>1. /\ shot'[p] = e /\ \A q \in Procs \ {p} : shot'[q] = shot[q]
  BY Moved
<1>2. paid' = paid /\ blind' = blind
  BY GhostsUnpaid
<1> QED
  BY <1>1, <1>2 DEF Quiet, Moves

\* An exception leaves what is due still due.
LEMMA FailKeeps ==
    ASSUME IInv, NEW p \in Procs, Fail(p), UNCHANGED job
    PROVE  LET e == Ended(shot[p], IF At(p, "answered") THEN "lost" ELSE "failed")
           IN  /\ Moves(p, e) /\ ShotOver(p) /\ Sound(p)'
               /\ shot[p].at # "lost" => Quiet
               /\ e.at # "firing"
<1> DEFINE place == IF At(p, "answered") THEN "lost" ELSE "failed"
           e == Ended(shot[p], place)
<1>1. place \in {"done", "failed", "lost"} /\ shot[p] \in Shot
  BY DEF IInv, TypeOK
<1>2. e \in Shot /\ e.at = place /\ KnownOf(p, e) = KnownOf(p, shot[p])
  BY <1>1, EndedTyped
<1>3. shot' = [shot EXCEPT ![p] = e] /\ ShotOver(p)
  BY DEF Fail, End
<1>4. Moves(p, e)
  BY <1>2, <1>3 DEF Moves
<1>5. Sound(p)'
  <2>1. shot'[p] = e
    BY <1>4, Moved
  <2> QED
    BY <1>1, <2>1, EndedSound
<1>6. ASSUME shot[p].at # "lost"
      PROVE  Due(e) <=> Due(shot[p])
  BY <1>2, <1>6 DEF Due, At
<1>7. shot[p].at # "lost" => Quiet
  BY <1>2, <1>3, <1>4, <1>6, QuietMove
<1> QED
  BY <1>2, <1>3, <1>4, <1>5, <1>7

\* A step that fails keeps the invariant, and is nothing to the lock.
LEMMA FailStep ==
    ASSUME IInv, NEW p \in Procs, Fail(p), UNCHANGED <<job, plan>>, Unlogged,
           shot[p].at # "lost"
    PROVE  IInv' /\ Quiet
<1> DEFINE e == Ended(shot[p], IF At(p, "answered") THEN "lost" ELSE "failed")
<1>1. Moves(p, e) /\ ShotOver(p) /\ Sound(p)' /\ Quiet /\ e.at # "firing"
  BY FailKeeps
<1> HIDE DEF e
<1>2. IInv'
  BY <1>1, UnpaidKeeps
<1> QED
  BY <1>1, <1>2

\* A process that is done is done.
LEMMA EndStep ==
    ASSUME IInv, NEW p \in Procs, End(p, "done"), UNCHANGED job,
           Unpaid \/ ShotOver(p), ~Due(shot[p])
    PROVE  /\ Moves(p, Ended(shot[p], "done")) /\ Sound(p)' /\ Quiet
           /\ Ended(shot[p], "done").at # "firing"
<1> DEFINE e == Ended(shot[p], "done")
<1>1. shot[p] \in Shot
  BY DEF IInv, TypeOK
<1>2. e \in Shot /\ e.at = "done" /\ KnownOf(p, e) = KnownOf(p, shot[p])
  BY <1>1, EndedTyped
<1>3. Moves(p, e)
  BY <1>2 DEF Moves, End
<1>4. Sound(p)'
  BY <1>3, Moved, EndedSound
<1>5. Quiet
  BY <1>2, <1>3, QuietMove DEF Due
<1> QED
  BY <1>2, <1>3, <1>4, <1>5
-----------------------------------------------------------------------------
(* VectorCannon.fire *)

LEMMA LoadKeeps ==
    ASSUME IInv, NEW r \in Runners, Load(r)
    PROVE  IInv' /\ Quiet
<1>1. /\ shot[r].at = "idle" /\ UNCHANGED <<job, plan>> /\ Unlogged
      /\ r \in Procs /\ r \notin Missions /\ job[r] \in RunnerJob
  BY JobsTyped DEF Load, At
<1>2. CASE Fail(r)
  BY <1>1, <1>2, FailStep
<1>3. CASE ~Fail(r)
  <2>1. PICK offers \in Catalogs :
            LET offer == offers[job[r].lane]
                metered == job[r].lane \in MeteredLanes
            IN  /\ Priced(offer)
                /\ shot' = [shot EXCEPT ![r] =
                          [Idle EXCEPT !.at = "turn", !.metered = metered,
                                       !.in = InPrice(offer), !.out = OutPrice(offer),
                                       !.before = balance, !.last = balance]]
                /\ Unpaid
    BY <1>3 DEF Load
  <2> DEFINE offer == offers[job[r].lane]
             metered == job[r].lane \in MeteredLanes
             in == InPrice(offer)
             out == OutPrice(offer)
  <2>2. job[r].lane \in Lanes /\ offer \in Offer
    BY <1>1, BudgetAssumption DEF RunnerJob
  <2>3. in \in Nat /\ out \in Nat
    BY <2>1, <2>2, CostTyped
  <2>4. Over * in <= Slack
    BY <2>2, SlackAssumption
  <2>5. metered \in BOOLEAN
    OBVIOUS
  <2> DEFINE e == [Idle EXCEPT !.at = "turn", !.metered = metered, !.in = in, !.out = out,
                               !.before = balance, !.last = balance]
  <2>6. shot' = [shot EXCEPT ![r] = e] /\ Unpaid
    BY <2>1
  <2> HIDE DEF metered, in, out
  <2>7. balance \in Int /\ "turn" \in Places
    BY DEF IInv, TypeOK, Places
  <2>8. e \in Shot
    BY <2>3, <2>5, <2>7, IdleTyped, Zenon DEF Shot
  <2>9. /\ e.at = "turn" /\ e.metered = metered /\ e.in = in /\ e.before = balance
        /\ e.last = balance /\ e.spent = 0 /\ e.told = 0
    BY Zenon DEF Idle
  <2> HIDE DEF e
  <2>10. Moves(r, e)
    BY <1>1, <2>6, <2>8 DEF Moves
  <2>11. shot'[r] = e
    BY <1>1, <2>10, Moved
  <2>12. /\ shot[r] = Idle /\ paid[r] = 0 /\ fired[r] = 0 /\ foreign[r] = 0
    BY <1>1 DEF IInv, Sound, Ledgered
  <2>13. /\ paid'[r] = 0 /\ fired'[r] = 0 /\ foreign'[r] = 0 /\ balance' = balance
    BY <2>6, <2>12 DEF Unpaid, ghosts
  <2>14. Sound(r)'
    <3>1. Placed(r, e)
      BY <1>1, <2>9 DEF Placed
    <3>2. Ledgered(r, e, balance', paid'[r], fired'[r], foreign'[r], blind'[r])
      BY <2>7, <2>9, <2>13 DEF Ledgered
    <3>3. InRoom(r, e, job[r].limit)
      BY <2>4, <2>9 DEF InRoom, in
    <3> QED
      BY <1>1, <2>11, <3>1, <3>2, <3>3 DEF Sound
  <2>15. KnownOf(r, e) = 0 /\ KnownOf(r, shot[r]) = 0
    BY <2>7, <2>9, <2>12, IdleTyped, DeltaTyped DEF KnownOf
  <2>16. Due(e) <=> Due(shot[r])
    BY <1>1, <2>9 DEF Due
  <2>17. IInv'
    BY <1>1, <2>6, <2>10, <2>14, UnpaidKeeps
  <2>18. Quiet
    BY <1>1, <2>6, <2>10, <2>15, <2>16, QuietMove
  <2> QED
    BY <2>17, <2>18
<1> QED
  BY <1>2, <1>3
\* The turn ends the loop, or has room for the request it makes.
Advances(r) ==
    \E e \in Shot :
        /\ shot' = [shot EXCEPT ![r] = e]
        /\ e.at \in {"closing", "firing"}
        /\ e.metered = shot[r].metered /\ e.before = shot[r].before
        /\ e.last = shot[r].last /\ e.spent = shot[r].spent
        /\ e.told = shot[r].told /\ e.in = shot[r].in
        /\ InRoom(r, e, job[r].limit)

LEMMA TurnKeeps ==
    ASSUME IInv, NEW r \in Runners, Turn(r)
    PROVE  IInv' /\ Quiet
<1>1. /\ shot[r].at = "turn" /\ UNCHANGED <<job, plan>> /\ Unlogged /\ Unpaid
      /\ r \in Procs /\ r \notin Missions /\ job[r] \in RunnerJob
      /\ job[r].limit \in Nat \ {0} /\ shot[r] \in Shot
  BY JobsTyped DEF Turn, At, IInv, TypeOK
<1> DEFINE s == shot[r]
<1>2. Advances(r)
  <2>1. /\ s.in \in Nat /\ s.out \in Nat /\ s.est \in Nat /\ Over * s.in <= Slack
        /\ KnownOf(r, s) \in Nat
    BY <1>1, ShotTyped, KnownTyped DEF IInv, Sound, InRoom
  <2>2. ASSUME shot' = [shot EXCEPT ![r] = [s EXCEPT !.at = "closing"]]
        PROVE  Advances(r)
    <3> DEFINE e == [s EXCEPT !.at = "closing"]
    <3>1. e \in Shot
      BY <1>1, Zenon DEF Shot, Places
    <3>2. /\ e.at = "closing" /\ e.metered = s.metered /\ e.before = s.before
          /\ e.last = s.last /\ e.spent = s.spent /\ e.told = s.told /\ e.in = s.in
      BY <1>1, Zenon DEF Shot
    <3>3. shot' = [shot EXCEPT ![r] = e]
      BY <2>2
    <3> HIDE DEF e
    <3>4. InRoom(r, e, job[r].limit)
      BY <2>1, <3>2 DEF InRoom
    <3> QED
      BY <3>1, <3>2, <3>3, <3>4 DEF Advances
  <2>3. CASE shot' = [shot EXCEPT ![r].at = "closing"]
    BY <2>2, <2>3
  <2>4. CASE shot' # [shot EXCEPT ![r].at = "closing"]
    <3>1. PICK est \in {x \in Estimates : x >= s.est} :
              /\ Remaining(r) > 0
              /\ shot' = [shot EXCEPT ![r] =
                     IF Blocked(Remaining(r), est, s.in, s.out)
                     THEN [s EXCEPT !.at = "closing"]
                     ELSE [s EXCEPT !.at = "firing", !.est = est,
                                    !.cap = Cap(job[r].out, Remaining(r), est, s.in, s.out)]]
      BY <2>4 DEF Turn
    <3>2. CASE Blocked(Remaining(r), est, s.in, s.out)
      BY <2>2, <3>1, <3>2
    <3>3. CASE ~Blocked(Remaining(r), est, s.in, s.out)
      <4> DEFINE cap == Cap(job[r].out, Remaining(r), est, s.in, s.out)
                 e == [s EXCEPT !.at = "firing", !.est = est, !.cap = cap]
      <4>1. est \in Nat /\ job[r].out \in Nat \ {0}
        BY <1>1, BudgetAssumption DEF RunnerJob
      <4>2. Remaining(r) = job[r].limit - KnownOf(r, s) /\ Remaining(r) \in Int
        BY <1>1, <2>1 DEF Remaining, Known, KnownOf
      <4>3. cap \in Nat /\ cap > 0 /\ est * s.in + cap * s.out <= Remaining(r)
        BY <2>1, <3>3, <4>1, <4>2, CapHasRoom
      <4>4. shot' = [shot EXCEPT ![r] = e]
        BY <3>1, <3>3
      <4> HIDE DEF cap
      <4>5. e \in Shot
        BY <1>1, <4>1, <4>3, Zenon DEF Shot, Places
      <4>6. /\ e.at = "firing" /\ e.metered = s.metered /\ e.before = s.before
            /\ e.last = s.last /\ e.spent = s.spent /\ e.told = s.told
            /\ e.in = s.in /\ e.out = s.out /\ e.est = est /\ e.cap = cap
        BY <1>1, Zenon DEF Shot
      <4> HIDE DEF e
      <4>7. KnownOf(r, e) = KnownOf(r, s)
        BY <4>6 DEF KnownOf
      <4>8. KnownOf(r, s) < job[r].limit
        BY <1>1, <2>1, <3>1, <4>2
      <4>9. InRoom(r, e, job[r].limit)
        BY <2>1, <4>2, <4>3, <4>6, <4>7, <4>8 DEF InRoom
      <4> QED
        BY <4>4, <4>5, <4>6, <4>9 DEF Advances
    <3> QED
      BY <3>2, <3>3
  <2> QED
    BY <2>3, <2>4
<1>3. PICK e \in Shot :
          /\ shot' = [shot EXCEPT ![r] = e]
          /\ e.at \in {"closing", "firing"}
          /\ e.metered = s.metered /\ e.before = s.before /\ e.last = s.last
          /\ e.spent = s.spent /\ e.told = s.told /\ e.in = s.in
          /\ InRoom(r, e, job[r].limit)
  BY <1>2 DEF Advances
<1>4. Moves(r, e)
  BY <1>1, <1>3 DEF Moves
<1>5. shot'[r] = e
  BY <1>1, <1>4, Moved
<1>6. KnownOf(r, e) = KnownOf(r, s) /\ (Due(e) <=> Due(s))
  BY <1>1, <1>3 DEF KnownOf, Due
<1>7. Sound(r)'
  <2>1. Placed(r, e)
    BY <1>1, <1>3 DEF Placed
  <2>2. /\ balance' = balance /\ paid'[r] = paid[r] /\ fired'[r] = fired[r]
        /\ foreign'[r] = foreign[r] /\ blind'[r] = blind[r]
    BY <1>1 DEF Unpaid, ghosts
  <2>3. Ledgered(r, s, balance, paid[r], fired[r], foreign[r], blind[r])
    BY <1>1 DEF IInv, Sound
  <2>4. s.at = "turn" /\ s.told = 0
    BY <1>1, <2>3 DEF Ledgered
  <2>5. Ledgered(r, e, balance', paid'[r], fired'[r], foreign'[r], blind'[r])
    BY <1>3, <2>2, <2>3, <2>4 DEF Ledgered, Open
  <2> QED
    BY <1>1, <1>3, <1>5, <2>1, <2>5 DEF Sound
<1>8. IInv'
  BY <1>1, <1>4, <1>7, UnpaidKeeps
<1>9. Quiet
  BY <1>1, <1>4, <1>6, QuietMove
<1> QED
  BY <1>8, <1>9

\* The response is accounted for: by what it told, or by a reading of the meter,
\* which has lost what this shot paid and perhaps what others did.
LEMMA AccountKeeps ==
    ASSUME IInv, NEW r \in Runners, Account(r)
    PROVE  IInv' /\ (Quiet \/ Learns(r))
<1>1. /\ shot[r].at = "answered" /\ UNCHANGED <<job, plan>> /\ Unlogged
      /\ r \in Procs /\ r \notin Missions /\ shot[r] \in Shot
  BY JobsTyped DEF Account, At, IInv, TypeOK
<1>2. CASE shot[r].choice = "none"
  BY <1>1, <1>2, FailStep DEF Account
<1>3. CASE shot[r].choice # "none"
  <2> DEFINE s == shot[r]
             spent == IF s.metered THEN s.spent ELSE s.spent + s.told
             counted == [s EXCEPT !.spent = spent]
             last == IF s.metered THEN balance ELSE s.last
             at == IF s.choice = "tools" THEN "turn" ELSE "closing"
             e == [counted EXCEPT !.last = last, !.n = s.n + 1, !.told = 0,
                                  !.choice = "none", !.at = at]
  <2>1. /\ s.metered \in BOOLEAN /\ s.spent \in Nat /\ s.told \in Nat /\ s.n \in Nat
        /\ s.before \in Int /\ s.last \in Int /\ balance \in Int
        /\ paid[r] \in Nat /\ fired[r] \in Nat /\ foreign[r] \in Nat
    BY <1>1, ShotTyped DEF IInv, TypeOK
  <2>2. spent \in Nat /\ last \in Int /\ s.n + 1 \in Nat /\ at \in Places
    BY <2>1 DEF Places
  <2>3. shot' = [shot EXCEPT ![r] = e] /\ Unpaid
    <3>1. counted = [s EXCEPT !.spent = IF s.metered THEN @ ELSE @ + s.told]
      OBVIOUS
    <3> HIDE DEF counted
    <3>2. counted.last = s.last /\ counted.n = s.n
      BY <1>1, Zenon DEF counted, Shot
    <3> QED
      BY <1>3, <3>1, <3>2 DEF Account
  <2> HIDE DEF spent, last, at
  <2>4. counted \in Shot
    BY <1>1, <2>2, Zenon DEF Shot
  <2>5. /\ counted.metered = s.metered /\ counted.before = s.before
        /\ counted.spent = spent /\ counted.in = s.in
    BY <1>1, Zenon DEF Shot
  <2> HIDE DEF counted
  <2>6. e \in Shot
    BY <2>2, <2>4, Zenon DEF Shot
  <2>7. /\ e.at = at /\ e.metered = s.metered /\ e.before = s.before /\ e.last = last
        /\ e.spent = spent /\ e.told = 0 /\ e.in = s.in
    BY <2>4, <2>5, Zenon DEF Shot
  <2> HIDE DEF e
  <2>8. Moves(r, e)
    BY <1>1, <2>3, <2>6 DEF Moves
  <2>9. shot'[r] = e /\ \A q \in Procs \ {r} : shot'[q] = shot[q]
    BY <1>1, <2>8, Moved
  <2>10. /\ balance' = balance /\ paid' = paid /\ fired'[r] = fired[r]
         /\ foreign'[r] = foreign[r] /\ blind' = blind
    BY <2>3 DEF Unpaid, ghosts
  <2>11. ~blind[r] =>
             /\ s.metered => s.before - balance = fired[r] + foreign[r]
             /\ ~s.metered => fired[r] = s.told + s.spent
             /\ paid[r] <= fired[r]
    BY <1>1, <2>1 DEF IInv, Sound, Ledgered, Open
  <2>12. at \in {"turn", "closing"}
    BY DEF at
  <2>13. Sound(r)'
    <3>1. Placed(r, e)
      BY <1>1, <2>7, <2>12 DEF Placed
    <3>2. ~blind[r] /\ ~s.metered => fired[r] = 0 + spent
      BY <2>1, <2>11 DEF spent
    <3>3. Ledgered(r, e, balance', paid'[r], fired'[r], foreign'[r], blind'[r])
      BY <2>1, <2>7, <2>10, <2>11, <2>12, <3>2 DEF Ledgered
    <3>4. InRoom(r, e, job[r].limit)
      BY <1>1, <2>7, <2>12 DEF InRoom, IInv, Sound
    <3> QED
      BY <1>1, <2>9, <3>1, <3>3, <3>4 DEF Sound
  <2>14. IInv'
    BY <1>1, <2>3, <2>8, <2>13, UnpaidKeeps
  <2>15. ~blind[r] => KnownOf(r, e) >= paid[r]
    <3>1. CASE s.metered
      <4>1. KnownOf(r, e) = CreditDelta(s.before, balance)
        BY <1>1, <2>7, <3>1 DEF KnownOf, last
      <4>2. CreditDelta(s.before, balance) \in Nat
            /\ CreditDelta(s.before, balance) >= s.before - balance
        BY <2>1, DeltaTyped
      <4> QED
        BY <2>1, <2>11, <3>1, <4>1, <4>2
    <3>2. CASE ~s.metered
      BY <2>1, <2>7, <2>11, <3>2 DEF KnownOf, spent
    <3> QED
      BY <3>1, <3>2
  <2>16. Due(s) /\ ~Due(e)
    BY <1>1, <2>7, <2>12 DEF Due
  <2>17. Learns(r)
    BY <1>1, <2>9, <2>10, <2>15, <2>16 DEF Learns
  <2> QED
    BY <2>14, <2>17
<1> QED
  BY <1>2, <1>3
\* The last reading of the meter, or what the responses told, is what the log
\* says; it accounts for what the shot paid.
LEMMA CloseKeeps ==
    ASSUME IInv, NEW r \in Runners, Close(r)
    PROVE  IInv' /\ Quiet
<1>1. /\ shot[r].at = "closing" /\ UNCHANGED <<job, plan>> /\ Logged(r, RunnerCost(r))
      /\ End(r, "done") /\ r \in Procs /\ r \notin Missions /\ shot[r] \in Shot
  BY JobsTyped DEF Close, At, IInv, TypeOK
<1> DEFINE s == shot[r]
           e == Ended(s, "done")
<1>2. ShotOver(r) /\ log' = Entry(r, RunnerCost(r))
  BY <1>1 DEF Logged
<1>3. Moves(r, e) /\ Sound(r)' /\ Quiet /\ e.at # "firing"
  BY <1>1, <1>2, EndStep DEF Due
<1>4. /\ s.metered \in BOOLEAN /\ s.spent \in Nat /\ s.before \in Int /\ balance \in Int
      /\ fired[r] \in Nat /\ foreign[r] \in Nat /\ blind[r] \in BOOLEAN
  BY <1>1, ShotTyped DEF IInv, TypeOK
<1>5. s.metered => RunnerCost(r) = CreditDelta(s.before, balance)
  BY DEF RunnerCost
<1>6. ~s.metered => RunnerCost(r) = s.spent
  BY DEF RunnerCost
<1>7. /\ CreditDelta(s.before, balance) \in Nat
      /\ s.before - balance >= 0 => CreditDelta(s.before, balance) = s.before - balance
  BY <1>4, DeltaTyped
<1>8. RunnerCost(r) \in Nat
  BY <1>4, <1>5, <1>6, <1>7
<1>9. ~blind[r] =>
          /\ s.metered => s.before - balance = fired[r] + foreign[r]
          /\ ~s.metered => fired[r] = 0 + s.spent
  BY <1>1, <1>4 DEF IInv, Sound, Ledgered, Open
<1>10. ~blind[r] /\ s.metered => RunnerCost(r) = fired[r] + foreign[r]
  BY <1>4, <1>5, <1>7, <1>9
<1>11. ~blind[r] /\ ~s.metered => RunnerCost(r) = fired[r]
  BY <1>4, <1>6, <1>9
<1>12. log' = [observed |-> RunnerCost(r), fired |-> fired[r], foreign |-> foreign[r],
               metered |-> s.metered, blind |-> blind[r]]
  BY <1>2 DEF Entry
<1>13. log' \in Log
  BY <1>4, <1>8, <1>12 DEF Log
<1>14. ReportAddsUp'
  <2>1. /\ log'.observed = RunnerCost(r) /\ log'.fired = fired[r]
        /\ log'.foreign = foreign[r] /\ log'.metered = s.metered /\ log'.blind = blind[r]
    BY <1>12
  <2>2. CASE blind[r]
    BY <2>1, <2>2 DEF ReportAddsUp
  <2>3. CASE ~blind[r] /\ s.metered
    BY <1>10, <2>1, <2>3 DEF ReportAddsUp
  <2>4. CASE ~blind[r] /\ ~s.metered
    BY <1>4, <1>11, <2>1, <2>4 DEF ReportAddsUp
  <2> QED
    BY <2>2, <2>3, <2>4
<1> HIDE DEF e
<1>15. IInv'
  BY <1>1, <1>2, <1>3, <1>13, <1>14, UnpaidKeeps
<1> QED
  BY <1>3, <1>15
-----------------------------------------------------------------------------
(* Orchestrator.run *)

LEMMA BeginKeeps ==
    ASSUME IInv, NEW m \in Missions, Begin(m)
    PROVE  IInv' /\ Quiet
<1>1. /\ shot[m].at = "idle" /\ UNCHANGED <<job, plan>> /\ Unlogged
      /\ m \in Procs /\ m \notin Runners /\ shot[m] \in Shot
  BY JobsTyped DEF Begin, At, IInv, TypeOK
<1>2. CASE Fail(m)
  BY <1>1, <1>2, FailStep
<1>3. CASE ~Fail(m)
  <2> DEFINE s == shot[m]
             e == [s EXCEPT !.at = "stage"]
  <2>1. shot' = [shot EXCEPT ![m] = e] /\ Unpaid
    BY <1>3 DEF Begin
  <2>2. e \in Shot
    BY <1>1, Zenon DEF Shot, Places
  <2>3. /\ e.at = "stage" /\ e.metered = s.metered /\ e.before = s.before
        /\ e.last = s.last /\ e.spent = s.spent /\ e.told = s.told /\ e.in = s.in
    BY <1>1, Zenon DEF Shot
  <2> HIDE DEF e
  <2>4. Moves(m, e)
    BY <1>1, <2>1, <2>2 DEF Moves
  <2>5. shot'[m] = e
    BY <1>1, <2>4, Moved
  <2>6. KnownOf(m, e) = KnownOf(m, s) /\ (Due(e) <=> Due(s))
    BY <1>1, <2>3 DEF KnownOf, Due
  <2>7. Sound(m)'
    <3>1. /\ balance' = balance /\ paid'[m] = paid[m] /\ fired'[m] = fired[m]
          /\ foreign'[m] = foreign[m] /\ blind'[m] = blind[m]
      BY <2>1 DEF Unpaid, ghosts
    <3>2. Ledgered(m, s, balance, paid[m], fired[m], foreign[m], blind[m])
      BY <1>1 DEF IInv, Sound
    <3>3. s.told = 0 /\ s.spent = 0 /\ s.metered = FALSE /\ fired[m] = 0 /\ foreign[m] = 0
          /\ paid[m] = 0
      BY <1>1, <3>2, IdleTyped DEF Ledgered
    <3>4. Ledgered(m, e, balance', paid'[m], fired'[m], foreign'[m], blind'[m])
      BY <1>1, <2>3, <3>1, <3>3 DEF Ledgered
    <3>5. Placed(m, e) /\ InRoom(m, e, job[m].limit)
      BY <1>1, <2>3 DEF Placed, InRoom, IInv, Sound
    <3> QED
      BY <1>1, <2>5, <3>4, <3>5 DEF Sound
  <2>8. IInv'
    BY <1>1, <2>1, <2>3, <2>4, <2>7, UnpaidKeeps
  <2>9. Quiet
    BY <1>1, <2>1, <2>4, <2>6, QuietMove
  <2> QED
    BY <2>8, <2>9
<1> QED
  BY <1>2, <1>3

LEMMA MissionOverKeeps ==
    ASSUME IInv, NEW m \in Missions, MissionOver(m)
    PROVE  IInv' /\ Quiet
<1>1. /\ shot[m].at = "stage" /\ UNCHANGED <<job, plan>> /\ Unlogged /\ Unpaid
      /\ End(m, "done") /\ m \in Procs
  BY JobsTyped DEF MissionOver, At
<1> DEFINE e == Ended(shot[m], "done")
<1>2. Moves(m, e) /\ Sound(m)' /\ Quiet /\ e.at # "firing"
  BY <1>1, EndStep DEF Due
<1> HIDE DEF e
<1>3. IInv'
  BY <1>1, <1>2, UnpaidKeeps
<1> QED
  BY <1>2, <1>3

\* What a stage is, and the budget it is planned with.
LEMMA StageTyped ==
    ASSUME NEW S, NEW s \in Seq(S), NEW i \in Nat, i < Len(s)
    PROVE  s[i + 1] \in S
    OBVIOUS

LEMMA StageBudgetTyped ==
    ASSUME IInv, NEW m \in Missions, shot[m].n < Len(job[m].stages),
           shot[m].spent < job[m].limit
    PROVE  LET stage == job[m].stages[shot[m].n + 1]
           IN  /\ stage.goal \in Goals /\ stage.out \in Nat \ {0}
               /\ StageBudget(m) \in Nat \ {0}
               /\ StageBudget(m) <= job[m].limit - shot[m].spent
<1>1. /\ job[m] \in MissionJob /\ m \in Procs /\ shot[m] \in Shot
      /\ job[m].limit \in Nat \ {0}
  BY JobsTyped DEF IInv, TypeOK
<1>2. shot[m].n \in Nat /\ shot[m].spent \in Nat /\ job[m].stages \in Seq(Stage)
  BY <1>1, ShotTyped DEF MissionJob
<1>3. job[m].stages[shot[m].n + 1] \in Stage
  BY <1>2, StageTyped
<1> DEFINE stage == job[m].stages[shot[m].n + 1]
           rest == job[m].limit - shot[m].spent
<1>4. /\ stage.goal \in Goals /\ stage.out \in Nat \ {0} /\ stage.budget \in Nat \ {0}
  BY <1>3 DEF Stage
<1>5. rest \in Nat \ {0}
  BY <1>1, <1>2
<1>6. StageBudget(m) = Smaller(stage.budget, rest)
  BY DEF StageBudget
<1> DEFINE most == stage.budget
<1> HIDE DEF rest, most
<1>7. StageBudget(m) \in Nat \ {0} /\ StageBudget(m) <= rest
  <2>1. most \in Nat \ {0}
    BY <1>4 DEF most
  <2>2. StageBudget(m) = IF most < rest THEN most ELSE rest
    BY <1>6 DEF most, Smaller
  <2> QED
    BY <1>5, <2>1, <2>2
<1> QED
  BY <1>4, <1>7 DEF rest

\* A stage is planned, and its winner fired when the preflight lets it through.
LEMMA FireStageKeeps ==
    ASSUME IInv, NEW m \in Missions, FireStage(m)
    PROVE  IInv' /\ Quiet
<1> DEFINE s == shot[m]
           stage == job[m].stages[s.n + 1]
           budget == StageBudget(m)
<1>1. /\ s.at = "stage" /\ UNCHANGED job /\ Unlogged
      /\ s.n < Len(job[m].stages) /\ s.spent < job[m].limit
      /\ m \in Procs /\ m \notin Runners /\ s \in Shot
  BY JobsTyped DEF FireStage, At, IInv, TypeOK
<1>2. /\ stage.goal \in Goals /\ stage.out \in Nat \ {0}
      /\ budget \in Nat \ {0} /\ budget <= job[m].limit - s.spent
  BY <1>1, StageBudgetTyped
<1>3. PICK offers \in Catalogs, est \in Estimates :
          IF Eligible(offers, budget, stage.out) = {}
          THEN Fail(m) /\ UNCHANGED plan
          ELSE LET route == Planned(stage, offers, budget)
               IN  plan' = [plan EXCEPT ![m] = route] /\ FireDirect(m, route, est)
  BY DEF FireStage
<1>4. CASE Eligible(offers, budget, stage.out) = {}
  BY <1>1, <1>3, <1>4, FailStep
<1>5. CASE Eligible(offers, budget, stage.out) # {}
  <2> DEFINE winner == Winner(stage.goal, offers, budget, stage.out)
             route == [goal |-> stage.goal, offers |-> offers, budget |-> budget,
                       out |-> stage.out, winner |-> winner]
  <2>1. plan' = [plan EXCEPT ![m] = route] /\ FireDirect(m, route, est)
    BY <1>3, <1>5 DEF Planned
  <2>2. offers \in [Lanes -> Offer] /\ stage.out \in Nat
    BY <1>2, BudgetAssumption
  <2>3. winner \in Lanes
    BY <1>2, <1>5, <2>2, WinnerLeads
  <2>4. route \in Plan
    BY <1>2, <2>3 DEF Plan
  <2>5. /\ route.goal = stage.goal /\ route.offers = offers /\ route.budget = budget
        /\ route.out = stage.out /\ route.winner = winner
    OBVIOUS
  <2> HIDE DEF route, winner
  <2>6. plan' \in [Missions -> Plan \cup {NoPlan}] /\ plan'[m] = route
        /\ \A q \in Missions \ {m} : plan'[q] = plan[q]
    BY <2>1, <2>4 DEF IInv, TypeOK
  <2>7. ASSUME NEW e, Moves(m, e), e.at = "firing" => e.spent = s.spent
        PROVE  \A q \in Missions : Routed(q, shot[q])'
    <3>1. shot'[m] = e /\ \A q \in Procs \ {m} : shot'[q] = shot[q]
      BY <1>1, <2>7, Moved
    <3>2. ASSUME NEW q \in Missions, q # m
          PROVE  Routed(q, shot[q])'
      BY <1>1, <2>6, <3>1, <3>2, JobsTyped DEF IInv, Routed
    <3>3. Routed(m, shot[m])'
      <4>1. Eligible(route.offers, route.budget, route.out) # {}
        BY <1>5, <2>5
      <4>2. route.winner = Winner(route.goal, route.offers, route.budget, route.out)
        BY <2>5 DEF winner
      <4>3. e.at = "firing" => route.budget <= job[m].limit - e.spent
        BY <1>2, <2>5, <2>7
      <4> QED
        BY <1>1, <2>6, <3>1, <4>1, <4>2, <4>3 DEF Routed
    <3> QED
      BY <3>2, <3>3
  <2>8. CASE Fail(m)
    <3> DEFINE e == Ended(s, IF At(m, "answered") THEN "lost" ELSE "failed")
    <3>1. Moves(m, e) /\ ShotOver(m) /\ Sound(m)' /\ Quiet /\ e.at # "firing"
      BY <1>1, <2>8, FailKeeps
    <3> HIDE DEF e
    <3>2. IInv'
      BY <1>1, <2>6, <2>7, <3>1, UnpaidKeeps
    <3> QED
      BY <3>1, <3>2
  <2>9. CASE ~Fail(m)
    <3> DEFINE offer == offers[winner]
               in == InPrice(offer)
               out == OutPrice(offer)
               metered == winner \in MeteredLanes
               cap == Cap(stage.out, budget, est, in, out)
               e == [s EXCEPT !.at = "firing", !.metered = metered, !.in = in,
                              !.out = out, !.before = balance, !.est = est, !.cap = cap]
    <3>1. /\ Priced(offer) /\ ~Blocked(budget, est, in, out)
          /\ shot' = [shot EXCEPT ![m] = e] /\ Unpaid
      BY <2>1, <2>5, <2>9 DEF FireDirect
    <3>2. offer \in Offer
      BY <2>2, <2>3
    <3>3. in \in Nat /\ out \in Nat /\ Over * in <= Slack
      BY <2>2, <2>3, <3>1, <3>2, CostTyped, SlackAssumption
    <3>4. est \in Nat /\ budget \in Int /\ stage.out \in Nat \ {0}
      BY <1>2, BudgetAssumption
    <3> HIDE DEF in, out
    <3>5. cap \in Nat /\ cap > 0 /\ est * in + cap * out <= budget
      BY <3>1, <3>3, <3>4, CapHasRoom
    <3>6. metered \in BOOLEAN /\ balance \in Int
      BY DEF IInv, TypeOK
    <3> HIDE DEF cap, metered
    <3>7. e \in Shot
      BY <1>1, <3>3, <3>4, <3>5, <3>6, Zenon DEF Shot, Places
    <3>8. /\ e.at = "firing" /\ e.metered = metered /\ e.in = in /\ e.out = out
          /\ e.before = balance /\ e.est = est /\ e.cap = cap /\ e.spent = s.spent
          /\ e.told = s.told
      BY <1>1, Zenon DEF Shot
    <3> HIDE DEF e
    <3>9. Moves(m, e)
      BY <1>1, <3>1, <3>7 DEF Moves
    <3>10. shot'[m] = e
      BY <1>1, <3>9, Moved
    <3>11. KnownOf(m, e) = s.spent /\ KnownOf(m, s) = s.spent
      BY <1>1, <3>8 DEF KnownOf
    <3>12. Due(e) <=> Due(s)
      BY <1>1, <3>8 DEF Due
    <3>13. Sound(m)'
      <4>1. /\ balance' = balance /\ paid'[m] = paid[m] /\ fired'[m] = fired[m]
            /\ foreign'[m] = foreign[m] /\ blind'[m] = blind[m]
        BY <3>1 DEF Unpaid, ghosts
      <4>2. Ledgered(m, s, balance, paid[m], fired[m], foreign[m], blind[m])
        BY <1>1 DEF IInv, Sound
      <4>3. /\ s.told = 0 /\ fired[m] = 0 /\ foreign[m] = 0
            /\ ~blind[m] => paid[m] <= fired[m] + s.spent
        BY <1>1, <4>2 DEF Ledgered, Open
      <4>4. Ledgered(m, e, balance', paid'[m], fired'[m], foreign'[m], blind'[m])
        BY <1>1, <3>6, <3>8, <4>1, <4>3 DEF Ledgered
      <4>5. Placed(m, e)
        BY <1>1, <3>8 DEF Placed
      <4>6. est * in + cap * out \in Int
        BY <3>3, <3>4, <3>5
      <4>7. est * in + cap * out <= job[m].limit - s.spent
        BY <1>1, <1>2, <3>5, <4>6, ShotTyped, JobsTyped
      <4>8. InRoom(m, e, job[m].limit)
        BY <1>1, <3>3, <3>5, <3>8, <3>11, <4>7 DEF InRoom
      <4> QED
        BY <1>1, <3>10, <4>4, <4>5, <4>8 DEF Sound
    <3>14. \A q \in Missions : Routed(q, shot[q])'
      BY <2>7, <3>8, <3>9
    <3>15. IInv'
      BY <1>1, <2>6, <3>1, <3>9, <3>13, <3>14, UnpaidKeeps
    <3>16. Quiet
      BY <1>1, <3>1, <3>9, <3>11, <3>12, QuietMove
    <3> QED
      BY <3>15, <3>16
  <2> QED
    BY <2>8, <2>9
<1> QED
  BY <1>4, <1>5
\* The response of a stage is accounted for, logged, and added to the total.
LEMMA ConcludeKeeps ==
    ASSUME IInv, NEW m \in Missions, Conclude(m)
    PROVE  IInv' /\ (Quiet \/ Learns(m))
<1> DEFINE s == shot[m]
<1>1. /\ s.at = "answered" /\ UNCHANGED job /\ plan' = [plan EXCEPT ![m] = NoPlan]
      /\ m \in Procs /\ m \notin Runners /\ s \in Shot
  BY JobsTyped DEF Conclude, At, IInv, TypeOK
<1>2. plan' \in [Missions -> Plan \cup {NoPlan}] /\ plan'[m] = NoPlan
      /\ \A q \in Missions \ {m} : plan'[q] = plan[q]
  BY <1>1 DEF IInv, TypeOK
<1>3. ASSUME NEW e, Moves(m, e)
      PROVE  \A q \in Missions : Routed(q, shot[q])'
  <2>1. \A q \in Procs \ {m} : shot'[q] = shot[q]
    BY <1>1, <1>3, Moved
  <2>2. ASSUME NEW q \in Missions, q # m
        PROVE  Routed(q, shot[q])'
    BY <1>1, <1>2, <2>1, <2>2, JobsTyped DEF IInv, Routed
  <2>3. Routed(m, shot[m])'
    BY <1>2 DEF Routed
  <2> QED
    BY <2>2, <2>3
<1>4. CASE s.choice = "none"
  <2> DEFINE e == Ended(s, IF At(m, "answered") THEN "lost" ELSE "failed")
  <2>1. Fail(m) /\ Unlogged
    BY <1>4 DEF Conclude
  <2>2. Moves(m, e) /\ ShotOver(m) /\ Sound(m)' /\ Quiet /\ e.at # "firing"
    BY <1>1, <2>1, FailKeeps
  <2> HIDE DEF e
  <2>3. \A q \in Missions : Routed(q, shot[q])'
    BY <1>3, <2>2
  <2>4. IInv'
    BY <1>1, <1>2, <2>1, <2>2, <2>3, UnpaidKeeps
  <2> QED
    BY <2>2, <2>4
<1>5. CASE s.choice # "none"
  <2> DEFINE cost == DirectCost(m)
             e == [Idle EXCEPT !.spent = s.spent + cost, !.n = s.n + 1, !.at = "stage"]
  <2>1. /\ shot' = [shot EXCEPT ![m] = e] /\ ShotOver(m) /\ log' = Entry(m, cost)
    BY <1>5 DEF Conclude, Logged
  <2>2. /\ s.metered \in BOOLEAN /\ s.spent \in Nat /\ s.told \in Nat /\ s.n \in Nat
        /\ s.before \in Int /\ balance \in Int
        /\ fired[m] \in Nat /\ foreign[m] \in Nat /\ paid[m] \in Nat
        /\ blind[m] \in BOOLEAN
    BY <1>1, ShotTyped DEF IInv, TypeOK
  <2>3. /\ s.metered => cost = CreditDelta(s.before, balance)
        /\ ~s.metered => cost = s.told
    BY DEF DirectCost
  <2>4. /\ CreditDelta(s.before, balance) \in Nat
        /\ s.before - balance >= 0 => CreditDelta(s.before, balance) = s.before - balance
    BY <2>2, DeltaTyped
  <2>5. ~blind[m] =>
            /\ s.metered => s.before - balance = fired[m] + foreign[m]
            /\ ~s.metered => fired[m] = s.told
            /\ paid[m] <= fired[m] + s.spent
    BY <1>1, <2>2 DEF IInv, Sound, Ledgered, Open
  <2> HIDE DEF cost
  <2>6. cost \in Nat
    BY <2>2, <2>3, <2>4
  <2>7. ~blind[m] /\ s.metered => cost = fired[m] + foreign[m]
    BY <2>2, <2>3, <2>4, <2>5
  <2>8. ~blind[m] /\ ~s.metered => cost = fired[m]
    BY <2>2, <2>3, <2>5
  <2>9. ~blind[m] => paid[m] <= s.spent + cost
    <3>1. CASE s.metered
      BY <2>2, <2>5, <2>6, <2>7, <3>1
    <3>2. CASE ~s.metered
      BY <2>2, <2>5, <2>6, <2>8, <3>2
    <3> QED
      BY <3>1, <3>2
  <2>10. s.spent + cost \in Nat /\ s.n + 1 \in Nat
    BY <2>2, <2>6
  <2>11. e \in Shot
    BY <2>10, IdleTyped, Zenon DEF Shot, Places
  <2>12. /\ e.at = "stage" /\ e.spent = s.spent + cost /\ e.metered = FALSE
         /\ e.told = 0 /\ e.in = 0
    BY Zenon DEF Idle
  <2> HIDE DEF e
  <2>13. Moves(m, e)
    BY <1>1, <2>1, <2>11 DEF Moves
  <2>14. shot'[m] = e /\ \A q \in Procs \ {m} : shot'[q] = shot[q]
    BY <1>1, <2>13, Moved
  <2>15. /\ balance' = balance /\ paid' = paid /\ blind' = blind
         /\ fired'[m] = 0 /\ foreign'[m] = 0
    BY <1>1, <2>1, GhostsUnpaid
  <2>16. Sound(m)'
    <3>1. Placed(m, e)
      BY <1>1, <2>12 DEF Placed
    <3>2. Ledgered(m, e, balance', paid'[m], fired'[m], foreign'[m], blind'[m])
      BY <1>1, <2>9, <2>10, <2>12, <2>15 DEF Ledgered
    <3>3. InRoom(m, e, job[m].limit)
      BY <2>12, BudgetAssumption, SlackAssumption DEF InRoom
    <3> QED
      BY <1>1, <2>14, <3>1, <3>2, <3>3 DEF Sound
  <2>17. log' = [observed |-> cost, fired |-> fired[m], foreign |-> foreign[m],
                 metered |-> s.metered, blind |-> blind[m]]
    BY <2>1 DEF Entry
  <2>18. log' \in Log
    BY <2>2, <2>6, <2>17 DEF Log
  <2>19. ReportAddsUp'
    <3>1. /\ log'.observed = cost /\ log'.fired = fired[m] /\ log'.foreign = foreign[m]
          /\ log'.metered = s.metered /\ log'.blind = blind[m]
      BY <2>17
    <3>2. CASE blind[m]
      BY <3>1, <3>2 DEF ReportAddsUp
    <3>3. CASE ~blind[m] /\ s.metered
      BY <2>7, <3>1, <3>3 DEF ReportAddsUp
    <3>4. CASE ~blind[m] /\ ~s.metered
      BY <2>2, <2>8, <3>1, <3>4 DEF ReportAddsUp
    <3> QED
      BY <3>2, <3>3, <3>4
  <2>20. \A q \in Missions : Routed(q, shot[q])'
    BY <1>3, <2>13
  <2>21. IInv'
    BY <1>1, <1>2, <2>1, <2>13, <2>16, <2>18, <2>19, <2>20, UnpaidKeeps
  <2>22. KnownOf(m, e) = s.spent + cost /\ Due(s) /\ ~Due(e)
    BY <1>1, <2>12 DEF KnownOf, Due
  <2>23. Learns(m)
    BY <1>1, <2>2, <2>9, <2>10, <2>14, <2>15, <2>22 DEF Learns
  <2> QED
    BY <2>21, <2>23
<1> QED
  BY <1>4, <1>5
-----------------------------------------------------------------------------
(* The providers *)

\* A charge that its own process can account for keeps the invariant: the other
\* processes that are between two readings see it as foreign.
LEMMA ChargeKeeps ==
    ASSUME IInv, NEW p \in Procs, NEW e, Moves(p, e), NEW cost \in Nat, Charge(p, cost),
           Sound(p)', Unlogged, UNCHANGED plan, e.at # "firing",
           blind' \in [Procs -> BOOLEAN], \A q \in Procs \ {p} : blind'[q] = blind[q]
    PROVE  IInv'
<1>1. /\ shot' \in [Procs -> Shot] /\ shot'[p] = e
      /\ \A q \in Procs \ {p} : shot'[q] = shot[q]
  BY Moved
<1>2. job' = job
  BY DEF Moves
<1>3. /\ paid \in [Procs -> Nat] /\ fired \in [Procs -> Nat] /\ foreign \in [Procs -> Nat]
      /\ balance \in Int /\ topUps \in 0 .. TopUpBound
  BY DEF IInv, TypeOK
<1>4. /\ paid' \in [Procs -> Nat] /\ fired' \in [Procs -> Nat] /\ topUps' = topUps
      /\ \A q \in Procs \ {p} : paid'[q] = paid[q] /\ fired'[q] = fired[q]
  BY <1>3 DEF Charge
<1>5. /\ foreign' \in [Procs -> Nat] /\ balance' \in Int
      /\ shot[p].metered =>
             /\ balance' = balance - cost
             /\ \A q \in Procs : q # p /\ Measuring(q) => foreign'[q] = foreign[q] + cost
             /\ \A q \in Procs : q # p /\ ~Measuring(q) => foreign'[q] = foreign[q]
      /\ ~shot[p].metered => balance' = balance /\ foreign' = foreign
  <2>1. CASE shot[p].metered
    <3>1. balance' = balance - cost
          /\ foreign' = [q \in Procs |-> IF q # p /\ Measuring(q) THEN foreign[q] + cost
                                                                  ELSE foreign[q]]
      BY <2>1 DEF Charge
    <3> QED
      BY <1>3, <2>1, <3>1
  <2>2. CASE ~shot[p].metered
    BY <1>3, <2>2 DEF Charge
  <2> QED
    BY <2>1, <2>2
<1>6. ASSUME NEW q \in Procs, q # p
      PROVE  Sound(q)'
  <2>1. /\ Placed(q, shot[q]) /\ InRoom(q, shot[q], job[q].limit)
        /\ Ledgered(q, shot[q], balance, paid[q], fired[q], foreign[q], blind[q])
    BY DEF IInv, Sound
  <2>2. /\ shot'[q] = shot[q] /\ paid'[q] = paid[q] /\ fired'[q] = fired[q]
        /\ blind'[q] = blind[q] /\ shot[q] \in Shot
    BY <1>1, <1>4, <1>6 DEF IInv, TypeOK
  <2>3. Ledgered(q, shot[q], balance', paid[q], fired[q], foreign'[q], blind[q])
    <3>1. CASE shot[p].metered /\ Measuring(q)
      <4>1. balance' = balance - cost /\ foreign'[q] = foreign[q] + cost
        BY <1>5, <1>6, <3>1
      <4>2. shot[q].at \in {"turn", "firing", "answered", "closing"} /\ shot[q].metered
        BY <3>1 DEF Measuring
      <4>3. /\ shot[q].before \in Int /\ balance \in Int /\ cost \in Nat
            /\ fired[q] \in Nat /\ foreign[q] \in Nat
        BY <1>3, <2>2, ShotTyped
      <4>4. ~blind[q] => shot[q].before - balance = fired[q] + foreign[q]
        BY <2>1, <4>2 DEF Ledgered, Open
      <4>5. ~blind[q] => shot[q].before - balance' = fired[q] + foreign'[q]
        BY <4>1, <4>3, <4>4
      <4> QED
        BY <2>1, <4>2, <4>5 DEF Ledgered
    <3>2. CASE shot[p].metered /\ ~Measuring(q)
      <4>1. foreign'[q] = foreign[q]
        BY <1>5, <1>6, <3>2
      <4>2. ~(shot[q].metered /\ shot[q].at \in Open)
        BY <2>1, <3>2 DEF Measuring, Ledgered, Open
      <4> QED
        BY <2>1, <4>1, <4>2 DEF Ledgered
    <3>3. CASE ~shot[p].metered
      BY <1>5, <2>1, <3>3
    <3> QED
      BY <3>1, <3>2, <3>3
  <2> QED
    BY <1>2, <2>1, <2>2, <2>3 DEF Sound
<1>7. \A q \in Procs : Sound(q)'
  BY <1>6
<1>8. log' \in Log /\ ReportAddsUp'
  <2>1. NoLog \in Log
    BY DEF NoLog, Log
  <2> QED
    BY <2>1 DEF Unlogged, ReportAddsUp, NoLog
<1>9. \A q \in Procs :
          shot'[q].at = "firing" => shot'[q].cap > 0 /\ Over * shot'[q].in <= Slack
  BY <1>7 DEF Sound, InRoom
<1>10. TypeOK'
  BY <1>1, <1>2, <1>4, <1>5, <1>8, <1>9 DEF IInv, TypeOK, At
<1>11. ASSUME NEW m \in Missions
       PROVE  Routed(m, shot[m])'
  <2>1. shot'[m].at = "firing" => shot'[m] = shot[m]
    BY <1>1, JobsTyped
  <2> QED
    BY <1>2, <2>1 DEF IInv, Routed
<1> QED
  BY <1>2, <1>7, <1>8, <1>10, <1>11 DEF IInv

\* A bill is paid by a process that knew of room for it.
LEMMA BillHasRoom ==
    ASSUME IInv, NEW p \in Procs, shot[p].at = "firing", NEW cost \in Bills(p)
    PROVE  /\ cost \in 0 .. job[p].limit - KnownOf(p, shot[p]) + Slack
           /\ cost \in Nat
           /\ KnownOf(p, shot[p]) < job[p].limit
<1> DEFINE s == shot[p]
           room == job[p].limit - KnownOf(p, s)
<1>1. s \in Shot /\ job[p].limit \in Nat
  BY JobsTyped DEF IInv, TypeOK
<1>2. s.est \in Nat /\ s.in \in Nat /\ s.cap \in Nat /\ s.out \in Nat
  BY <1>1, ShotTyped
<1>3. /\ KnownOf(p, s) < job[p].limit /\ Over * s.in <= Slack
      /\ s.est * s.in + s.cap * s.out <= room
  BY DEF IInv, Sound, InRoom
<1>4. room \in Int
  BY <1>1, KnownTyped
<1>5. PICK input \in s.est .. s.est + Over, output \in 0 .. s.cap :
          cost = input * s.in + output * s.out
  BY DEF Bills
<1> HIDE DEF room
<1>6. cost \in 0 .. room + Slack
  BY <1>2, <1>3, <1>4, <1>5, BillFits
<1>7. room + Slack \in Int
  BY <1>4, SlackAssumption
<1> QED
  BY <1>3, <1>6, <1>7 DEF room

LEMMA RespondKeeps ==
    ASSUME IInv, NEW p \in Procs, Respond(p)
    PROVE  IInv' /\ Pays(p)
<1> DEFINE s == shot[p]
<1>1. s.at = "firing" /\ UNCHANGED <<job, plan>> /\ Unlogged /\ s \in Shot
  BY DEF Respond, At, IInv, TypeOK
<1>2. PICK cost \in Bills(p), choice \in Endings(p), silent \in BOOLEAN :
          /\ Charge(p, cost)
          /\ shot' = [shot EXCEPT ![p].at = "answered", ![p].choice = choice,
                                  ![p].told = IF silent \/ shot[p].metered THEN 0 ELSE cost]
          /\ blind' = [blind EXCEPT ![p] = @ \/ (silent /\ cost > 0 /\ ~shot[p].metered)]
  BY DEF Respond
<1>3. /\ cost \in 0 .. job[p].limit - KnownOf(p, s) + Slack /\ cost \in Nat
      /\ KnownOf(p, s) < job[p].limit
  BY <1>1, BillHasRoom
<1> DEFINE told == IF silent \/ s.metered THEN 0 ELSE cost
           e == [s EXCEPT !.at = "answered", !.choice = choice, !.told = told]
<1>4. shot' = [shot EXCEPT ![p] = e]
  BY <1>2, Zenon DEF IInv, TypeOK
<1>5. told \in Nat /\ choice \in {"none", "final", "tools"}
  BY <1>3 DEF Endings
<1> HIDE DEF told
<1>6. e \in Shot
  BY <1>1, <1>5, Zenon DEF Shot, Places
<1>7. /\ e.at = "answered" /\ e.told = told /\ e.metered = s.metered
      /\ e.before = s.before /\ e.last = s.last /\ e.spent = s.spent /\ e.in = s.in
  BY <1>1, Zenon DEF Shot
<1> HIDE DEF e
<1>8. Moves(p, e)
  BY <1>1, <1>4, <1>6 DEF Moves
<1>9. shot'[p] = e /\ \A q \in Procs \ {p} : shot'[q] = shot[q]
  BY <1>8, Moved
<1>10. /\ paid' = [paid EXCEPT ![p] = @ + cost]
       /\ paid'[p] = paid[p] + cost /\ fired'[p] = fired[p] + cost
       /\ foreign'[p] = foreign[p]
       /\ balance' = IF s.metered THEN balance - cost ELSE balance
  BY <1>2 DEF Charge, IInv, TypeOK
<1>11. blind[p] \in BOOLEAN /\ s.metered \in BOOLEAN
  BY <1>1, ShotTyped DEF IInv, TypeOK
<1>12. /\ blind' \in [Procs -> BOOLEAN]
       /\ \A q \in Procs \ {p} : blind'[q] = blind[q]
       /\ blind'[p] = (blind[p] \/ (silent /\ cost > 0 /\ ~s.metered))
  <2>1. (blind[p] \/ (silent /\ cost > 0 /\ ~s.metered)) \in BOOLEAN
    BY <1>11
  <2> QED
    BY <1>2, <2>1, Zenon DEF IInv, TypeOK
<1>13. Sound(p)'
  <2>1. /\ Ledgered(p, s, balance, paid[p], fired[p], foreign[p], blind[p])
        /\ InRoom(p, s, job[p].limit)
    BY DEF IInv, Sound
  <2>2. /\ s.before \in Int /\ balance \in Int /\ fired[p] \in Nat /\ foreign[p] \in Nat
        /\ paid[p] \in Nat /\ s.spent \in Nat /\ cost \in Nat
    BY <1>1, <1>3, ShotTyped DEF IInv, TypeOK
  <2>3. s.told = 0
    BY <1>1, <2>1 DEF Ledgered
  <2>4. ~blind[p] =>
            /\ s.metered => s.before - balance = fired[p] + foreign[p]
            /\ ~s.metered => fired[p] = 0 + IF p \in Runners THEN s.spent ELSE 0
            /\ paid[p] <= fired[p] + IF p \in Runners THEN 0 ELSE s.spent
    BY <1>1, <2>1, <2>3 DEF Ledgered, Open
  <2>5. ASSUME ~blind'[p]
        PROVE  /\ s.metered => s.before - balance' = fired'[p] + foreign'[p]
               /\ ~s.metered => fired'[p] = told + IF p \in Runners THEN s.spent ELSE 0
               /\ paid'[p] <= fired'[p] + IF p \in Runners THEN 0 ELSE s.spent
    <3>1. ~blind[p] /\ ~(silent /\ cost > 0 /\ ~s.metered)
      BY <1>12, <2>5
    <3>2. ~s.metered => told = cost
      BY <2>2, <3>1 DEF told
    <3>3. CASE s.metered
      BY <1>10, <2>2, <2>4, <3>1, <3>3
    <3>4. CASE ~s.metered
      BY <1>10, <2>2, <2>4, <3>1, <3>2, <3>4
    <3> QED
      BY <3>3, <3>4
  <2>6. Ledgered(p, e, balance', paid'[p], fired'[p], foreign'[p], blind'[p])
    BY <1>7, <2>5 DEF Ledgered
  <2>7. Placed(p, e) /\ InRoom(p, e, job[p].limit)
    BY <1>7, <2>1 DEF Placed, InRoom
  <2> QED
    BY <1>1, <1>9, <2>6, <2>7 DEF Sound
<1>14. IInv'
  BY <1>1, <1>2, <1>3, <1>7, <1>8, <1>12, <1>13, ChargeKeeps
<1>15. Pays(p)
  <2>1. ~Due(s) /\ Due(e) /\ KnownOf(p, e) = KnownOf(p, s)
    BY <1>1, <1>7 DEF Due, KnownOf
  <2>2. \A q \in Procs : blind[q] => blind'[q]
    BY <1>12
  <2> QED
    BY <1>1, <1>3, <1>9, <1>10, <2>1, <2>2 DEF Pays
<1> QED
  BY <1>14, <1>15

LEMMA LoseResponseKeeps ==
    ASSUME IInv, NEW p \in Procs, LoseResponse(p)
    PROVE  IInv' /\ Pays(p)
<1> DEFINE s == shot[p]
           e == Ended(s, "lost")
<1>1. /\ s.at = "firing" /\ UNCHANGED <<job, plan, blind>> /\ Unlogged /\ End(p, "lost")
      /\ s \in Shot
  BY DEF LoseResponse, At, IInv, TypeOK
<1>2. PICK cost \in Bills(p) : Charge(p, cost)
  BY DEF LoseResponse
<1>3. /\ cost \in 0 .. job[p].limit - KnownOf(p, s) + Slack /\ cost \in Nat
      /\ KnownOf(p, s) < job[p].limit
  BY <1>1, BillHasRoom
<1>4. e \in Shot /\ e.at = "lost" /\ KnownOf(p, e) = KnownOf(p, s)
  BY <1>1, EndedTyped
<1>5. Moves(p, e)
  BY <1>1, <1>4 DEF Moves, End
<1>6. shot'[p] = e /\ \A q \in Procs \ {p} : shot'[q] = shot[q]
  BY <1>5, Moved
<1>7. Sound(p)'
  BY <1>1, <1>6, EndedSound
<1> HIDE DEF e
<1>8. blind' \in [Procs -> BOOLEAN]
  BY <1>1 DEF IInv, TypeOK
<1>9. IInv'
  BY <1>1, <1>2, <1>3, <1>4, <1>5, <1>7, <1>8, ChargeKeeps
<1>10. paid' = [paid EXCEPT ![p] = @ + cost]
  BY <1>2 DEF Charge
<1>11. Pays(p)
  BY <1>1, <1>3, <1>4, <1>6, <1>10 DEF Pays, Due
<1> QED
  BY <1>9, <1>11

LEMMA RaisesKeeps ==
    ASSUME IInv, NEW p \in Procs, Raises(p)
    PROVE  IInv' /\ Quiet
    BY FailStep DEF Raises

\* A top-up makes every shot that is between two readings blind.
LEMMA TopUpKeeps ==
    ASSUME IInv, TopUp
    PROVE  IInv' /\ Quiet
<1>1. /\ UNCHANGED <<job, shot, plan, paid, fired, foreign>> /\ Unlogged
      /\ topUps < TopUpBound /\ topUps' = topUps + 1
      /\ blind' = [p \in Procs |-> blind[p] \/ Measuring(p)]
  BY DEF TopUp, local
<1>2. balance' \in Int
  BY BudgetAssumption DEF TopUp, IInv, TypeOK
<1>3. \A p \in Procs : blind[p] \in BOOLEAN /\ shot[p] \in Shot
  BY DEF IInv, TypeOK
<1>4. \A p \in Procs : (blind[p] \/ Measuring(p)) \in BOOLEAN
  BY <1>3
<1>5. /\ blind' \in [Procs -> BOOLEAN]
      /\ \A p \in Procs : blind'[p] = (blind[p] \/ Measuring(p))
  BY <1>1, <1>4, Zenon
<1>6. ASSUME NEW p \in Procs
      PROVE  Sound(p)'
  <2>1. /\ Placed(p, shot[p]) /\ InRoom(p, shot[p], job[p].limit)
        /\ Ledgered(p, shot[p], balance, paid[p], fired[p], foreign[p], blind[p])
    BY DEF IInv, Sound
  <2>2. ~blind'[p] => ~blind[p] /\ ~(shot[p].metered /\ shot[p].at \in Open)
    BY <1>5, <2>1 DEF Measuring, Ledgered, Open
  <2>3. Ledgered(p, shot[p], balance', paid[p], fired[p], foreign[p], blind'[p])
    BY <2>1, <2>2 DEF Ledgered
  <2> QED
    BY <1>1, <2>1, <2>3 DEF Sound
<1>7. log' \in Log /\ ReportAddsUp'
  <2>1. NoLog \in Log
    BY DEF NoLog, Log
  <2> QED
    BY <1>1, <2>1 DEF Unlogged, ReportAddsUp, NoLog
<1>8. topUps' \in 0 .. TopUpBound
  BY <1>1, BudgetAssumption DEF IInv, TypeOK
<1>9. TypeOK'
  BY <1>1, <1>2, <1>5, <1>7, <1>8 DEF IInv, TypeOK, At
<1>10. \A m \in Missions : Routed(m, shot[m])'
  BY <1>1 DEF IInv, Routed
<1>11. IInv'
  BY <1>1, <1>6, <1>7, <1>9, <1>10 DEF IInv
<1>12. Quiet
  BY <1>1, <1>5 DEF Quiet
<1> QED
  BY <1>11, <1>12
-----------------------------------------------------------------------------
(* The initial states, every step, and what the invariant is for. *)

LEMMA InitKeeps == Init => IInv
<1> SUFFICES ASSUME Init PROVE IInv
  OBVIOUS
<1>1. /\ job \in [Procs -> RunnerJobs \cup MissionJobs]
      /\ \A r \in Runners : job[r] \in RunnerJobs
      /\ \A m \in Missions : job[m] \in MissionJobs
  BY DEF Init
<1>2. /\ shot \in [Procs -> Shot] /\ \A p \in Procs : shot[p] = Idle
  BY IdleTyped DEF Init
<1>3. plan \in [Missions -> Plan \cup {NoPlan}] /\ \A m \in Missions : plan[m] = NoPlan
  BY DEF Init
<1>4. log \in Log /\ ReportAddsUp
  BY DEF Init, NoLog, Log, ReportAddsUp
<1>5. balance \in Int /\ topUps \in 0 .. TopUpBound
  BY BudgetAssumption DEF Init
<1>6. /\ paid \in [Procs -> Nat] /\ fired \in [Procs -> Nat] /\ foreign \in [Procs -> Nat]
      /\ blind \in [Procs -> BOOLEAN]
      /\ \A p \in Procs : paid[p] = 0 /\ fired[p] = 0 /\ foreign[p] = 0
  BY DEF Init
<1>7. ASSUME NEW p \in Procs PROVE Sound(p)
  <2>1. Over * shot[p].in <= Slack
    BY <1>2, IdleTyped, BudgetAssumption, SlackAssumption
  <2>2. Placed(p, shot[p]) /\ InRoom(p, shot[p], job[p].limit)
    BY <1>2, <2>1, IdleTyped DEF Placed, InRoom
  <2>3. Ledgered(p, shot[p], balance, paid[p], fired[p], foreign[p], blind[p])
    BY <1>2, <1>6, IdleTyped DEF Ledgered
  <2> QED
    BY <2>2, <2>3 DEF Sound
<1>8. \A p \in Procs : ~At(p, "firing")
  BY <1>2, IdleTyped DEF At
<1> QED
  BY <1>1, <1>2, <1>3, <1>4, <1>5, <1>6, <1>7, <1>8 DEF IInv, TypeOK, Routed

LEMMA StutterKeeps ==
    ASSUME IInv, UNCHANGED vars
    PROVE  IInv' /\ Quiet
<1>1. UNCHANGED <<job, shot, plan, log, balance, topUps, paid, fired, foreign, blind>>
  BY DEF vars, local, ghosts
<1>2. TypeOK'
  BY <1>1 DEF IInv, TypeOK, At
<1>3. \A m \in Missions : Routed(m, shot[m])'
  BY <1>1 DEF IInv, Routed
<1>4. \A p \in Procs : Sound(p)'
  BY <1>1 DEF IInv, Sound
<1>5. ReportAddsUp'
  BY <1>1 DEF IInv, ReportAddsUp
<1>6. Quiet
  BY <1>1 DEF Quiet
<1> QED
  BY <1>1, <1>2, <1>3, <1>4, <1>5, <1>6 DEF IInv

\* Every step keeps the invariant, and is one of three things to the lock.
LEMMA StepKeeps ==
    ASSUME IInv, [Next]_vars
    PROVE  IInv' /\ (Quiet \/ \E p \in Procs : Pays(p) \/ Learns(p))
<1>1. CASE UNCHANGED vars
  BY <1>1, StutterKeeps
<1>2. ASSUME NEW r \in Runners, Load(r) \/ Turn(r) \/ Account(r) \/ Close(r)
      PROVE  IInv' /\ (Quiet \/ \E p \in Procs : Pays(p) \/ Learns(p))
  <2>1. r \in Procs
    BY DEF Procs
  <2> QED
    BY <1>2, <2>1, LoadKeeps, TurnKeeps, AccountKeeps, CloseKeeps
<1>3. ASSUME NEW m \in Missions, Begin(m) \/ MissionOver(m) \/ FireStage(m) \/ Conclude(m)
      PROVE  IInv' /\ (Quiet \/ \E p \in Procs : Pays(p) \/ Learns(p))
  <2>1. m \in Procs
    BY DEF Procs
  <2> QED
    BY <1>3, <2>1, BeginKeeps, MissionOverKeeps, FireStageKeeps, ConcludeKeeps
<1>4. ASSUME NEW p \in Procs, Respond(p) \/ LoseResponse(p) \/ Raises(p)
      PROVE  IInv' /\ (Quiet \/ \E q \in Procs : Pays(q) \/ Learns(q))
  BY <1>4, RespondKeeps, LoseResponseKeeps, RaisesKeeps
<1>5. CASE TopUp
  BY <1>5, TopUpKeeps
<1> QED
  BY <1>1, <1>2, <1>3, <1>4, <1>5 DEF Next

\* The lock's variables are functions of the right types.
LEMMA MappedTyped ==
    ASSUME IInv
    PROVE  /\ Limits \in [Procs -> Nat] /\ Knowns \in [Procs -> Nat]
           /\ Dues \in [Procs -> BOOLEAN]
           /\ \A p \in Procs : /\ Limits[p] = job[p].limit
                               /\ Knowns[p] = KnownOf(p, shot[p])
                               /\ Dues[p] <=> Due(shot[p])
<1>1. \A p \in Procs : shot[p] \in Shot /\ Known(p) = KnownOf(p, shot[p])
  BY DEF IInv, TypeOK, Known, KnownOf
<1>2. \A p \in Procs : Known(p) \in Nat /\ job[p].limit \in Nat
  BY <1>1, KnownTyped, JobsTyped
<1>3. Limits \in [Procs -> Nat] /\ \A p \in Procs : Limits[p] = job[p].limit
  BY <1>2 DEF Limits
<1>4. Knowns \in [Procs -> Nat] /\ \A p \in Procs : Knowns[p] = KnownOf(p, shot[p])
  BY <1>1, <1>2 DEF Knowns
<1>5. Dues \in [Procs -> BOOLEAN] /\ \A p \in Procs : Dues[p] <=> Due(shot[p])
  <2>1. \A p \in Procs : (shot[p].at \in {"answered", "lost"}) \in BOOLEAN
    OBVIOUS
  <2>2. Dues \in [Procs -> BOOLEAN]
    BY <2>1, Zenon DEF Dues
  <2>3. \A p \in Procs : Dues[p] = (shot[p].at \in {"answered", "lost"})
    BY Zenon DEF Dues
  <2> QED
    BY <2>2, <2>3, Zenon DEF Due
<1> QED
  BY <1>3, <1>4, <1>5

LEMMA MappedNext ==
    ASSUME IInv, IInv', Quiet \/ \E p \in Procs : Pays(p) \/ Learns(p)
    PROVE  Lock!Next
<1>1. /\ Limits \in [Procs -> Nat] /\ Knowns \in [Procs -> Nat] /\ Dues \in [Procs -> BOOLEAN]
      /\ \A p \in Procs : /\ Limits[p] = job[p].limit
                          /\ Knowns[p] = KnownOf(p, shot[p])
                          /\ Dues[p] <=> Due(shot[p])
  BY MappedTyped
<1>2. /\ Limits' \in [Procs -> Nat] /\ Knowns' \in [Procs -> Nat]
      /\ Dues' \in [Procs -> BOOLEAN]
      /\ \A p \in Procs : /\ Limits'[p] = job'[p].limit
                          /\ Knowns'[p] = KnownOf(p, shot'[p])
                          /\ Dues'[p] <=> Due(shot'[p])
  <2>1. \A p \in Procs : shot'[p] \in Shot /\ Known(p)' = KnownOf(p, shot'[p])
    BY DEF IInv, TypeOK, Known, KnownOf
  <2>2. \A p \in Procs : job'[p].limit \in Nat
    <3>1. /\ \A r \in Runners : job'[r] \in RunnerJob
          /\ \A m \in Missions : job'[m] \in MissionJob
      BY BudgetAssumption DEF IInv
    <3> QED
      BY <3>1 DEF Procs, RunnerJob, MissionJob
  <2>3. \A p \in Procs : Known(p)' \in Nat
    BY <2>1, KnownTyped
  <2>4. Limits' \in [Procs -> Nat] /\ \A p \in Procs : Limits'[p] = job'[p].limit
    BY <2>2 DEF Limits
  <2>5. Knowns' \in [Procs -> Nat] /\ \A p \in Procs : Knowns'[p] = KnownOf(p, shot'[p])
    BY <2>1, <2>3 DEF Knowns
  <2>6. Dues' \in [Procs -> BOOLEAN] /\ \A p \in Procs : Dues'[p] <=> Due(shot'[p])
    <3>1. \A p \in Procs : (shot'[p].at \in {"answered", "lost"}) \in BOOLEAN
      OBVIOUS
    <3>2. Dues' \in [Procs -> BOOLEAN]
      BY <3>1, Zenon DEF Dues
    <3>3. \A p \in Procs : Dues'[p] = (shot'[p].at \in {"answered", "lost"})
      BY Zenon DEF Dues
    <3> QED
      BY <3>2, <3>3, Zenon DEF Due
  <2> QED
    BY <2>4, <2>5, <2>6
<1>3. /\ paid \in [Procs -> Nat] /\ blind \in [Procs -> BOOLEAN]
      /\ paid' \in [Procs -> Nat] /\ blind' \in [Procs -> BOOLEAN]
  BY DEF IInv, TypeOK
<1>4. /\ \A p \in Procs : blind[p] => blind'[p]
      /\ job' = job
  BY DEF Quiet, Pays, Learns
<1>5. Limits' = Limits
  BY <1>4 DEF Limits
<1>6. ASSUME Quiet PROVE UNCHANGED <<paid, Knowns, Dues>>
  <2>1. \A p \in Procs : Knowns'[p] = Knowns[p] /\ (Dues'[p] <=> Dues[p])
    BY <1>1, <1>2, <1>6 DEF Quiet
  <2>2. \A p \in Procs : Dues'[p] = Dues[p]
    BY <1>1, <1>2, <2>1
  <2> QED
    BY <1>1, <1>2, <1>6, <2>1, <2>2 DEF Quiet
<1>7. ASSUME NEW p \in Procs, Pays(p)
      PROVE  /\ ~Dues[p] /\ Knowns[p] < Limits[p]
             /\ \E cost \in 0 .. Limits[p] - Knowns[p] + Slack :
                   paid' = [paid EXCEPT ![p] = @ + cost]
             /\ Dues' = [Dues EXCEPT ![p] = TRUE]
             /\ UNCHANGED Knowns
  <2>1. \A q \in Procs \ {p} : Knowns'[q] = Knowns[q] /\ (Dues'[q] <=> Dues[q])
    BY <1>1, <1>2, <1>7 DEF Pays
  <2>2. Knowns'[p] = Knowns[p] /\ Dues'[p]
    BY <1>1, <1>2, <1>7 DEF Pays
  <2>3. Knowns' = Knowns
    BY <1>1, <1>2, <2>1, <2>2
  <2>4. Dues' = [Dues EXCEPT ![p] = TRUE]
    <3>1. \A q \in Procs \ {p} : Dues'[q] = Dues[q]
      BY <1>1, <1>2, <2>1
    <3>2. Dues'[p] = TRUE
      BY <1>2, <2>2
    <3> QED
      BY <1>1, <1>2, <3>1, <3>2
  <2>5. /\ ~Dues[p] /\ Knowns[p] < Limits[p]
        /\ \E cost \in 0 .. Limits[p] - Knowns[p] + Slack :
              paid' = [paid EXCEPT ![p] = @ + cost]
    BY <1>1, <1>7 DEF Pays
  <2> QED
    BY <2>3, <2>4, <2>5
<1>8. ASSUME NEW p \in Procs, Learns(p)
      PROVE  /\ Dues[p] /\ Dues' = [Dues EXCEPT ![p] = FALSE]
             /\ Knowns' \in [Procs -> Nat]
             /\ \A q \in Procs \ {p} : Knowns'[q] = Knowns[q]
             /\ blind'[p] \/ Knowns'[p] >= paid[p]
             /\ UNCHANGED paid
  <2>1. \A q \in Procs \ {p} : Knowns'[q] = Knowns[q] /\ (Dues'[q] <=> Dues[q])
    BY <1>1, <1>2, <1>8 DEF Learns
  <2>2. Dues[p] /\ ~Dues'[p] /\ (blind'[p] \/ Knowns'[p] >= paid[p]) /\ paid' = paid
    BY <1>1, <1>2, <1>8 DEF Learns
  <2>3. Dues' = [Dues EXCEPT ![p] = FALSE]
    <3>1. \A q \in Procs \ {p} : Dues'[q] = Dues[q]
      BY <1>1, <1>2, <2>1
    <3>2. Dues'[p] = FALSE
      BY <1>2, <2>2
    <3> QED
      BY <1>1, <1>2, <3>1, <3>2
  <2> QED
    BY <1>2, <2>1, <2>2, <2>3
<1>9. Lock!Disturb \/ \E p \in Procs : Lock!Pay(p) \/ Lock!Learn(p)
  <2>1. CASE Quiet
    BY <1>6, <2>1 DEF Lock!Disturb, Knowns, Dues
  <2>2. ASSUME NEW p \in Procs, Pays(p) PROVE Lock!Pay(p)
    BY <1>7, <2>2 DEF Lock!Pay, Limits, Knowns, Dues
  <2>3. ASSUME NEW p \in Procs, Learns(p) PROVE Lock!Learn(p)
    BY <1>8, <2>3 DEF Lock!Learn, Knowns, Dues
  <2> QED
    BY <2>1, <2>2, <2>3
<1> QED
  BY <1>3, <1>4, <1>5, <1>9 DEF Lock!Next, Limits

LEMMA MappedInit == Init => Lock!Init
<1> SUFFICES ASSUME Init PROVE Lock!Init
  OBVIOUS
<1>1. IInv
  BY InitKeeps
<1>2. Limits \in [Procs -> Nat]
  BY <1>1, MappedTyped
<1>3. \A p \in Procs : shot[p] = Idle
  BY DEF Init
<1>4. \A p \in Procs : Known(p) = 0
  BY <1>3, IdleTyped DEF Known
<1>5. Knowns = [p \in Procs |-> 0]
  BY <1>4 DEF Knowns
<1>6. \A p \in Procs : (shot[p].at \in {"answered", "lost"}) = FALSE
  BY <1>3, IdleTyped
<1>7. Dues = [p \in Procs |-> FALSE]
  BY <1>6 DEF Dues
<1>8. paid = [p \in Procs |-> 0] /\ blind = [p \in Procs |-> FALSE]
  BY DEF Init
<1> QED
  BY <1>2, <1>5, <1>7, <1>8 DEF Lock!Init, Limits, Knowns, Dues

LEMMA InvariantHolds == Spec => []IInv
<1>1. IInv /\ [Next]_vars => IInv'
  BY StepKeeps
<1> QED
  BY <1>1, InitKeeps, PTL DEF Spec

\* The variables of shots and missions stay within their types, and a request is
\* made only with a cap of at least one token (runner.py:143-158).
THEOREM BudgetTypes == Spec => []TypeOK
<1>1. IInv => TypeOK
  BY DEF IInv
<1> QED
  BY <1>1, InvariantHolds, PTL

\* What a shot logs of its cost is what it has paid, and what others paid on its
\* account meanwhile (runner.py:208-213, direct.py:155-166).
THEOREM ReportsAddUp == Spec => []ReportAddsUp
<1>1. IInv => ReportAddsUp
  BY DEF IInv
<1> QED
  BY <1>1, InvariantHolds, PTL

\* A stage goes to an armed lane that no other eligible one beats at the stage's
\* goal, for every catalog (venue.py:151-192), and while it is being fired the
\* lane's estimate fits in what is left of the mission's limit.
THEOREM RoutesUndominated == Spec => []RouteUndominated
<1>1. IInv => RouteUndominated
  <2> SUFFICES ASSUME IInv, NEW m \in Missions, plan[m] # NoPlan
               PROVE  LET route == plan[m]  chosen == route.offers[route.winner]
                      IN  /\ \A l \in Eligible(route.offers, route.budget, route.out) :
                                ~Better(route.goal, route.offers[l], chosen, route.out)
                          /\ chosen.armed
                          /\ At(m, "firing") =>
                                Cost(chosen, route.out) <= job[m].limit - shot[m].spent
    BY DEF RouteUndominated
  <2> DEFINE route == plan[m]
             chosen == route.offers[route.winner]
  <2>1. route \in Plan
    BY DEF IInv, TypeOK
  <2>2. /\ route.goal \in Goals /\ route.offers \in [Lanes -> Offer] /\ route.budget \in Nat
        /\ route.out \in Nat
    BY <2>1, BudgetAssumption DEF Plan
  <2>3. /\ Eligible(route.offers, route.budget, route.out) # {}
        /\ route.winner = Winner(route.goal, route.offers, route.budget, route.out)
        /\ shot[m].at = "firing" => route.budget <= job[m].limit - shot[m].spent
    BY DEF IInv, Routed
  <2>4. /\ route.winner \in Eligible(route.offers, route.budget, route.out)
        /\ route.winner \in Lanes
    BY <2>2, <2>3, WinnerLeads
  <2>5. \A l \in Eligible(route.offers, route.budget, route.out) :
            ~Better(route.goal, route.offers[l], chosen, route.out)
    BY <2>2, <2>3, WinnerUndominated
  <2>6. /\ chosen.armed
        /\ Cost(chosen, route.out) = Unknown \/ Cost(chosen, route.out) <= route.budget
    BY <2>4 DEF Eligible
  <2>7. ASSUME At(m, "firing")
        PROVE  Cost(chosen, route.out) <= job[m].limit - shot[m].spent
    <3>1. route.budget <= job[m].limit - shot[m].spent
      BY <2>3, <2>7 DEF At
    <3>2. job[m].limit \in Nat /\ shot[m].spent \in Nat
      <4>1. m \in Procs /\ shot[m] \in Shot
        BY JobsTyped DEF IInv, TypeOK
      <4> QED
        BY <4>1, JobsTyped, ShotTyped
    <3>3. Cost(chosen, route.out) \in Int
      <4>1. chosen \in Offer
        BY <2>2, <2>4
      <4>2. Cost(chosen, route.out) \in AmountOrUnknown
        BY <2>2, <4>1, CostTyped
      <4> QED
        BY <4>2 DEF AmountOrUnknown, Unknown
    <3> QED
      BY <2>2, <2>6, <3>1, <3>2, <3>3 DEF Unknown
  <2> QED
    BY <2>5, <2>6, <2>7
<1> QED
  BY <1>1, InvariantHolds, PTL

\* No lane that a stage could go to costs nothing.
NothingIsFree ==
    \A m \in Missions : plan[m] # NoPlan =>
        \A l \in Eligible(plan[m].offers, plan[m].budget, plan[m].out) :
            Cost(plan[m].offers[l], plan[m].out) # 0

\* Costs of zero are all that the reason of a cheapest route gets wrong: where no
\* eligible lane is free, the chosen one does have the lowest known estimated
\* cost (venue.py:172-180), and a known one whenever there is one.
THEOREM LowestWhereNothingIsFree == Spec => [](NothingIsFree => LowestCostChosen)
<1>1. IInv /\ RouteUndominated => (NothingIsFree => LowestCostChosen)
  <2> SUFFICES ASSUME IInv, RouteUndominated, NothingIsFree,
                      NEW m \in Missions, plan[m] # NoPlan, plan[m].goal = "cheapest",
                      NEW l \in Eligible(plan[m].offers, plan[m].budget, plan[m].out),
                      Cost(plan[m].offers[l], plan[m].out) # Unknown
               PROVE  LET won == Cost(plan[m].offers[plan[m].winner], plan[m].out)
                      IN  /\ plan[m].winner \in
                                 Eligible(plan[m].offers, plan[m].budget, plan[m].out)
                          /\ won # Unknown /\ won <= Cost(plan[m].offers[l], plan[m].out)
    BY Zenon DEF LowestCostChosen
  <2> DEFINE route == plan[m]
             won == Cost(route.offers[route.winner], route.out)
             cost == Cost(route.offers[l], route.out)
  <2>1. /\ route.goal \in Goals /\ route.offers \in [Lanes -> Offer]
        /\ route.budget \in Nat /\ route.out \in Nat
    BY BudgetAssumption DEF IInv, TypeOK, Plan
  <2>2. route.winner = Winner(route.goal, route.offers, route.budget, route.out)
    BY DEF IInv, Routed
  <2>3. /\ route.winner \in Eligible(route.offers, route.budget, route.out)
        /\ route.winner \in Lanes /\ l \in Lanes
    BY <2>1, <2>2, WinnerLeads DEF Eligible
  <2>4. won \in AmountOrUnknown /\ cost \in AmountOrUnknown
    BY <2>1, <2>3, CostTyped
  <2>5. cost # 0 /\ cost # Unknown
    BY DEF NothingIsFree
  <2>6. ~Less(cost, won)
    BY DEF RouteUndominated, Better
  <2> HIDE DEF cost, won
  <2>7. won # Unknown /\ won <= cost
    BY <2>4, <2>5, <2>6 DEF Less, AmountOrUnknown, Unknown
  <2> QED
    BY <2>3, <2>7 DEF won, cost
<1> QED
  BY <1>1, InvariantHolds, RoutesUndominated, PTL

\* Every shot, and every mission as a whole, is a budget lock, whatever others
\* spend on the account, top it up, or lose (runner.py:143-158, direct.py:118-128,
\* orchestrator.py:76-97).
THEOREM LocksAreHeld == Spec => LocksHold
<1>1. IInv /\ IInv' /\ [Next]_vars => [Lock!Next]_Lock!vars
  BY StepKeeps, MappedNext
<1> QED
  BY <1>1, MappedInit, InvariantHolds, PTL DEF Spec, LocksHold, Lock!Spec

-----------------------------------------------------------------------------
(* A budget lock keeps its limit. *)

\* A payment fits in what is known to be left, so it exceeds the limit by at
\* most the slack.
LEMMA PayKeepsCovered ==
    ASSUME Slack \in Nat, Lock!Covered, UNCHANGED Limits, blind' \in [Procs -> BOOLEAN],
           \A q \in Procs : blind[q] => blind'[q],
           NEW p \in Procs, Lock!Pay(p)
    PROVE  Lock!Covered'
<1>1. PICK cost \in 0 .. Limits[p] - Knowns[p] + Slack :
          paid' = [paid EXCEPT ![p] = @ + cost]
  BY DEF Lock!Pay
<1>2. /\ Limits[p] \in Nat /\ paid[p] \in Nat /\ Knowns[p] \in Nat
      /\ Slack \in Nat /\ cost \in Nat
  BY <1>1 DEF Lock!Covered
<1>3. /\ paid' \in [Procs -> Nat] /\ Dues' \in [Procs -> BOOLEAN]
      /\ Limits' \in [Procs -> Nat] /\ Knowns' \in [Procs -> Nat]
  BY <1>1, <1>2 DEF Lock!Covered, Lock!Pay
<1>4. ASSUME NEW q \in Procs, ~blind'[q]
      PROVE  /\ ~Dues'[q] => paid'[q] <= Knowns'[q]
             /\ paid'[q] <= Limits'[q] + Slack
  <2>1. CASE q = p
    <3>1. Dues'[p] /\ paid'[p] = paid[p] + cost
      BY <1>1 DEF Lock!Covered, Lock!Pay
    <3>2. paid[p] <= Knowns[p]
      BY <1>4, <2>1 DEF Lock!Covered, Lock!Pay
    <3>3. paid[p] + cost <= Limits[p] + Slack
      BY <1>1, <1>2, <3>2
    <3> QED
      BY <2>1, <3>1, <3>3
  <2>2. CASE q # p
    BY <1>1, <1>4, <2>2 DEF Lock!Covered, Lock!OneCallOver, Lock!Pay
  <2> QED
    BY <2>1, <2>2
<1> QED
  BY <1>3, <1>4 DEF Lock!Covered, Lock!OneCallOver

\* What is learnt covers what was paid, and nobody else's figures change.
LEMMA LearnKeepsCovered ==
    ASSUME Slack \in Nat, Lock!Covered, UNCHANGED Limits, blind' \in [Procs -> BOOLEAN],
           \A q \in Procs : blind[q] => blind'[q],
           NEW p \in Procs, Lock!Learn(p)
    PROVE  Lock!Covered'
<1>1. /\ paid' \in [Procs -> Nat] /\ Dues' \in [Procs -> BOOLEAN]
      /\ Limits' \in [Procs -> Nat] /\ Knowns' \in [Procs -> Nat]
  BY DEF Lock!Covered, Lock!Learn
<1>2. ASSUME NEW q \in Procs, ~blind'[q]
      PROVE  /\ ~Dues'[q] => paid'[q] <= Knowns'[q]
             /\ paid'[q] <= Limits'[q] + Slack
  <2>1. paid'[q] <= Limits'[q] + Slack
    BY <1>2 DEF Lock!Covered, Lock!OneCallOver, Lock!Learn
  <2>2. CASE q = p
    BY <1>1, <1>2, <2>1, <2>2 DEF Lock!Learn
  <2>3. CASE q # p
    BY <1>2, <2>1, <2>3 DEF Lock!Covered, Lock!Learn
  <2> QED
    BY <2>2, <2>3
<1> QED
  BY <1>1, <1>2 DEF Lock!Covered, Lock!OneCallOver

\* A spender all of whose costs could be told exceeds its limit by at most one
\* call's misestimate, whoever spends beside it and however many calls it makes.
THEOREM LimitHolds == Lock!Spec => []Lock!OneCallOver
<1>0. Slack \in Nat
  BY SlackAssumption
<1>1. Lock!Init => Lock!Covered
  <2> SUFFICES ASSUME Lock!Init PROVE Lock!Covered
    OBVIOUS
  <2>1. /\ Limits \in [Procs -> Nat] /\ paid = [p \in Procs |-> 0] /\ Knowns = paid
        /\ Dues = [p \in Procs |-> FALSE] /\ blind = Dues
    BY DEF Lock!Init
  <2>2. Dues \in [Procs -> BOOLEAN] /\ blind \in [Procs -> BOOLEAN]
    BY <2>1, Zenon
  <2>3. /\ paid \in [Procs -> Nat] /\ Knowns \in [Procs -> Nat]
        /\ \A p \in Procs : paid[p] = Knowns[p] /\ paid[p] = 0
    BY <2>1
  <2>4. \A p \in Procs : paid[p] <= Knowns[p] /\ paid[p] <= Limits[p] + Slack
    BY <1>0, <2>1, <2>3
  <2> QED
    BY <2>1, <2>2, <2>3, <2>4 DEF Lock!Covered, Lock!OneCallOver
<1>2. Lock!Covered /\ [Lock!Next]_Lock!vars => Lock!Covered'
  <2> SUFFICES ASSUME Lock!Covered, [Lock!Next]_Lock!vars PROVE Lock!Covered'
    OBVIOUS
  <2>1. CASE UNCHANGED Lock!vars
    BY <2>1 DEF Lock!vars, Lock!Covered, Lock!OneCallOver
  <2>2. CASE Lock!Next
    <3> USE <2>2
    <3>1. /\ UNCHANGED Limits /\ blind' \in [Procs -> BOOLEAN]
          /\ \A q \in Procs : blind[q] => blind'[q]
      BY DEF Lock!Next
    <3>2. CASE Lock!Disturb
      BY <3>1, <3>2 DEF Lock!Disturb, Lock!Covered, Lock!OneCallOver
    <3>3. ASSUME NEW p \in Procs, Lock!Pay(p) PROVE Lock!Covered'
      BY <1>0, <3>1, <3>3, PayKeepsCovered
    <3>4. ASSUME NEW p \in Procs, Lock!Learn(p) PROVE Lock!Covered'
      BY <1>0, <3>1, <3>4, LearnKeepsCovered
    <3> QED
      BY <3>2, <3>3, <3>4 DEF Lock!Next
  <2> QED
    BY <2>1, <2>2
<1>3. Lock!Covered => Lock!OneCallOver
  BY DEF Lock!Covered
<1> QED
  BY <1>1, <1>2, <1>3, PTL DEF Lock!Spec

\* So a shot or a mission all of whose costs could be told has paid at most one
\* call's misestimate more than its limit.
THEOREM LimitsHold == Spec => []Lock!OneCallOver
  BY LocksAreHeld, LimitHolds, PTL DEF LocksHold
=============================================================================
