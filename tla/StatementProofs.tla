---------------------------- MODULE StatementProofs ----------------------------
(***************************************************************************)
(* Proofs about Statements and the rules that StatementRules holds it to.  *)
(*                                                                         *)
(* The invariant relates the tasks still to be done and the scopes alive   *)
(* to the tree that the tasks come from.  It is stated for any tree t, any *)
(* tasks ts and any scopes ss, so that the lemmas about a step speak of    *)
(* the old and the new ones alike.                                         *)
(***************************************************************************)
EXTENDS StatementRules, Integers, SequenceTheorems, FiniteSetTheorems, WellFoundedInduction, TLAPS

LEMMA Minimum ==
    ASSUME NEW T, T \subseteq Nat, T # {}
    PROVE  \E n \in T : \A m \in T : n <= m
<1> DEFINE R == OpToRel(<, Nat)
<1>1. IsWellFoundedOn(R, Nat)
  BY NatLessThanWellFounded
<1>2. PICK x \in T : \A y \in T : ~(<<y, x>> \in R)
  BY <1>1, WFMin
<1>3. \A a, b \in Nat : <<a, b>> \in R <=> a < b
  BY DEF OpToRel
<1> HIDE DEF R
<1>4. ASSUME NEW m \in T PROVE x <= m
  <2>1. ~(<<m, x>> \in R) /\ m \in Nat /\ x \in Nat
    BY <1>2
  <2>2. ~(m < x)
    BY <1>3, <2>1
  <2>3. QED BY <2>1, <2>2
<1>5. QED BY <1>4

LEMMA Maximum ==
    ASSUME NEW n \in Nat, NEW T, T \subseteq 0 .. n, T # {}
    PROVE  \E x \in T : \A y \in T : y <= x
<1> DEFINE U == {n - x : x \in T}
<1>1. U \subseteq Nat /\ U # {}
  <2>1. \A x \in T : n - x \in Nat
    OBVIOUS
  <2>2. QED BY <2>1
<1>2. PICK u \in U : \A w \in U : u <= w
  <2> HIDE DEF U
  <2>1. QED BY <1>1, Minimum
<1>3. PICK x \in T : u = n - x
  OBVIOUS
<1>4. ASSUME NEW y \in T PROVE y <= x
  <2>1. u <= n - y
    BY <1>2
  <2>2. x \in 0 .. n /\ y \in 0 .. n
    OBVIOUS
  <2> HIDE DEF U
  <2>3. QED BY <1>3, <2>1, <2>2
<1>5. QED BY <1>4

(* What is true of a number if it is of all smaller ones is true of all.   *)
LEMMA Induction ==
    ASSUME NEW n \in Nat, NEW P,
           \A m \in 1 .. n : (\A k \in 1 .. m - 1 : k \in P) => m \in P
    PROVE  1 .. n \subseteq P
<1> DEFINE T == {m \in 1 .. n : m \notin P}
<1>1. SUFFICES ASSUME T # {} PROVE FALSE
  OBVIOUS
<1>2. PICK m \in T : \A k \in T : m <= k
  <2>1. T \subseteq Nat
    OBVIOUS
  <2> HIDE DEF T
  <2>2. QED BY <1>1, <2>1, Minimum
<1>3. \A k \in 1 .. m - 1 : k \in P
  BY <1>2
<1>4. QED BY <1>3

(* Functions on a tree, told from the root to the leaves: par[n] is the    *)
(* parent of n, and step[n] what f[n] is made of.                          *)
Rooted(N, par) == N \in Nat /\ \A n \in 1 .. N : par[n] \in 0 .. n - 1
Steps(N, S, step) == \A n \in 1 .. N : \A s \in S : step[n][s] \in S
Told(N, par, base, step, f) ==
    \A n \in 1 .. N : f[n] = step[n][IF par[n] = 0 THEN base ELSE f[par[n]]]
Same(N, par, f, g) ==
    \A n \in 1 .. N : (par[n] # 0 => f[par[n]] = g[par[n]]) => f[n] = g[n]

LEMMA Recursion ==
    ASSUME NEW N, NEW par, Rooted(N, par),
           NEW S, NEW base \in S, NEW step, Steps(N, S, step)
    PROVE  \E f \in [1 .. N -> S] : Told(N, par, base, step, f)
<1> DEFINE Up(m, f) == \A n \in 1 .. m :
              f[n] \in S /\ f[n] = step[n][IF par[n] = 0 THEN base ELSE f[par[n]]]
           P == {m \in 0 .. N : \E f \in [1 .. m -> S] : Up(m, f)}
<1> N \in Nat /\ \A n \in 1 .. N : par[n] \in 0 .. n - 1
  BY DEF Rooted
<1> \A n \in 1 .. N : \A s \in S : step[n][s] \in S
  BY DEF Steps
<1>1. 0 \in P
  <2>1. [x \in {} |-> base] \in [1 .. 0 -> S]
    OBVIOUS
  <2>2. 1 .. 0 = {} /\ 0 \in 0 .. N
    OBVIOUS
  <2>3. QED BY <2>1, <2>2
<1>2. ASSUME NEW m \in 0 .. N - 1, m \in P PROVE m + 1 \in P
  <2>1. PICK f \in [1 .. m -> S] : Up(m, f)
    BY <1>2
  <2> DEFINE new == step[m + 1][IF par[m + 1] = 0 THEN base ELSE f[par[m + 1]]]
             g == [n \in 1 .. m + 1 |-> IF n = m + 1 THEN new ELSE f[n]]
  <2>2. m + 1 \in 1 .. N /\ par[m + 1] \in 0 .. m
    BY <1>2
  <2>3. (IF par[m + 1] = 0 THEN base ELSE f[par[m + 1]]) \in S
    <3>1. CASE par[m + 1] = 0
      BY <3>1
    <3>2. CASE par[m + 1] # 0
      BY <2>2, <3>2, <2>1
    <3>3. QED BY <3>1, <3>2
  <2>4. new \in S
    BY <2>2, <2>3
  <2> HIDE DEF new
  <2>5. g \in [1 .. m + 1 -> S]
    BY <2>1, <2>4
  <2>6. ASSUME NEW n \in 1 .. m + 1
        PROVE  g[n] \in S /\ g[n] = step[n][IF par[n] = 0 THEN base ELSE g[par[n]]]
    <3>1. m \in Nat
      OBVIOUS
    <3>2. CASE n = m + 1
      BY <2>2, <3>1, <3>2, <2>4 DEF new
    <3>3. CASE n # m + 1
      <4>1. n \in 1 .. m /\ n \in 1 .. N
        BY <1>2, <3>3
      <4>2. par[n] # 0 => par[n] \in 1 .. m + 1 /\ par[n] # m + 1
        BY <3>1, <4>1
      <4>3. par[n] # 0 => g[par[n]] = f[par[n]]
        BY <4>2
      <4>4. g[n] = f[n]
        BY <3>3
      <4>5. f[n] \in S /\ f[n] = step[n][IF par[n] = 0 THEN base ELSE f[par[n]]]
        BY <2>1, <4>1
      <4> HIDE DEF g
      <4>6. QED BY <4>3, <4>4, <4>5
    <3>4. QED BY <3>2, <3>3
  <2>7. Up(m + 1, g)
    BY <2>6
  <2> HIDE DEF g
  <2>8. m + 1 \in 0 .. N
    BY <1>2
  <2> HIDE DEF Up
  <2>9. QED BY <2>5, <2>7, <2>8
<1>3. N \in P
  <2> DEFINE Q == {k \in 1 .. N + 1 : k - 1 \in P}
  <2>1. ASSUME NEW k \in 1 .. N + 1, \A j \in 1 .. k - 1 : j \in Q PROVE k \in Q
    <3> HIDE DEF P
    <3>1. CASE k = 1
      BY <1>1, <3>1
    <3>2. CASE k # 1
      <4>1. k - 1 \in Q
        <5>1. k - 1 \in 1 .. k - 1
          BY <3>2
        <5> HIDE DEF Q
        <5>2. QED BY <2>1, <5>1
      <4>2. k - 1 - 1 \in P /\ k - 1 - 1 \in 0 .. N - 1
        BY <3>2, <4>1
      <4>3. (k - 1 - 1) + 1 \in P
        BY <1>2, <4>2
      <4>4. QED BY <4>3
    <3>3. QED BY <3>1, <3>2
  <2>2. 1 .. N + 1 \subseteq Q
    <3> HIDE DEF Q
    <3>1. N + 1 \in Nat
      OBVIOUS
    <3>2. QED BY <2>1, <3>1, Induction
  <2>3. N + 1 \in Q
    <3> HIDE DEF Q
    <3>1. N + 1 \in 1 .. N + 1
      OBVIOUS
    <3>2. QED BY <2>2, <3>1
  <2> HIDE DEF P
  <2>4. QED BY <2>3
<1>4. PICK f \in [1 .. N -> S] : Up(N, f)
  BY <1>3
<1>5. QED BY <1>4 DEF Told

LEMMA Determined ==
    ASSUME NEW N, NEW par, Rooted(N, par), NEW f, NEW g, Same(N, par, f, g)
    PROVE  \A n \in 1 .. N : f[n] = g[n]
<1> DEFINE P == {n \in 1 .. N : f[n] = g[n]}
<1>1. ASSUME NEW n \in 1 .. N, \A k \in 1 .. n - 1 : k \in P PROVE n \in P
  BY <1>1 DEF Rooted, Same
<1> HIDE DEF P
<1>2. 1 .. N \subseteq P
  BY <1>1, Induction DEF Rooted
<1>3. QED BY <1>2 DEF P

-----------------------------------------------------------------------------
(* Sequences of anything.                                                  *)

Sequential(s) == s \in Seq(Range(s))

LEMMA SequentialMeans ==
    ASSUME NEW s, Sequential(s)
    PROVE  Len(s) \in Nat /\ DOMAIN s = 1 .. Len(s) /\ s = [k \in 1 .. Len(s) |-> s[k]]
BY DEF Sequential

LEMMA SequentialIf ==
    ASSUME NEW n \in Nat, NEW s, s = [k \in 1 .. n |-> s[k]]
    PROVE  Sequential(s) /\ Len(s) = n /\ DOMAIN s = 1 .. n
<1>1. DOMAIN s = 1 .. n
  OBVIOUS
<1>2. \A k \in 1 .. n : s[k] \in Range(s)
  BY <1>1 DEF Range
<1>3. s \in [1 .. n -> Range(s)]
  BY <1>2
<1>4. s \in Seq(Range(s)) /\ Len(s) = n
  BY <1>1, <1>3
<1>5. QED BY <1>1, <1>4 DEF Sequential

LEMMA InSeq ==
    ASSUME NEW S, NEW s \in Seq(S)
    PROVE  Sequential(s)
    BY SequentialIf

LEMMA Appended ==
    ASSUME NEW s, Sequential(s), NEW e
    PROVE  /\ Sequential(Append(s, e)) /\ Len(Append(s, e)) = Len(s) + 1
           /\ DOMAIN Append(s, e) = 1 .. Len(s) + 1
           /\ \A k \in 1 .. Len(s) : Append(s, e)[k] = s[k]
           /\ Append(s, e)[Len(s) + 1] = e
<1> DEFINE S == Range(s) \cup {e}
<1>1. s \in Seq(S)
  BY DEF Sequential
<1> HIDE DEF S
<1>2. e \in S
  BY DEF S
<1>3. Append(s, e) \in Seq(S)
  BY <1>1, <1>2
<1>4. Sequential(Append(s, e))
  BY <1>3, InSeq
<1>5. Len(s) \in Nat
  BY <1>1
<1>6. QED BY <1>1, <1>2, <1>3, <1>4, <1>5

LEMMA Joined ==
    ASSUME NEW s, Sequential(s), NEW r, Sequential(r)
    PROVE  /\ Sequential(s \o r) /\ Len(s \o r) = Len(s) + Len(r)
           /\ DOMAIN (s \o r) = 1 .. Len(s) + Len(r)
           /\ \A k \in 1 .. Len(s) : (s \o r)[k] = s[k]
           /\ \A k \in Len(s) + 1 .. Len(s) + Len(r) : (s \o r)[k] = r[k - Len(s)]
<1> DEFINE S == Range(s) \cup Range(r)
<1>1. s \in Seq(S) /\ r \in Seq(S)
  BY DEF Sequential
<1> HIDE DEF S
<1>2. (s \o r) \in Seq(S)
  BY <1>1
<1>3. Len(s) \in Nat /\ Len(r) \in Nat
  BY <1>1
<1>4. Len(s \o r) = Len(s) + Len(r)
      /\ \A k \in 1 .. Len(s) + Len(r) : (s \o r)[k] = IF k <= Len(s) THEN s[k] ELSE r[k - Len(s)]
  BY <1>1, ConcatProperties
<1>5. \A k \in 1 .. Len(s) : k \in 1 .. Len(s) + Len(r) /\ k <= Len(s)
  BY <1>3
<1>6. \A k \in Len(s) + 1 .. Len(s) + Len(r) : k \in 1 .. Len(s) + Len(r) /\ ~(k <= Len(s))
  BY <1>3
<1>7. Sequential(s \o r) /\ DOMAIN (s \o r) = 1 .. Len(s \o r)
  <2> DEFINE q == s \o r
  <2>1. q \in Seq(S)
    BY <1>2
  <2> HIDE DEF q
  <2>2. Sequential(q) /\ DOMAIN q = 1 .. Len(q)
    BY <2>1, InSeq
  <2>3. QED BY <2>2 DEF q
<1>8. QED BY <1>4, <1>5, <1>6, <1>7

LEMMA Tailed ==
    ASSUME NEW s, Sequential(s), s # <<>>
    PROVE  /\ Sequential(Tail(s)) /\ Len(Tail(s)) = Len(s) - 1 /\ Len(s) \in Nat \ {0}
           /\ \A k \in 1 .. Len(s) - 1 : Tail(s)[k] = s[k + 1]
           /\ Head(s) = s[1]
<1> DEFINE S == Range(s)
<1>1. s \in Seq(S)
  BY DEF Sequential
<1> HIDE DEF S
<1>2. Tail(s) \in Seq(S)
  BY <1>1
<1>3. Sequential(Tail(s))
  BY <1>2, InSeq
<1>4. QED BY <1>1, <1>3, HeadTailProperties

(* The first task is replaced by these.                                    *)
LEMMA Replaced ==
    ASSUME NEW s, Sequential(s), s # <<>>, NEW r, Sequential(r)
    PROVE  LET new == r \o Tail(s)
           IN  /\ Sequential(new) /\ Len(new) = Len(r) + Len(s) - 1
               /\ DOMAIN new = 1 .. Len(r) + Len(s) - 1
               /\ \A k \in 1 .. Len(r) : new[k] = r[k]
               /\ \A k \in 2 .. Len(s) : new[Len(r) + k - 1] = s[k]
<1>1. /\ Sequential(Tail(s)) /\ Len(Tail(s)) = Len(s) - 1 /\ Len(s) \in Nat \ {0}
      /\ \A k \in 1 .. Len(s) - 1 : Tail(s)[k] = s[k + 1]
  BY Tailed
<1>2. Len(r) \in Nat
  BY SequentialMeans
<1> DEFINE new == r \o Tail(s)
           n == Len(r)
           m == Len(s)
<1>3. /\ Sequential(new) /\ Len(new) = n + (m - 1) /\ DOMAIN new = 1 .. n + (m - 1)
      /\ \A k \in 1 .. n : new[k] = r[k]
      /\ \A k \in n + 1 .. n + (m - 1) : new[k] = Tail(s)[k - n]
  BY <1>1, Joined
<1>4. m \in Nat \ {0} /\ n \in Nat
  BY <1>1, <1>2
<1>5. ASSUME NEW k \in 2 .. m PROVE new[n + k - 1] = s[k]
  <2> HIDE DEF n, m, new
  <2> DEFINE i == n + k - 1
  <2>1. i \in n + 1 .. n + (m - 1) /\ i - n = k - 1
    BY <1>4
  <2>2. k - 1 \in 1 .. m - 1 /\ k - 1 + 1 = k
    BY <1>4
  <2> HIDE DEF i
  <2>3. new[i] = Tail(s)[k - 1]
    BY <1>3, <2>1
  <2>4. Tail(s)[k - 1] = s[k]
    BY <1>1, <2>2 DEF m
  <2>5. QED BY <2>3, <2>4 DEF i
<1> HIDE DEF new
<1>6. n + (m - 1) = n + m - 1
  BY <1>4
<1>7. QED BY <1>3, <1>5, <1>6 DEF new

LEMMA Shortened ==
    ASSUME NEW s, Sequential(s), NEW m, m \in 0 .. Len(s)
    PROVE  /\ Sequential(SubSeq(s, 1, m)) /\ Len(SubSeq(s, 1, m)) = m
           /\ DOMAIN SubSeq(s, 1, m) = 1 .. m
           /\ \A k \in 1 .. m : SubSeq(s, 1, m)[k] = s[k]
<1>1. Len(s) \in Nat
  BY SequentialMeans
<1>2. m \in Nat
  BY <1>1
<1>3. PICK q : q = SubSeq(s, 1, m)
  OBVIOUS
<1>4. /\ q \in Seq(Range(s)) /\ Len(q) = (IF 1 <= m THEN m - 1 + 1 ELSE 0)
      /\ \A k \in 1 .. m - 1 + 1 : q[k] = s[1 + k - 1]
  BY <1>1, SequentialMeans, <1>2, <1>3, SubSeqProperties DEF Range
<1>5. Sequential(q) /\ DOMAIN q = 1 .. Len(q)
  BY <1>4, InSeq
<1>6. Len(q) = m /\ \A k \in 1 .. m : q[k] = s[k]
  BY <1>2, <1>4
<1>7. QED BY <1>3, <1>5, <1>6

-----------------------------------------------------------------------------
(* Trees.                                                                  *)

AboveIn(t) ==
    LET above[n \in DOMAIN t] ==
            IF t[n].parent = 0 THEN {} ELSE {t[n].parent} \cup above[t[n].parent]
    IN  above
OpensIn(t, n) ==
    IF t[n].form = "block" THEN 1 ELSE IF t[n].form = "with" THEN Len(t[n].arg) ELSE 0
DepthIn(t) ==
    LET depth[n \in DOMAIN t] ==
            OpensIn(t, n) + (IF t[n].parent = 0 THEN 0 ELSE depth[t[n].parent])
    IN  depth

(* A node and those around it; the number of scopes inside it.             *)
Around(t, n) == IF n = 0 THEN {} ELSE {n} \cup AboveIn(t)[n]
Deep(t, n) == IF n = 0 THEN 0 ELSE DepthIn(t)[n]

(* Nothing is in a goto statement, nor in a with statement that opens no   *)
(* record.                                                                 *)
Inhabited(t, n) == t[n].form # "goto" /\ (t[n].form = "with" => t[n].fine)

(* Blocks are in blocks, the outermost is the program.                     *)
IsNode(t, n) ==
    /\ t[n].parent \in 0 .. n - 1
    /\ t[n].parent = 0 <=> n = 1
    /\ n = 1 => t[n].form = "block"
    /\ t[n].form = "block" =>
          /\ ~t[n].inSequence /\ t[n].label = NoLabel
          /\ t[n].parent # 0 =>
                /\ t[t[n].parent].form = "block"
                /\ t[n].use = t[t[n].parent].names[t[n].arg]
    /\ t[n].form = "with" => Sequential(t[n].arg)
    /\ t[n].parent # 0 => Inhabited(t, t[n].parent)
IsTree(t) == Sequential(t) /\ \A n \in 1 .. Len(t) : IsNode(t, n)

IsAbove(t, N, f) ==
    \A n \in 1 .. N : f[n] = IF t[n].parent = 0 THEN {} ELSE {t[n].parent} \cup f[t[n].parent]
IsDepth(t, N, f) ==
    \A n \in 1 .. N : f[n] = OpensIn(t, n) + (IF t[n].parent = 0 THEN 0 ELSE f[t[n].parent])
Parents(t, N) == [n \in 1 .. N |-> t[n].parent]

LEMMA ParentsRooted ==
    ASSUME NEW t, IsTree(t), NEW N \in 0 .. Len(t)
    PROVE  Rooted(N, Parents(t, N))
    BY SequentialMeans DEF IsTree, IsNode, Rooted, Parents

LEMMA OneAbove ==
    ASSUME NEW t, IsTree(t), NEW N \in 0 .. Len(t),
           NEW f, IsAbove(t, N, f), NEW g, IsAbove(t, N, g)
    PROVE  \A n \in 1 .. N : f[n] = g[n]
<1>1. Rooted(N, Parents(t, N))
  BY ParentsRooted
<1>2. ASSUME NEW n \in 1 .. N, Parents(t, N)[n] # 0 => f[Parents(t, N)[n]] = g[Parents(t, N)[n]]
      PROVE  f[n] = g[n]
  <2>1. Parents(t, N)[n] = t[n].parent
    BY DEF Parents
  <2>2. CASE t[n].parent = 0
    BY <2>2 DEF IsAbove
  <2>3. CASE t[n].parent # 0
    BY <1>2, <2>1, <2>3 DEF IsAbove
  <2>4. QED BY <2>2, <2>3
<1>3. Same(N, Parents(t, N), f, g)
  BY <1>2 DEF Same
<1>4. QED BY <1>1, <1>3, Determined

LEMMA OneDepth ==
    ASSUME NEW t, IsTree(t), NEW N \in 0 .. Len(t),
           NEW f, IsDepth(t, N, f), NEW g, IsDepth(t, N, g)
    PROVE  \A n \in 1 .. N : f[n] = g[n]
<1>1. Rooted(N, Parents(t, N))
  BY ParentsRooted
<1>2. ASSUME NEW n \in 1 .. N, Parents(t, N)[n] # 0 => f[Parents(t, N)[n]] = g[Parents(t, N)[n]]
      PROVE  f[n] = g[n]
  <2>1. Parents(t, N)[n] = t[n].parent
    BY DEF Parents
  <2>2. CASE t[n].parent = 0
    BY <2>2 DEF IsDepth
  <2>3. CASE t[n].parent # 0
    BY <1>2, <2>1, <2>3 DEF IsDepth
  <2>4. QED BY <2>2, <2>3
<1>3. Same(N, Parents(t, N), f, g)
  BY <1>2 DEF Same
<1>4. QED BY <1>1, <1>3, Determined

LEMMA Ancestry ==
    ASSUME NEW t, IsTree(t)
    PROVE  \A n \in 1 .. Len(t) :
              /\ AboveIn(t)[n] = IF t[n].parent = 0 THEN {}
                                 ELSE {t[n].parent} \cup AboveIn(t)[t[n].parent]
              /\ AboveIn(t)[n] \subseteq 1 .. Len(t)
<1> DEFINE N == Len(t)
           S == SUBSET (1 .. N)
           par == [n \in 1 .. N |-> t[n].parent]
           step == [n \in 1 .. N |-> [s \in S |->
                       IF par[n] = 0 THEN {} ELSE {par[n]} \cup s]]
           Good(f) == f = [n \in DOMAIN t |->
                       IF t[n].parent = 0 THEN {} ELSE {t[n].parent} \cup f[t[n].parent]]
<1>1. N \in Nat /\ DOMAIN t = 1 .. N /\ \A n \in 1 .. N : t[n].parent \in 0 .. n - 1
  BY SequentialMeans DEF IsTree, IsNode
<1>2. \A n \in 1 .. N : par[n] \in 0 .. n - 1 /\ par[n] = t[n].parent
  BY <1>1
<1>3. \A n \in 1 .. N : par[n] # 0 => par[n] \in 1 .. N
  <2> HIDE DEF par
  <2>1. QED BY <1>1, <1>2
<1>4. \A n \in 1 .. N : \A s \in S : step[n][s] = (IF par[n] = 0 THEN {} ELSE {par[n]} \cup s)
  <2> HIDE DEF par, S
  <2>1. QED OBVIOUS
<1>5. Steps(N, S, step) /\ Rooted(N, par)
  <2> HIDE DEF par, step
  <2>1. \A n \in 1 .. N : \A s \in S : step[n][s] \in S
    BY <1>3, <1>4
  <2> HIDE DEF N, S
  <2>2. Steps(N, S, step)
    BY <2>1 DEF Steps
  <2>3. Rooted(N, par)
    BY <1>1, <1>2 DEF Rooted
  <2>4. QED BY <2>2, <2>3
<1>6. {} \in S
  OBVIOUS
<1>7. PICK f \in [1 .. N -> S] : Told(N, par, {}, step, f)
  <2> HIDE DEF par, step, S, N
  <2>1. QED BY <1>5, <1>6, Recursion
<1>8. \A n \in 1 .. N : f[n] \in S
                        /\ f[n] = IF t[n].parent = 0 THEN {} ELSE {t[n].parent} \cup f[t[n].parent]
  <2> HIDE DEF par, step, S, N
  <2>1. ASSUME NEW n \in 1 .. N
        PROVE  f[n] \in S /\ f[n] = IF par[n] = 0 THEN {} ELSE {par[n]} \cup f[par[n]]
    <3>1. f[n] = step[n][IF par[n] = 0 THEN {} ELSE f[par[n]]] /\ f[n] \in S
      BY <1>7 DEF Told
    <3>2. CASE par[n] = 0
      BY <1>4, <1>6, <3>1, <3>2
    <3>3. CASE par[n] # 0
      BY <1>3, <1>7, <3>3, <1>4, <3>1
    <3>4. QED BY <3>2, <3>3
  <2>2. QED BY <1>2, <2>1
<1>9. Good(f)
  <2> HIDE DEF S, N
  <2>1. QED BY <1>1, <1>7, <1>8
<1>10. AboveIn(t) = CHOOSE g : Good(g)
  BY DEF AboveIn
<1>11. Good(AboveIn(t))
  <2> HIDE DEF Good
  <2>1. QED BY <1>9, <1>10
<1>12. IsAbove(t, N, AboveIn(t))
  <2> DEFINE A == AboveIn(t)
  <2>1. A = [n \in DOMAIN t |-> IF t[n].parent = 0 THEN {} ELSE {t[n].parent} \cup A[t[n].parent]]
    BY <1>11
  <2> HIDE DEF A
  <2>2. \A n \in DOMAIN t : A[n] = IF t[n].parent = 0 THEN {} ELSE {t[n].parent} \cup A[t[n].parent]
    BY <2>1
  <2>3. QED BY <1>1, <2>2 DEF IsAbove, A
<1>13. \A n \in 1 .. N : AboveIn(t)[n] = f[n]
  <2>1. IsAbove(t, N, f)
    BY <1>8 DEF IsAbove
  <2>2. N \in 0 .. Len(t)
    BY <1>1
  <2> HIDE DEF N
  <2>3. QED BY <1>12, <2>1, <2>2, OneAbove
<1>14. QED BY <1>8, <1>12, <1>13 DEF IsAbove

LEMMA DepthEquation ==
    ASSUME NEW t, IsTree(t)
    PROVE  \A n \in 1 .. Len(t) :
              /\ OpensIn(t, n) \in Nat
              /\ DepthIn(t)[n] = OpensIn(t, n) + (IF t[n].parent = 0 THEN 0
                                                  ELSE DepthIn(t)[t[n].parent])
              /\ DepthIn(t)[n] \in Nat
<1> DEFINE N == Len(t)
           par == [n \in 1 .. N |-> t[n].parent]
           opens == [n \in 1 .. N |-> OpensIn(t, n)]
           step == [n \in 1 .. N |-> [s \in Nat |-> opens[n] + s]]
           Good(f) == f = [n \in DOMAIN t |->
                       OpensIn(t, n) + (IF t[n].parent = 0 THEN 0 ELSE f[t[n].parent])]
<1>1. N \in Nat /\ DOMAIN t = 1 .. N /\ \A n \in 1 .. N : t[n].parent \in 0 .. n - 1
  BY SequentialMeans DEF IsTree, IsNode
<1>2. \A n \in 1 .. N : par[n] \in 0 .. n - 1 /\ par[n] = t[n].parent
  BY <1>1
<1>3. \A n \in 1 .. N : par[n] # 0 => par[n] \in 1 .. N
  <2> HIDE DEF par
  <2>1. QED BY <1>1, <1>2
<1>4. \A n \in 1 .. N : OpensIn(t, n) \in Nat /\ opens[n] = OpensIn(t, n)
  <2>1. ASSUME NEW n \in 1 .. N PROVE OpensIn(t, n) \in Nat
    BY SequentialMeans DEF IsTree, IsNode, OpensIn
  <2>2. QED BY <2>1
<1>5. \A n \in 1 .. N : \A s \in Nat : step[n][s] = opens[n] + s
  <2> HIDE DEF opens
  <2>1. QED OBVIOUS
<1>6. Steps(N, Nat, step) /\ Rooted(N, par)
  <2> HIDE DEF opens, step, par, N
  <2>1. \A n \in 1 .. N : \A s \in Nat : step[n][s] \in Nat
    BY <1>4, <1>5
  <2>2. Steps(N, Nat, step)
    BY <2>1 DEF Steps
  <2>3. Rooted(N, par)
    BY <1>1, <1>2 DEF Rooted
  <2>4. QED BY <2>2, <2>3
<1>7. PICK f \in [1 .. N -> Nat] : Told(N, par, 0, step, f)
  <2> HIDE DEF par, step, N
  <2>1. QED BY <1>6, Recursion
<1>8. \A n \in 1 .. N : f[n] \in Nat
                        /\ f[n] = OpensIn(t, n) + (IF t[n].parent = 0 THEN 0 ELSE f[t[n].parent])
  <2> HIDE DEF par, step, opens, N
  <2>1. ASSUME NEW n \in 1 .. N
        PROVE  f[n] \in Nat /\ f[n] = opens[n] + (IF par[n] = 0 THEN 0 ELSE f[par[n]])
    <3>1. f[n] = step[n][IF par[n] = 0 THEN 0 ELSE f[par[n]]] /\ f[n] \in Nat
      BY <1>7 DEF Told
    <3>2. CASE par[n] = 0
      BY <1>5, <3>1, <3>2
    <3>3. CASE par[n] # 0
      BY <1>3, <1>7, <3>3, <1>5, <3>1
    <3>4. QED BY <3>2, <3>3
  <2>2. QED BY <1>2, <1>4, <2>1
<1>9. Good(f)
  <2> HIDE DEF N
  <2>1. QED BY <1>1, <1>7, <1>8
<1>10. DepthIn(t) = CHOOSE g : Good(g)
  BY DEF DepthIn
<1>11. Good(DepthIn(t))
  <2> HIDE DEF Good
  <2>1. QED BY <1>9, <1>10
<1>12. IsDepth(t, N, DepthIn(t))
  <2> DEFINE A == DepthIn(t)
  <2>1. A = [n \in DOMAIN t |-> OpensIn(t, n) + (IF t[n].parent = 0 THEN 0 ELSE A[t[n].parent])]
    BY <1>11
  <2> HIDE DEF A
  <2>2. \A n \in DOMAIN t : A[n] = OpensIn(t, n) + (IF t[n].parent = 0 THEN 0 ELSE A[t[n].parent])
    BY <2>1
  <2>3. QED BY <1>1, <2>2 DEF IsDepth, A
<1>13. \A n \in 1 .. N : DepthIn(t)[n] = f[n]
  <2>1. IsDepth(t, N, f)
    BY <1>8 DEF IsDepth
  <2>2. N \in 0 .. Len(t)
    BY <1>1
  <2> HIDE DEF N
  <2>3. QED BY <1>12, <2>1, <2>2, OneDepth
<1>14. QED BY <1>4, <1>8, <1>12, <1>13 DEF IsDepth

LEMMA Root ==
    ASSUME NEW t
    PROVE  Around(t, 0) = {} /\ Deep(t, 0) = 0
BY DEF Around, Deep

LEMMA Unfold ==
    ASSUME NEW t, IsTree(t), NEW n \in 1 .. Len(t)
    PROVE  /\ t[n].parent \in 0 .. n - 1 /\ t[n].parent \in 0 .. Len(t) /\ n \in Nat /\ Len(t) \in Nat
           /\ Around(t, n) = {n} \cup Around(t, t[n].parent)
           /\ Deep(t, n) = OpensIn(t, n) + Deep(t, t[n].parent)
           /\ OpensIn(t, n) \in Nat /\ Deep(t, n) \in Nat /\ Deep(t, t[n].parent) \in Nat
<1>1. Len(t) \in Nat /\ t[n].parent \in 0 .. n - 1
  BY SequentialMeans DEF IsTree, IsNode
<1>2. t[n].parent # 0 => t[n].parent \in 1 .. Len(t)
  BY <1>1
<1>3. t[n].parent \in 0 .. Len(t) /\ n \in Nat /\ n # 0
  BY <1>1
<1>4. Around(t, n) = {n} \cup Around(t, t[n].parent)
  <2>1. CASE t[n].parent = 0
    BY <1>3, <2>1, Ancestry DEF Around
  <2>2. CASE t[n].parent # 0
    BY <1>3, <2>2, Ancestry DEF Around
  <2>3. QED BY <2>1, <2>2
<1>5. OpensIn(t, n) \in Nat /\ DepthIn(t)[n] \in Nat /\ Deep(t, n) = DepthIn(t)[n]
  BY <1>3, DepthEquation DEF Deep
<1>6. Deep(t, t[n].parent) \in Nat
  BY <1>2, DepthEquation DEF Deep
<1>7. Deep(t, n) = OpensIn(t, n) + Deep(t, t[n].parent)
  BY <1>5, DepthEquation DEF Deep
<1>8. QED BY <1>1, <1>3, <1>4, <1>5, <1>6, <1>7

LEMMA DeepNat ==
    ASSUME NEW t, IsTree(t), NEW n \in 0 .. Len(t)
    PROVE  Deep(t, n) \in Nat
<1>1. Len(t) \in Nat
  BY SequentialMeans DEF IsTree
<1>2. CASE n = 0
  BY <1>2, Root
<1>3. CASE n # 0
  BY <1>1, <1>3, Unfold
<1>4. QED BY <1>2, <1>3

(* The place of the j-th scope of node m.                                  *)
Place(t, m, j) == Deep(t, t[m].parent) + j

Line(t, n) ==
    /\ Around(t, n) \subseteq 1 .. n
    /\ \A m \in Around(t, n) :
          /\ Around(t, m) \subseteq Around(t, n)
          /\ Deep(t, m) <= Deep(t, n)
          /\ \A k \in Around(t, n) : m <= k => m \in Around(t, k)
    /\ \A p \in 1 .. Deep(t, n) : \E m \in Around(t, n) : \E j \in 1 .. OpensIn(t, m) :
          p = Place(t, m, j)

LEMMA RootLine ==
    ASSUME NEW t
    PROVE  Line(t, 0)
    BY Root DEF Line

LEMMA NextLine ==
    ASSUME NEW t, IsTree(t), NEW n \in 1 .. Len(t), Line(t, t[n].parent)
    PROVE  Line(t, n)
<1> DEFINE p == t[n].parent
<1>1. /\ p \in 0 .. n - 1 /\ n \in Nat /\ Around(t, n) = {n} \cup Around(t, p)
      /\ Deep(t, n) = OpensIn(t, n) + Deep(t, p)
      /\ OpensIn(t, n) \in Nat /\ Deep(t, n) \in Nat /\ Deep(t, p) \in Nat
  BY Unfold
<1>2. /\ Around(t, p) \subseteq 1 .. p
      /\ \A m \in Around(t, p) :
            /\ Around(t, m) \subseteq Around(t, p)
            /\ Deep(t, m) <= Deep(t, p)
            /\ \A k \in Around(t, p) : m <= k => m \in Around(t, k)
      /\ \A q \in 1 .. Deep(t, p) : \E m \in Around(t, p) : \E j \in 1 .. OpensIn(t, m) :
            q = Place(t, m, j)
  BY DEF Line
<1>3. n \in 1 .. Len(t) /\ t[n].parent = p
  OBVIOUS
<1> HIDE DEF p
<1>4. \A m \in Around(t, p) : m \in 1 .. p /\ m \in 1 .. Len(t) /\ m < n /\ m \in Nat
  BY Unfold, <1>1, <1>2
<1>5. Around(t, n) \subseteq 1 .. n
  BY <1>1, <1>4
<1>6. ASSUME NEW m \in Around(t, n)
      PROVE  /\ Around(t, m) \subseteq Around(t, n)
             /\ Deep(t, m) <= Deep(t, n)
             /\ \A k \in Around(t, n) : m <= k => m \in Around(t, k)
  <2>1. CASE m = n
    BY <1>1, <1>4, <2>1
  <2>2. CASE m # n
    <3>1. m \in Around(t, p)
      BY <1>1, <2>2
    <3>2. Deep(t, m) \in Nat
      BY <1>4, <3>1, Unfold
    <3>3. Deep(t, m) <= Deep(t, n)
      BY <1>1, <1>2, <3>1, <3>2
    <3>4. Around(t, m) \subseteq Around(t, n)
      BY <1>1, <1>2, <3>1
    <3>5. \A k \in Around(t, n) : m <= k => m \in Around(t, k)
      BY <1>2, <3>1, <1>1
    <3>6. QED BY <3>3, <3>4, <3>5
  <2>3. QED BY <2>1, <2>2
<1>7. ASSUME NEW q \in 1 .. Deep(t, n)
      PROVE  \E m \in Around(t, n) : \E j \in 1 .. OpensIn(t, m) : q = Place(t, m, j)
  <2>1. CASE q <= Deep(t, p)
    <3>1. q \in 1 .. Deep(t, p)
      BY <1>1, <2>1
    <3>2. PICK m \in Around(t, p) : \E j \in 1 .. OpensIn(t, m) : q = Place(t, m, j)
      BY <1>2, <3>1
    <3>3. m \in Around(t, n)
      BY <1>1
    <3>4. QED BY <3>2, <3>3
  <2>2. CASE ~(q <= Deep(t, p))
    <3> DEFINE j == q - Deep(t, p)
    <3>1. j \in 1 .. OpensIn(t, n) /\ q = Deep(t, p) + j
      BY <1>1, <2>2
    <3>2. n \in Around(t, n)
      BY <1>1
    <3> HIDE DEF j
    <3>3. q = Place(t, n, j)
      BY <1>3, <3>1 DEF Place
    <3>4. QED BY <3>1, <3>2, <3>3
  <2>3. QED BY <2>1, <2>2
<1>8. QED BY <1>5, <1>6, <1>7 DEF Line

LEMMA Lines ==
    ASSUME NEW t, IsTree(t), NEW n \in 0 .. Len(t)
    PROVE  Line(t, n)
<1> DEFINE P == {m \in 1 .. Len(t) : Line(t, m)}
<1>1. Len(t) \in Nat
  BY SequentialMeans DEF IsTree
<1>2. ASSUME NEW m \in 1 .. Len(t), \A k \in 1 .. m - 1 : k \in P PROVE m \in P
  <2>1. t[m].parent \in 0 .. m - 1
    BY Unfold
  <2>2. Line(t, t[m].parent)
    <3>1. CASE t[m].parent = 0
      BY <3>1, RootLine
    <3>2. CASE t[m].parent # 0
      BY <2>1, <3>2, <1>2
    <3>3. QED BY <3>1, <3>2
  <2>3. QED BY <2>2, NextLine
<1>3. 1 .. Len(t) \subseteq P
  <2> HIDE DEF P
  <2>1. QED BY <1>1, <1>2, Induction
<1>4. CASE n = 0
  BY <1>4, RootLine
<1>5. CASE n # 0
  BY <1>1, <1>5, <1>3
<1>6. QED BY <1>4, <1>5

(* Of two nodes around a third, the later has its scopes after the other.  *)
LEMMA Ordered ==
    ASSUME NEW t, IsTree(t), NEW n \in 0 .. Len(t),
           NEW m \in Around(t, n), NEW k \in Around(t, n), m < k
    PROVE  m \in Around(t, t[k].parent) /\ Deep(t, m) <= Deep(t, t[k].parent)
<1>1. Line(t, n)
  BY Lines
<1>2. Len(t) \in Nat /\ Around(t, n) \subseteq 1 .. n
  BY <1>1, SequentialMeans DEF Line, IsTree
<1>3. m \in 1 .. Len(t) /\ k \in 1 .. Len(t) /\ m <= k /\ m # k
  BY <1>2
<1>4. m \in Around(t, k)
  BY <1>1, <1>3 DEF Line
<1>5. t[k].parent \in 0 .. Len(t) /\ Around(t, k) = {k} \cup Around(t, t[k].parent)
  BY <1>3, Unfold
<1>6. m \in Around(t, t[k].parent)
  BY <1>3, <1>4, <1>5
<1>7. Line(t, t[k].parent)
  BY <1>5, Lines
<1>8. QED BY <1>6, <1>7 DEF Line

LEMMA Program ==
    ASSUME NEW t, IsTree(t), NEW n \in 1 .. Len(t)
    PROVE  1 \in Around(t, n) /\ t[1].form = "block"
<1> DEFINE P == {m \in 1 .. Len(t) : 1 \in Around(t, m)}
<1>1. Len(t) \in Nat
  BY SequentialMeans DEF IsTree
<1>2. ASSUME NEW m \in 1 .. Len(t), \A k \in 1 .. m - 1 : k \in P PROVE m \in P
  <2>1. t[m].parent \in 0 .. m - 1 /\ Around(t, m) = {m} \cup Around(t, t[m].parent)
    BY Unfold
  <2>2. CASE t[m].parent = 0
    BY <2>2, <2>1 DEF IsTree, IsNode
  <2>3. CASE t[m].parent # 0
    BY <2>1, <2>3, <1>2
  <2>4. QED BY <2>2, <2>3
<1>3. 1 .. Len(t) \subseteq P
  <2> HIDE DEF P
  <2>1. QED BY <1>1, <1>2, Induction
<1>4. 1 \in 1 .. Len(t)
  BY <1>1
<1>5. t[1].form = "block"
  BY <1>4 DEF IsTree, IsNode
<1>6. QED BY <1>3, <1>5

-----------------------------------------------------------------------------
(* Tasks.                                                                  *)

LeaveOps == {"leaveWith", "leaveBlock"}

TaskRight(t, task) ==
    /\ Home(task) \in 0 .. Len(t)
    /\ task.op \in {"statement", "block", "subroutines"} \cup LeaveOps
    /\ task.op = "block" /\ task.parent # 0 =>
          t[task.parent].form = "block" /\ task.use = t[task.parent].names[task.name]
    /\ task.op # "block" => Home(task) # 0
    /\ task.op = "statement" => Inhabited(t, task.parent)
    /\ task.op \in {"subroutines", "leaveBlock"} => t[Home(task)].form = "block"
    /\ task.op = "leaveWith" => t[Home(task)].form = "with"
    /\ task.op \in LeaveOps => task.count = OpensIn(t, task.node)
TasksRight(t, ts) == Sequential(ts) /\ \A k \in 1 .. Len(ts) : TaskRight(t, ts[k])

(* The number of scopes alive before a task, and after it.                 *)
Before(t, task) == Deep(t, Home(task))
Left(t, task) ==
    IF task.op \in LeaveOps THEN Deep(t, t[task.node].parent) ELSE Before(t, task)

(* The tasks lead from one number of scopes to another, through no fewer   *)
(* than the latter, nor than any task still needs.                         *)
Leads(t, ts, from, to) ==
    IF ts = <<>> THEN from = to
    ELSE /\ from = Before(t, ts[1])
         /\ \A i \in 1 .. Len(ts) :
               /\ Left(t, ts[i]) = IF i = Len(ts) THEN to ELSE Before(t, ts[i + 1])
               /\ to <= Left(t, ts[i])
         /\ \A i, j \in 1 .. Len(ts) : i < j => Before(t, ts[j]) <= Left(t, ts[i])

LEMMA EmptySequence ==
    /\ Sequential(<<>>) /\ Len(<<>>) = 0
    /\ \A s : Sequential(s) => (s = <<>> <=> Len(s) = 0)
    /\ \A s : Sequential(s) /\ s # <<>> => 1 \in 1 .. Len(s)
<1>1. Sequential(<<>>) /\ Len(<<>>) = 0
  <2>1. <<>> \in Seq({})
    OBVIOUS
  <2>2. QED BY <2>1, InSeq
<1>2. ASSUME NEW s, Sequential(s) PROVE s = <<>> <=> Len(s) = 0
  BY <1>2, EmptySeq DEF Sequential
<1>3. ASSUME NEW s, Sequential(s), s # <<>> PROVE 1 \in 1 .. Len(s)
  BY <1>2, <1>3, SequentialMeans
<1>4. QED BY <1>1, <1>2, <1>3

LEMMA Single ==
    ASSUME NEW e
    PROVE  Sequential(<<e>>) /\ Len(<<e>>) = 1 /\ <<e>>[1] = e /\ <<e>> # <<>>
<1>1. <<e>> \in Seq({e})
  OBVIOUS
<1>2. QED BY <1>1, InSeq

LEMMA BeforeNat ==
    ASSUME NEW t, IsTree(t), NEW task, TaskRight(t, task)
    PROVE  Before(t, task) \in Nat /\ Left(t, task) \in Nat /\ Left(t, task) <= Before(t, task)
<1>1. Home(task) \in 0 .. Len(t) /\ Before(t, task) \in Nat
  BY DeepNat DEF TaskRight, Before
<1>2. CASE task.op \notin LeaveOps
  BY <1>1, <1>2 DEF Left
<1>3. CASE task.op \in LeaveOps
  BY <1>3, SequentialMeans, <1>1, Unfold DEF TaskRight, Home, LeaveOps, IsTree, Left, Before
<1>4. QED BY <1>2, <1>3

LEMMA LeadsOn ==
    ASSUME NEW t, NEW ts, IsTree(t), TasksRight(t, ts), ts # <<>>,
           NEW from, NEW to, Leads(t, ts, from, to)
    PROVE  /\ TasksRight(t, Tail(ts)) /\ Leads(t, Tail(ts), Left(t, ts[1]), to)
           /\ to <= Left(t, ts[1]) /\ from = Before(t, ts[1]) /\ TaskRight(t, ts[1])
           /\ \A k \in 1 .. Len(Tail(ts)) : Before(t, Tail(ts)[k]) <= Left(t, ts[1])
<1> DEFINE r == Tail(ts)
           n == Len(ts)
<1>1. Sequential(ts) /\ n \in Nat \ {0} /\ 1 \in 1 .. n
  BY Tailed, EmptySequence DEF TasksRight
<1>2. Sequential(r) /\ Len(r) = n - 1 /\ \A k \in 1 .. n - 1 : r[k] = ts[k + 1]
  BY <1>1, Tailed
<1>3. TasksRight(t, r)
  <2>1. \A k \in 1 .. n - 1 : k + 1 \in 1 .. n
    BY <1>1
  <2> HIDE DEF r
  <2>2. QED BY <1>2, <2>1 DEF TasksRight
<1>4. to <= Left(t, ts[1]) /\ from = Before(t, ts[1]) /\ TaskRight(t, ts[1])
  BY <1>1 DEF Leads, TasksRight
<1> HIDE DEF r, n
<1>5. \A i \in 1 .. n - 1 : i + 1 \in 1 .. n /\ 1 < i + 1
  BY <1>1
<1>6. \A k \in 1 .. Len(r) : Before(t, r[k]) <= Left(t, ts[1])
  BY <1>1, <1>2, <1>5 DEF Leads, n
<1>7. Leads(t, r, Left(t, ts[1]), to)
  <2>1. CASE r = <<>>
    BY <1>1, <1>2, <2>1, EmptySequence DEF Leads, n
  <2>2. CASE r # <<>>
    <3>1. 1 \in 1 .. n - 1 /\ 1 # n
      BY <1>2, <2>2, EmptySequence, <1>1
    <3>2. r[1] = ts[1 + 1] /\ Left(t, ts[1]) = Before(t, ts[1 + 1])
      BY <1>1, <1>2, <3>1 DEF Leads, n
    <3>3. ASSUME NEW i \in 1 .. n - 1
          PROVE  /\ Left(t, r[i]) = IF i = n - 1 THEN to ELSE Before(t, r[i + 1])
                 /\ to <= Left(t, r[i])
      <4> DEFINE k == i + 1
      <4>1. k \in 1 .. n /\ (k = n <=> i = n - 1) /\ (k # n => k \in 1 .. n - 1)
        BY <1>1
      <4>2. r[i] = ts[k] /\ (k # n => r[k] = ts[k + 1])
        BY <1>2, <4>1
      <4> HIDE DEF k
      <4>3. /\ Left(t, ts[k]) = IF k = n THEN to ELSE Before(t, ts[k + 1])
            /\ to <= Left(t, ts[k])
        BY <4>1 DEF Leads, n
      <4>4. QED BY <4>1, <4>2, <4>3 DEF k
    <3>4. ASSUME NEW i \in 1 .. n - 1, NEW j \in 1 .. n - 1, i < j
          PROVE  Before(t, r[j]) <= Left(t, r[i])
      BY <1>1, <3>4, <1>2 DEF Leads, n
    <3>5. QED BY <1>2, <2>2, <3>2, <3>3, <3>4 DEF Leads
  <2>3. QED BY <2>1, <2>2
<1>8. QED BY <1>3, <1>4, <1>6, <1>7 DEF r

LEMMA LeadsJoin ==
    ASSUME NEW t, IsTree(t), NEW a, TasksRight(t, a), NEW b, TasksRight(t, b),
           NEW from, NEW mid \in Nat, NEW to \in Nat, to <= mid,
           Leads(t, a, from, mid), Leads(t, b, mid, to),
           \A k \in 1 .. Len(b) : Before(t, b[k]) <= mid
    PROVE  TasksRight(t, a \o b) /\ Leads(t, a \o b, from, to)
<1> DEFINE c == a \o b
           p == Len(a)
           q == Len(b)
<1>1. /\ Sequential(a) /\ Sequential(b) /\ p \in Nat /\ q \in Nat
  BY SequentialMeans DEF TasksRight
<1>2. /\ Sequential(c) /\ Len(c) = p + q
      /\ \A k \in 1 .. p : c[k] = a[k]
      /\ \A k \in p + 1 .. p + q : c[k] = b[k - p]
  BY <1>1, Joined
<1> HIDE DEF c, p, q
<1>3. \A k \in p + 1 .. p + q : k - p \in 1 .. q
  BY <1>1
<1>4. ASSUME NEW k \in 1 .. p + q PROVE k \in 1 .. p \/ k \in p + 1 .. p + q
  BY <1>1
<1>5. TasksRight(t, c)
  <2>1. ASSUME NEW k \in 1 .. p + q PROVE TaskRight(t, c[k])
    <3>1. CASE k \in 1 .. p
      BY <1>2, <3>1 DEF TasksRight, p
    <3>2. CASE k \in p + 1 .. p + q
      BY <1>2, <1>3, <3>2 DEF TasksRight, q
    <3>3. QED BY <1>4, <3>1, <3>2
  <2>2. QED BY <1>2, <2>1 DEF TasksRight
<1>6. \A k \in 1 .. p + q : Left(t, c[k]) \in Nat /\ Before(t, c[k]) \in Nat
  BY <1>2, <1>5, BeforeNat DEF TasksRight
<1>7. a = <<>> \/ (a # <<>> /\ 1 \in 1 .. p /\ p # 0)
  BY <1>1, EmptySequence DEF p
<1>8. b = <<>> \/ (b # <<>> /\ 1 \in 1 .. q /\ q # 0)
  BY <1>1, EmptySequence DEF q
<1>9. (a = <<>> => p = 0) /\ (b = <<>> => q = 0)
  BY EmptySequence DEF p, q
<1>10. CASE a = <<>> /\ b = <<>>
  BY <1>1, <1>2, <1>9, <1>10, EmptySequence, <1>5 DEF Leads, c
<1>11. CASE a # <<>> \/ b # <<>>
  <2>1. c # <<>> /\ p + q \in Nat \ {0}
    BY <1>1, <1>7, <1>8, <1>11, <1>2, EmptySequence
  <2>2. from = Before(t, c[1])
    <3>1. CASE a # <<>>
      BY <1>2, <1>7, <3>1 DEF Leads
    <3>2. CASE a = <<>>
      BY <1>8, <1>9, <1>11, <3>2, <1>1, <1>2 DEF Leads
    <3>3. QED BY <3>1, <3>2
  <2>3. ASSUME NEW i \in 1 .. p
        PROVE  /\ Left(t, c[i]) = IF i = p THEN mid ELSE Before(t, c[i + 1])
               /\ mid <= Left(t, c[i])
    BY <1>1, <1>2, <1>9 DEF p, Leads
  <2>4. ASSUME NEW i \in p + 1 .. p + q
        PROVE  /\ Left(t, c[i]) = IF i = p + q THEN to ELSE Before(t, c[i + 1])
               /\ to <= Left(t, c[i])
    <3> DEFINE k == i - p
    <3>1. k \in 1 .. q /\ c[i] = b[k] /\ (k = q <=> i = p + q)
      BY <1>1, <1>2
    <3>2. i # p + q => i + 1 \in p + 1 .. p + q /\ (i + 1) - p = k + 1
      BY <1>1
    <3>3. i # p + q => c[i + 1] = b[k + 1]
      BY <1>2, <3>2
    <3> HIDE DEF k
    <3>4. b # <<>>
      BY <1>1, <1>9, <3>1
    <3>5. QED BY <3>1, <3>3, <3>4 DEF Leads, q
  <2>5. q # 0 => mid = Before(t, c[p + 1])
    <3>1. ASSUME q # 0 PROVE mid = Before(t, c[p + 1])
      <4> DEFINE i == p + 1
      <4>1. b # <<>> /\ i \in p + 1 .. p + q /\ i - p = 1
        BY <1>1, <1>9, <3>1
      <4> HIDE DEF i
      <4>2. c[i] = b[1]
        BY <1>2, <4>1
      <4>3. mid = Before(t, c[i])
        BY <4>1, <4>2 DEF Leads
      <4>4. QED BY <4>3 DEF i
    <3>2. QED BY <3>1
  <2>6. q = 0 => mid = to
    BY <1>8 DEF Leads
  <2>7. ASSUME NEW i \in 1 .. p + q
        PROVE  /\ Left(t, c[i]) = IF i = p + q THEN to ELSE Before(t, c[i + 1])
               /\ to <= Left(t, c[i])
    <3>1. CASE i \in 1 .. p
      <4>1. to <= Left(t, c[i])
        BY <1>6, <2>3, <3>1
      <4>2. CASE i # p
        BY <1>1, <3>1, <4>2, <2>3, <4>1
      <4>3. CASE i = p
        BY <1>1, <4>3, <2>3, <2>5, <2>6, <3>1, <4>1
      <4>4. QED BY <4>2, <4>3
    <3>2. CASE i \in p + 1 .. p + q
      BY <2>4, <3>2
    <3>3. QED BY <1>4, <3>1, <3>2
  <2>8. \A k \in 1 .. q : Before(t, b[k]) <= mid
    BY DEF q
  <2>9. ASSUME NEW i \in 1 .. p + q, NEW j \in 1 .. p + q, i < j
        PROVE  Before(t, c[j]) <= Left(t, c[i])
    <3>1. CASE i \in 1 .. p /\ j \in 1 .. p
      BY <1>1, <1>2, <1>9, <3>1, <2>9 DEF Leads, p
    <3>2. CASE i \in 1 .. p /\ j \in p + 1 .. p + q
      BY <1>2, <1>3, <3>2, <2>3, <2>8, <1>6
    <3>3. CASE i \in p + 1 .. p + q
      <4>1. j \in p + 1 .. p + q
        BY <1>1, <2>9, <3>3
      <4>2. c[i] = b[i - p] /\ c[j] = b[j - p] /\ i - p \in 1 .. q /\ j - p \in 1 .. q
        BY <1>2, <1>3, <3>3, <4>1
      <4>3. i - p < j - p /\ b # <<>>
        BY <1>1, <1>9, <2>9, <4>2
      <4>4. QED BY <4>2, <4>3 DEF Leads, q
    <3>4. QED BY <1>4, <3>1, <3>2, <3>3
  <2>10. QED BY <1>2, <1>5, <2>1, <2>2, <2>7, <2>9, SMTT(30) DEF Leads, c
<1>12. QED BY <1>10, <1>11

-----------------------------------------------------------------------------
(* A tree with one node more.                                              *)

Grows(t, u) ==
    /\ IsTree(t) /\ IsTree(u)
    /\ Len(u) = Len(t) + 1 /\ \A n \in 1 .. Len(t) : u[n] = t[n]

LEMMA Stable ==
    ASSUME NEW t, NEW u, Grows(t, u), NEW n \in 0 .. Len(t)
    PROVE  /\ Around(u, n) = Around(t, n) /\ Deep(u, n) = Deep(t, n) /\ n \in 0 .. Len(u)
           /\ n # 0 => /\ OpensIn(u, n) = OpensIn(t, n) /\ u[n] = t[n]
                       /\ n \in 1 .. Len(t) /\ n \in 1 .. Len(u)
<1>1. IsTree(t) /\ IsTree(u) /\ Len(t) \in Nat /\ Len(u) = Len(t) + 1
  BY SequentialMeans DEF Grows, IsTree
<1>2. Len(t) \in 0 .. Len(t) /\ Len(t) \in 0 .. Len(u)
  BY <1>1
<1>3. \A m \in 1 .. Len(t) : u[m] = t[m] /\ OpensIn(u, m) = OpensIn(t, m)
  BY DEF Grows, OpensIn
<1>4. \A m \in 1 .. Len(t) : m \in 1 .. Len(u)
  BY <1>1
<1>5. IsAbove(t, Len(t), AboveIn(t)) /\ IsAbove(t, Len(t), AboveIn(u))
  <2>1. IsAbove(t, Len(t), AboveIn(t))
    BY <1>1, Ancestry DEF IsAbove
  <2>2. IsAbove(u, Len(u), AboveIn(u))
    BY <1>1, Ancestry DEF IsAbove
  <2>3. IsAbove(t, Len(t), AboveIn(u))
    BY <1>3, <1>4, <2>2 DEF IsAbove
  <2>4. QED BY <2>1, <2>3
<1>6. IsDepth(t, Len(t), DepthIn(t)) /\ IsDepth(t, Len(t), DepthIn(u))
  BY <1>1, DepthEquation, <1>3, <1>4 DEF IsDepth
<1>7. \A m \in 1 .. Len(t) : AboveIn(u)[m] = AboveIn(t)[m] /\ DepthIn(u)[m] = DepthIn(t)[m]
  BY <1>1, <1>2, <1>5, <1>6, OneAbove, OneDepth
<1>8. n # 0 => n \in 1 .. Len(t)
  BY <1>1
<1>9. n \in 0 .. Len(u)
  BY <1>1
<1>10. QED BY <1>3, <1>4, <1>7, <1>8, <1>9 DEF Around, Deep

LEMMA StableTasks ==
    ASSUME NEW t, NEW u, Grows(t, u), NEW ts, TasksRight(t, ts)
    PROVE  /\ TasksRight(u, ts)
           /\ \A k \in 1 .. Len(ts) : Before(u, ts[k]) = Before(t, ts[k])
                                      /\ Left(u, ts[k]) = Left(t, ts[k])
           /\ \A from, to : Leads(t, ts, from, to) => Leads(u, ts, from, to)
<1>1. IsTree(t) /\ Sequential(ts) /\ Len(ts) \in Nat /\ Len(t) \in Nat
  BY SequentialMeans DEF Grows, IsTree, TasksRight
<1>2. ASSUME NEW k \in 1 .. Len(ts)
      PROVE  /\ TaskRight(u, ts[k]) /\ Before(u, ts[k]) = Before(t, ts[k])
             /\ Left(u, ts[k]) = Left(t, ts[k])
  <2> DEFINE task == ts[k]
             h == Home(task)
  <2>1. TaskRight(t, task) /\ h \in 0 .. Len(t)
    BY DEF TasksRight, TaskRight
  <2> HIDE DEF task
  <2>2. h = IF task.op \in LeaveOps THEN task.node ELSE task.parent
    BY DEF Home, LeaveOps
  <2> HIDE DEF h
  <2>3. Deep(u, h) = Deep(t, h) /\ h \in 0 .. Len(u)
        /\ (h # 0 => OpensIn(u, h) = OpensIn(t, h) /\ u[h] = t[h] /\ h \in 1 .. Len(t))
    BY <2>1, Stable
  <2>4. h # 0 => Deep(u, t[h].parent) = Deep(t, t[h].parent)
    <3>1. h # 0 => t[h].parent \in 0 .. Len(t)
      BY <1>1, <2>3, Unfold
    <3>2. QED BY <3>1, Stable
  <2>5. TaskRight(u, task)
    <3>1. task.op \in LeaveOps => task.node = h /\ h # 0 /\ task.op # "statement" /\ task.op # "block"
      BY <2>1, <2>2 DEF TaskRight, LeaveOps, h
    <3>2. task.op \in {"statement", "block"} => task.parent = h
      BY <2>2, <3>1
    <3>3. task.op # "block" => h # 0
      BY <2>1 DEF TaskRight, h
    <3>4. /\ task.op \in {"subroutines", "leaveBlock"} => u[h].form = "block"
          /\ task.op = "leaveWith" => u[h].form = "with"
      BY <2>1, <2>3, <3>3 DEF TaskRight, h
    <3>5. task.op = "statement" => Inhabited(u, task.parent)
      BY <2>1, <2>3, <3>2, <3>3 DEF TaskRight, Inhabited
    <3>6. task.op = "block" /\ task.parent # 0 =>
             u[task.parent].form = "block" /\ task.use = u[task.parent].names[task.name]
      BY <2>1, <2>3, <3>2 DEF TaskRight
    <3>7. task.op \in LeaveOps => task.count = OpensIn(u, task.node)
      BY <2>1, <2>3, <3>1 DEF TaskRight
    <3>8. task.op \in {"statement", "block", "subroutines"} \cup LeaveOps
      BY <2>1 DEF TaskRight
    <3>9. QED BY <2>3, <3>3, <3>4, <3>5, <3>6, <3>7, <3>8 DEF TaskRight, h
  <2>6. Before(u, task) = Before(t, task)
    BY <2>3 DEF Before, h
  <2>7. Left(u, task) = Left(t, task)
    <3>1. CASE task.op \notin LeaveOps
      BY <2>6, <3>1 DEF Left
    <3>2. CASE task.op \in LeaveOps
      BY <2>1, <2>2, <3>2, <2>3, <2>4 DEF TaskRight, LeaveOps, h, Left
    <3>3. QED BY <3>1, <3>2
  <2>8. QED BY <2>5, <2>6, <2>7 DEF task
<1>3. TasksRight(u, ts)
  BY <1>1, <1>2 DEF TasksRight
<1>4. ASSUME NEW from, NEW to, Leads(t, ts, from, to) PROVE Leads(u, ts, from, to)
  <2>1. CASE ts = <<>>
    BY <1>4, <2>1 DEF Leads
  <2>2. CASE ts # <<>>
    <3>1. 1 \in 1 .. Len(ts)
      BY <1>1, <2>2, EmptySequence
    <3>2. from = Before(u, ts[1])
      BY <1>2, <1>4, <2>2, <3>1 DEF Leads
    <3>3. ASSUME NEW i \in 1 .. Len(ts)
          PROVE  /\ Left(u, ts[i]) = IF i = Len(ts) THEN to ELSE Before(u, ts[i + 1])
                 /\ to <= Left(u, ts[i])
      BY <1>1, <1>2, <1>4, <2>2 DEF Leads
    <3>4. \A i, j \in 1 .. Len(ts) : i < j => Before(u, ts[j]) <= Left(u, ts[i])
      BY <1>2, <1>4, <2>2 DEF Leads
    <3>5. QED BY <2>2, <3>2, <3>3, <3>4 DEF Leads
  <2>3. QED BY <2>1, <2>2
<1>5. QED BY <1>2, <1>3, <1>4

-----------------------------------------------------------------------------
(* Scopes.                                                                 *)

(* s is the j-th scope of node m; N are the names there are.               *)
ScopeOf(N, t, s, m, j) ==
    /\ DOMAIN s = {"kind", "node", "names", "labels", "threats", "assigned"}
    /\ s.node = m /\ s.kind = t[m].form
    /\ t[m].form = "block" => s.names = t[m].names /\ DOMAIN s.labels = t[m].labels
    /\ t[m].form # "block" => /\ DOMAIN s.labels = {} /\ ~s.assigned
                              /\ \A x \in N : s.names[x] = IF x \in t[m].arg[j] THEN "field" ELSE "none"
    /\ s.threats \subseteq {x \in N : IsVariable(s.names[x])}
    /\ s.assigned => t[m].use = "function"

(* The scopes of a node and of all around it.                              *)
Stacked(N, t, ss, n) ==
    \A m \in Around(t, n) : \A j \in 1 .. OpensIn(t, m) : ScopeOf(N, t, ss[Place(t, m, j)], m, j)

(* What has been one of the first len scopes still is.                     *)
Kept(N, t, len, ss, ns) ==
    \A p \in 1 .. len : \A m \in 1 .. Len(t), j \in Nat :
        ScopeOf(N, t, ss[p], m, j) => ScopeOf(N, t, ns[p], m, j)

LEMMA Placed ==
    ASSUME NEW t, IsTree(t), NEW n \in 0 .. Len(t),
           NEW m \in Around(t, n), NEW j \in 1 .. OpensIn(t, m)
    PROVE  Place(t, m, j) \in 1 .. Deep(t, n) /\ m \in 1 .. Len(t) /\ j \in Nat /\ m \in 1 .. n
<1>1. Line(t, n) /\ Len(t) \in Nat /\ Deep(t, n) \in Nat
  BY Lines, DeepNat, SequentialMeans DEF IsTree
<1>2. m \in 1 .. n /\ Deep(t, m) <= Deep(t, n)
  BY <1>1 DEF Line
<1>3. m \in 1 .. Len(t)
  BY <1>1, <1>2
<1>4. /\ Deep(t, m) = OpensIn(t, m) + Deep(t, t[m].parent)
      /\ OpensIn(t, m) \in Nat /\ Deep(t, t[m].parent) \in Nat
  BY <1>3, Unfold
<1>5. QED BY <1>1, <1>2, <1>3, <1>4 DEF Place

LEMMA StackedKept ==
    ASSUME NEW N, NEW t, IsTree(t), NEW n \in 0 .. Len(t), NEW ss, NEW ns,
           Stacked(N, t, ss, n), NEW len \in Nat, Deep(t, n) <= len, Kept(N, t, len, ss, ns)
    PROVE  Stacked(N, t, ns, n)
<1>1. ASSUME NEW m \in Around(t, n), NEW j \in 1 .. OpensIn(t, m)
      PROVE  ScopeOf(N, t, ns[Place(t, m, j)], m, j)
  <2>1. Place(t, m, j) \in 1 .. Deep(t, n) /\ m \in 1 .. Len(t) /\ j \in Nat
    BY Placed
  <2>2. Deep(t, n) \in Nat
    BY DeepNat
  <2>3. Place(t, m, j) \in 1 .. len
    BY <2>1, <2>2
  <2>4. ScopeOf(N, t, ss[Place(t, m, j)], m, j)
    BY DEF Stacked
  <2>5. QED BY <2>1, <2>3, <2>4 DEF Kept
<1>2. QED BY <1>1 DEF Stacked

LEMMA StackedStable ==
    ASSUME NEW N, NEW t, NEW u, Grows(t, u), NEW n \in 0 .. Len(t), NEW ss, Stacked(N, t, ss, n)
    PROVE  Stacked(N, u, ss, n)
<1>1. IsTree(t) /\ Len(t) \in Nat
  BY SequentialMeans DEF Grows, IsTree
<1>2. ASSUME NEW m \in Around(u, n), NEW j \in 1 .. OpensIn(u, m)
      PROVE  ScopeOf(N, u, ss[Place(u, m, j)], m, j)
  <2>1. m \in Around(t, n)
    BY Stable
  <2>2. m \in 1 .. Len(t)
    BY <1>1, Lines, <2>1 DEF Line
  <2>3. m \in 0 .. Len(t) /\ m # 0 /\ t[m].parent \in 0 .. Len(t)
    BY <1>1, <2>2, Unfold
  <2>4. OpensIn(u, m) = OpensIn(t, m) /\ u[m] = t[m]
    BY <2>3, Stable
  <2>5. Deep(u, t[m].parent) = Deep(t, t[m].parent)
    BY <2>3, Stable
  <2>6. Place(u, m, j) = Place(t, m, j)
    BY <2>4, <2>5 DEF Place
  <2>7. ScopeOf(N, t, ss[Place(t, m, j)], m, j)
    BY <2>1, <2>4 DEF Stacked
  <2>8. QED BY <2>4, <2>6, <2>7 DEF ScopeOf
<1>3. QED BY <1>2 DEF Stacked

(* The node last added, with the scopes that it opened.                    *)
LEMMA StackedInside ==
    ASSUME NEW N, NEW t, NEW u, Grows(t, u), NEW ss,
           Stacked(N, u, ss, u[Len(u)].parent),
           \A j \in 1 .. OpensIn(u, Len(u)) : ScopeOf(N, u, ss[Place(u, Len(u), j)], Len(u), j)
    PROVE  Stacked(N, u, ss, Len(u))
<1>1. IsTree(u) /\ Len(t) \in Nat /\ Len(u) = Len(t) + 1
  BY SequentialMeans DEF Grows, IsTree
<1>2. Len(u) \in 1 .. Len(u)
  BY <1>1
<1>3. Around(u, Len(u)) = {Len(u)} \cup Around(u, u[Len(u)].parent)
  BY <1>1, <1>2, Unfold
<1>4. QED BY <1>3 DEF Stacked

-----------------------------------------------------------------------------
(* The invariant.                                                          *)

Coherent(N, t, ts, ss) ==
    /\ IsTree(t) /\ Sequential(ss)
    /\ TasksRight(t, ts) /\ Leads(t, ts, Len(ss), 0)
    /\ \A k \in 1 .. Len(ts) : Stacked(N, t, ss, Home(ts[k]))
    /\ \A k \in 1 .. Len(ts) : Home(ts[k]) = 0 => t = <<>> /\ Len(ts) = 1

Coherence == Coherent(Names, tree, tasks, scopes)

LEMMA Unjoined ==
    ASSUME NEW s, Sequential(s)
    PROVE  <<>> \o s = s
    BY ConcatEmptySeq DEF Sequential

(* One task is done, and these come in its place.                          *)
LEMMA Replacing ==
    ASSUME NEW N, NEW t, NEW ts, NEW ss, Coherent(N, t, ts, ss), ts # <<>>,
           NEW u, u = t \/ Grows(t, u), NEW inside, TasksRight(u, inside),
           NEW ns, Sequential(ns), Leads(u, inside, Len(ns), Left(t, ts[1])),
           \A k \in 1 .. Len(inside) : Home(inside[k]) # 0 /\ Stacked(N, u, ns, Home(inside[k])),
           Kept(N, t, Left(t, ts[1]), ss, ns)
    PROVE  Coherent(N, u, inside \o Tail(ts), ns)
<1> DEFINE r == Tail(ts)
           mid == Left(t, ts[1])
<1>1. IsTree(t) /\ TasksRight(t, ts) /\ Leads(t, ts, Len(ss), 0)
  BY DEF Coherent
<1>2. IsTree(u)
  BY <1>1 DEF Grows
<1>3. /\ TasksRight(t, r) /\ Leads(t, r, mid, 0) /\ TaskRight(t, ts[1])
      /\ \A k \in 1 .. Len(r) : Before(t, r[k]) <= mid
  BY <1>1, LeadsOn
<1>4. mid \in Nat /\ 0 <= mid /\ 0 \in Nat
  BY <1>1, <1>3, BeforeNat
<1> HIDE DEF r, mid
<1>5. /\ TasksRight(u, r) /\ Leads(u, r, mid, 0)
      /\ \A k \in 1 .. Len(r) : Before(u, r[k]) <= mid
  <2>1. CASE u = t
    BY <1>3, <2>1
  <2>2. CASE Grows(t, u)
    BY <1>3, <2>2, StableTasks
  <2>3. QED BY <2>1, <2>2
<1>6. Leads(u, inside, Len(ns), mid)
  BY DEF mid
<1>7. TasksRight(u, inside \o r) /\ Leads(u, inside \o r, Len(ns), 0)
  BY <1>2, <1>4, <1>5, <1>6, LeadsJoin
<1>8. \A k \in 1 .. Len(r) : Home(r[k]) # 0 /\ Stacked(N, u, ns, Home(r[k]))
  <2>1. Sequential(ts) /\ Sequential(r) /\ Len(r) = Len(ts) - 1 /\ Len(ts) \in Nat
        /\ \A k \in 1 .. Len(ts) - 1 : r[k] = ts[k + 1]
    BY <1>1, Tailed DEF TasksRight, r
  <2>2. ASSUME NEW k \in 1 .. Len(r) PROVE Home(r[k]) # 0 /\ Stacked(N, u, ns, Home(r[k]))
    <3> DEFINE h == Home(r[k])
    <3>1. k + 1 \in 1 .. Len(ts) /\ r[k] = ts[k + 1]
      BY <2>1
    <3>2. Stacked(N, t, ss, h)
      BY <3>1 DEF Coherent
    <3>3. h \in 0 .. Len(t)
      BY <1>3 DEF TasksRight, TaskRight
    <3>4. Deep(t, h) <= mid
      BY <1>3 DEF Before
    <3> HIDE DEF h
    <3>5. Kept(N, t, mid, ss, ns)
      BY DEF mid
    <3>6. Stacked(N, t, ns, h)
      BY <1>1, <1>4, <3>2, <3>3, <3>4, <3>5, StackedKept
    <3>7. Stacked(N, u, ns, h)
      <4>1. CASE u = t
        BY <3>6, <4>1
      <4>2. CASE Grows(t, u)
        BY <3>3, <3>6, <4>2, StackedStable
      <4>3. QED BY <4>1, <4>2
    <3>8. h # 0
      BY <2>1, <3>1 DEF Coherent, h
    <3>9. QED BY <3>7, <3>8 DEF h
  <2>3. QED BY <2>2
<1>9. \A k \in 1 .. Len(inside \o r) : Home((inside \o r)[k]) # 0
                                     /\ Stacked(N, u, ns, Home((inside \o r)[k]))
  <2> DEFINE c == inside \o r
             p == Len(inside)
             q == Len(r)
  <2>1. Sequential(inside) /\ Sequential(r) /\ p \in Nat /\ q \in Nat
    BY <1>5, SequentialMeans DEF TasksRight
  <2>2. /\ Len(c) = p + q
        /\ \A k \in 1 .. p : c[k] = inside[k]
        /\ \A k \in p + 1 .. p + q : c[k] = r[k - p]
    BY <2>1, Joined
  <2>3. ASSUME NEW k \in 1 .. Len(c) PROVE Home(c[k]) # 0 /\ Stacked(N, u, ns, Home(c[k]))
    <3> HIDE DEF c
    <3>1. CASE k \in 1 .. p
      BY <2>2, <3>1
    <3>2. CASE k \in p + 1 .. p + q
      <4> HIDE DEF p, q
      <4>1. k - p \in 1 .. q /\ c[k] = r[k - p]
        BY <2>1, <2>2, <3>2
      <4>2. QED BY <1>8, <4>1 DEF q
    <3>3. k \in 1 .. p \/ k \in p + 1 .. p + q
      <4> HIDE DEF p, q
      <4>1. QED BY <2>1, <2>2
    <3>4. QED BY <3>1, <3>2, <3>3
  <2>4. QED BY <2>3
<1>10. QED BY <1>2, <1>7, <1>9 DEF Coherent, r

(* Tasks inside a node.                                                    *)
Level(ts, n) ==
    Sequential(ts) /\ \A k \in 1 .. Len(ts) : Home(ts[k]) = n /\ ts[k].op \notin LeaveOps

LEMMA LevelLeads ==
    ASSUME NEW t, IsTree(t), NEW n, NEW ts, TasksRight(t, ts), Level(ts, n)
    PROVE  Leads(t, ts, Deep(t, n), Deep(t, n))
<1>1. Len(ts) \in Nat /\ Sequential(ts)
  BY SequentialMeans DEF Level
<1>2. \A k \in 1 .. Len(ts) : Before(t, ts[k]) = Deep(t, n) /\ Left(t, ts[k]) = Deep(t, n)
  BY DEF Level, Before, Left
<1>3. \A k \in 1 .. Len(ts) : Left(t, ts[k]) \in Nat
  BY BeforeNat DEF TasksRight
<1>4. CASE ts = <<>>
  BY <1>4 DEF Leads
<1>5. CASE ts # <<>>
  <2>1. 1 \in 1 .. Len(ts)
    BY <1>1, <1>5, EmptySequence
  <2>2. Deep(t, n) \in Nat
    BY <1>2, <1>3, <2>1
  <2>3. Deep(t, n) <= Deep(t, n)
    BY <2>2
  <2>4. \A i \in 1 .. Len(ts) : i # Len(ts) => i + 1 \in 1 .. Len(ts)
    BY <1>1
  <2>5. QED BY <1>2, <1>5, <2>1, <2>3, <2>4 DEF Leads
<1>6. QED BY <1>4, <1>5

LEMMA LeaveLeads ==
    ASSUME NEW t, IsTree(t), NEW task, TaskRight(t, task)
    PROVE  TasksRight(t, <<task>>) /\ Leads(t, <<task>>, Before(t, task), Left(t, task))
<1>1. Sequential(<<task>>) /\ Len(<<task>>) = 1 /\ <<task>>[1] = task /\ <<task>> # <<>>
  BY Single
<1>2. \A i \in 1 .. 1 : i = 1
  OBVIOUS
<1>3. TasksRight(t, <<task>>)
  BY <1>1, <1>2 DEF TasksRight
<1>4. Left(t, task) <= Left(t, task)
  BY BeforeNat
<1>5. \A i, j \in 1 .. 1 : ~(i < j)
  OBVIOUS
<1>6. QED BY <1>1, <1>2, <1>3, <1>4, <1>5 DEF Leads

-----------------------------------------------------------------------------
(* Updates of a scope.                                                     *)

ScopeFields == {"kind", "node", "names", "labels", "threats", "assigned"}

LEMMA Updated ==
    ASSUME NEW ss, Sequential(ss), NEW p \in 1 .. Len(ss), NEW e
    PROVE  LET ns == [ss EXCEPT ![p] = e]
           IN  /\ Sequential(ns) /\ Len(ns) = Len(ss) /\ ns[p] = e
               /\ \A q \in 1 .. Len(ss) : q # p => ns[q] = ss[q]
<1> DEFINE ns == [ss EXCEPT ![p] = e]
<1>1. Len(ss) \in Nat /\ DOMAIN ss = 1 .. Len(ss)
  BY SequentialMeans
<1>2. ns = [q \in 1 .. Len(ss) |-> IF q = p THEN e ELSE ss[q]]
  BY <1>1
<1>3. ns[p] = e /\ \A q \in 1 .. Len(ss) : q # p => ns[q] = ss[q]
  BY <1>2
<1>4. ns = [q \in 1 .. Len(ss) |-> ns[q]]
  BY <1>2
<1> HIDE DEF ns
<1>5. Sequential(ns) /\ Len(ns) = Len(ss)
  BY <1>1, <1>4, SequentialIf
<1>6. QED BY <1>3, <1>5 DEF ns

(* Scopes with the same labels as these.                                   *)
Alike(ss, ns) ==
    /\ Sequential(ns) /\ Len(ns) = Len(ss)
    /\ \A q \in 1 .. Len(ss) : ns[q].labels = ss[q].labels

LEMMA AlikeItself ==
    ASSUME NEW ss, Sequential(ss), NEW N, NEW t
    PROVE  Alike(ss, ss) /\ Kept(N, t, Len(ss), ss, ss)
BY DEF Alike, Kept

LabelAt(ss, p, l, i) == [ss EXCEPT ![p].labels[l] = i]
Marked(labels, l, i) == [labels EXCEPT ![l] = i]

LEMMA Labelled ==
    ASSUME NEW N, NEW t, NEW ss, Sequential(ss), NEW p \in 1 .. Len(ss),
           DOMAIN ss[p] = ScopeFields, NEW l, NEW i
    PROVE  LET ns == LabelAt(ss, p, l, i)
           IN  /\ Sequential(ns) /\ Len(ns) = Len(ss) /\ Kept(N, t, Len(ss), ss, ns)
               /\ ns[p].labels = Marked(ss[p].labels, l, i)
               /\ \A q \in 1 .. Len(ss) : q # p => ns[q] = ss[q]
               /\ DOMAIN ns[p] = ScopeFields
<1> DEFINE new == Marked(ss[p].labels, l, i)
           e == [ss[p] EXCEPT !.labels = new]
           ns == [ss EXCEPT ![p] = e]
<1>1. /\ Sequential(ns) /\ Len(ns) = Len(ss) /\ ns[p] = e
      /\ \A q \in 1 .. Len(ss) : q # p => ns[q] = ss[q]
  <2> HIDE DEF e
  <2>1. QED BY Updated
<1>2. ns = LabelAt(ss, p, l, i)
  BY DEF LabelAt, Marked
<1>3. /\ e.labels = new /\ DOMAIN e = ScopeFields /\ e.node = ss[p].node /\ e.kind = ss[p].kind
      /\ e.names = ss[p].names /\ e.threats = ss[p].threats /\ e.assigned = ss[p].assigned
  <2> HIDE DEF new
  <2>1. QED BY DEF ScopeFields
<1>4. DOMAIN new = DOMAIN ss[p].labels
  BY DEF Marked
<1> HIDE DEF new, e, ns
<1>5. ASSUME NEW m, NEW j, ScopeOf(N, t, ss[p], m, j) PROVE ScopeOf(N, t, e, m, j)
  BY <1>3, <1>4, <1>5 DEF ScopeOf, ScopeFields
<1>6. Kept(N, t, Len(ss), ss, ns)
  BY <1>1, <1>5 DEF Kept
<1>7. ns[p].labels = new /\ DOMAIN ns[p] = ScopeFields
  BY <1>1, <1>3
<1>8. QED BY <1>1, <1>2, <1>6, <1>7 DEF new

LEMMA Threatened ==
    ASSUME NEW N, NEW t, NEW ss, Sequential(ss), NEW p \in 1 .. Len(ss),
           DOMAIN ss[p] = ScopeFields, NEW x \in N, IsVariable(ss[p].names[x])
    PROVE  LET ns == [ss EXCEPT ![p].threats = @ \cup {x}]
           IN  Alike(ss, ns) /\ Kept(N, t, Len(ss), ss, ns)
<1> DEFINE new == ss[p].threats \cup {x}
           e == [ss[p] EXCEPT !.threats = new]
           ns == [ss EXCEPT ![p] = e]
<1>1. /\ Sequential(ns) /\ Len(ns) = Len(ss) /\ ns[p] = e
      /\ \A q \in 1 .. Len(ss) : q # p => ns[q] = ss[q]
  <2> HIDE DEF e
  <2>1. QED BY Updated
<1>2. ns = [ss EXCEPT ![p].threats = @ \cup {x}]
  OBVIOUS
<1>3. /\ e.labels = ss[p].labels /\ DOMAIN e = ScopeFields /\ e.node = ss[p].node /\ e.kind = ss[p].kind
      /\ e.names = ss[p].names /\ e.threats = new /\ e.assigned = ss[p].assigned
  <2> HIDE DEF new
  <2>1. QED BY DEF ScopeFields
<1> HIDE DEF e, ns
<1>4. ASSUME NEW m, NEW j, ScopeOf(N, t, ss[p], m, j) PROVE ScopeOf(N, t, e, m, j)
  <2>1. e.threats \subseteq {y \in N : IsVariable(e.names[y])}
    BY <1>3, <1>4 DEF ScopeOf
  <2> HIDE DEF new
  <2>2. QED BY <1>3, <1>4, <2>1 DEF ScopeOf, ScopeFields
<1>5. Kept(N, t, Len(ss), ss, ns)
  BY <1>1, <1>4 DEF Kept
<1>6. Alike(ss, ns)
  BY <1>1, <1>3 DEF Alike
<1>7. QED BY <1>2, <1>5, <1>6

LEMMA Assigned ==
    ASSUME NEW N, NEW t, NEW ss, Sequential(ss), NEW p \in 1 .. Len(ss),
           DOMAIN ss[p] = ScopeFields, ss[p].kind = "block", t[ss[p].node].use = "function"
    PROVE  LET ns == [ss EXCEPT ![p].assigned = TRUE]
           IN  Alike(ss, ns) /\ Kept(N, t, Len(ss), ss, ns)
<1> DEFINE e == [ss[p] EXCEPT !.assigned = TRUE]
           ns == [ss EXCEPT ![p] = e]
<1>1. /\ Sequential(ns) /\ Len(ns) = Len(ss) /\ ns[p] = e
      /\ \A q \in 1 .. Len(ss) : q # p => ns[q] = ss[q]
  <2> HIDE DEF e
  <2>1. QED BY Updated
<1>2. ns = [ss EXCEPT ![p].assigned = TRUE]
  OBVIOUS
<1>3. /\ e.labels = ss[p].labels /\ DOMAIN e = ScopeFields /\ e.node = ss[p].node /\ e.kind = ss[p].kind
      /\ e.names = ss[p].names /\ e.threats = ss[p].threats
  BY DEF ScopeFields
<1> HIDE DEF e, ns
<1>4. ASSUME NEW m, NEW j, ScopeOf(N, t, ss[p], m, j) PROVE ScopeOf(N, t, e, m, j)
  BY <1>4, <1>3 DEF ScopeOf, ScopeFields
<1>5. Kept(N, t, Len(ss), ss, ns)
  BY <1>1, <1>4 DEF Kept
<1>6. Alike(ss, ns)
  BY <1>1, <1>3 DEF Alike
<1>7. QED BY <1>2, <1>5, <1>6

LEMMA KeptTwice ==
    ASSUME NEW N, NEW t, NEW len, NEW a, NEW b, NEW c, Kept(N, t, len, a, b), Kept(N, t, len, b, c)
    PROVE  Kept(N, t, len, a, c)
BY DEF Kept

-----------------------------------------------------------------------------
(* The scopes around the task at hand.                                     *)

LEMMA LeastOf ==
    ASSUME NEW S, S \subseteq Nat, S # {}
    PROVE  Least(S) \in S /\ \A j \in S : Least(S) <= j
    BY Minimum DEF Least

LEMMA InnermostOf ==
    ASSUME NEW n \in Nat, NEW S, S \subseteq 0 .. n, S # {}
    PROVE  Innermost(S) \in S /\ \A m \in S : m <= Innermost(S)
    BY Maximum DEF Innermost

LEMMA EveryScope ==
    ASSUME NEW N, NEW t, IsTree(t), NEW n \in 0 .. Len(t), NEW ss, Stacked(N, t, ss, n),
           NEW p \in 1 .. Deep(t, n)
    PROVE  \E m \in Around(t, n) : \E j \in 1 .. OpensIn(t, m) :
              p = Place(t, m, j) /\ ScopeOf(N, t, ss[p], m, j)
<1>1. Line(t, n)
  BY Lines
<1>2. PICK m \in Around(t, n) : \E j \in 1 .. OpensIn(t, m) : p = Place(t, m, j)
  BY <1>1 DEF Line
<1>3. PICK j \in 1 .. OpensIn(t, m) : p = Place(t, m, j)
  BY <1>2
<1>4. ScopeOf(N, t, ss[p], m, j)
  BY <1>3 DEF Stacked
<1>5. QED BY <1>3, <1>4

LEMMA Here ==
    ASSUME Coherence, tasks # <<>>
    PROVE  /\ IsTree(tree) /\ Len(tree) \in Nat /\ Sequential(scopes) /\ Task = tasks[1]
           /\ TasksRight(tree, tasks) /\ TaskRight(tree, Task) /\ Home(Task) \in 0 .. Len(tree)
           /\ Len(scopes) = Deep(tree, Home(Task)) /\ Len(scopes) \in Nat
           /\ Stacked(Names, tree, scopes, Home(Task))
<1>1. /\ IsTree(tree) /\ Sequential(scopes) /\ TasksRight(tree, tasks)
      /\ Leads(tree, tasks, Len(scopes), 0)
      /\ \A k \in 1 .. Len(tasks) : Stacked(Names, tree, scopes, Home(tasks[k]))
  BY DEF Coherence, Coherent
<1>2. Sequential(tasks) /\ 1 \in 1 .. Len(tasks) /\ Task = tasks[1]
  BY <1>1, EmptySequence, Tailed DEF TasksRight, Task
<1>3. TaskRight(tree, Task)
  BY <1>1, <1>2 DEF TasksRight
<1>4. Len(scopes) = Deep(tree, Home(Task))
  BY <1>1, <1>2 DEF Leads, Before
<1>5. Len(scopes) \in Nat /\ Len(tree) \in Nat
  BY <1>1, SequentialMeans DEF IsTree
<1>6. Stacked(Names, tree, scopes, Home(Task))
  BY <1>1, <1>2
<1>7. QED BY <1>1, <1>2, <1>3, <1>4, <1>5, <1>6 DEF TaskRight

(* Every scope alive is one of a node around the task at hand.             *)
LEMMA Alive ==
    ASSUME Coherence, tasks # <<>>, NEW p \in 1 .. Len(scopes)
    PROVE  /\ \E m \in Around(tree, Home(Task)) : \E j \in 1 .. OpensIn(tree, m) :
                 p = Place(tree, m, j) /\ ScopeOf(Names, tree, scopes[p], m, j)
           /\ DOMAIN scopes[p] = ScopeFields
           /\ scopes[p].node \in Around(tree, Home(Task)) /\ scopes[p].node \in 1 .. Len(tree)
           /\ scopes[p].kind = tree[scopes[p].node].form
           /\ scopes[p].kind \in {"block", "with"}
           /\ scopes[p].kind = "block" =>
                 /\ p = Place(tree, scopes[p].node, 1)
                 /\ scopes[p].names = tree[scopes[p].node].names
                 /\ DOMAIN scopes[p].labels = tree[scopes[p].node].labels
           /\ scopes[p].kind # "block" => DOMAIN scopes[p].labels = {}
<1> DEFINE h == Home(Task)
<1>1. /\ IsTree(tree) /\ h \in 0 .. Len(tree) /\ Len(scopes) = Deep(tree, h)
      /\ Stacked(Names, tree, scopes, h)
  BY Here
<1> HIDE DEF h
<1>2. PICK m \in Around(tree, h) : \E j \in 1 .. OpensIn(tree, m) :
         p = Place(tree, m, j) /\ ScopeOf(Names, tree, scopes[p], m, j)
  BY <1>1, EveryScope
<1>3. PICK j \in 1 .. OpensIn(tree, m) : p = Place(tree, m, j) /\ ScopeOf(Names, tree, scopes[p], m, j)
  BY <1>2
<1>4. m \in 1 .. Len(tree) /\ j \in Nat
  BY <1>1, Placed
<1>5. scopes[p].node = m /\ scopes[p].kind = tree[m].form /\ DOMAIN scopes[p] = ScopeFields
  BY <1>3 DEF ScopeOf, ScopeFields
<1>6. tree[m].form = "block" => j = 1
  BY <1>3 DEF OpensIn
<1>7. tree[m].form \in {"block", "with"}
  BY <1>3 DEF OpensIn
<1>8. tree[m].form = "block" => scopes[p].names = tree[m].names /\ DOMAIN scopes[p].labels = tree[m].labels
  BY <1>3 DEF ScopeOf
<1>9. tree[m].form # "block" => DOMAIN scopes[p].labels = {}
  BY <1>3 DEF ScopeOf
<1>10. \E k \in Around(tree, h) : \E i \in 1 .. OpensIn(tree, k) :
          p = Place(tree, k, i) /\ ScopeOf(Names, tree, scopes[p], k, i)
  BY <1>2
<1>11. QED BY <1>3, <1>4, <1>5, <1>6, <1>7, <1>8, <1>9, <1>10 DEF h

LEMMA Index ==
    ASSUME Coherence, tasks # <<>>, NEW k \in Indices
    PROVE  At(k) \in 1 .. Len(scopes) /\ Parent(k) = scopes[At(k)] /\ k \in Nat
    BY Here DEF Indices, At, Parent

LEMMA Position ==
    ASSUME Coherence, tasks # <<>>, NEW p \in 1 .. Len(scopes)
    PROVE  Len(scopes) - p \in Indices /\ At(Len(scopes) - p) = p /\ Parent(Len(scopes) - p) = scopes[p]
    BY Here DEF Indices, At, Parent

LEMMA BlockPlace ==
    ASSUME NEW t, IsTree(t), NEW n \in 0 .. Len(t), NEW m \in Around(t, n), t[m].form = "block"
    PROVE  Place(t, m, 1) \in 1 .. Deep(t, n) /\ m \in 1 .. Len(t) /\ 1 \in 1 .. OpensIn(t, m)
           /\ Place(t, m, 1) = Deep(t, m)
<1>1. OpensIn(t, m) = 1
  BY DEF OpensIn
<1>2. 1 \in 1 .. OpensIn(t, m)
  BY <1>1
<1>3. Place(t, m, 1) \in 1 .. Deep(t, n) /\ m \in 1 .. Len(t)
  BY <1>2, Placed
<1>4. Deep(t, m) = 1 + Deep(t, t[m].parent) /\ Deep(t, t[m].parent) \in Nat
  BY <1>1, <1>3, Unfold
<1>5. QED BY <1>2, <1>3, <1>4 DEF Place

(* The closest containing block is the innermost block around the task.    *)
LEMMA Closest ==
    ASSUME Coherence, tasks # <<>>, Home(Task) # 0
    PROVE  LET q == At(ClosestContainingBlock)
               b == scopes[q].node
           IN  /\ ClosestContainingBlock \in BlockIndices
               /\ \A k \in BlockIndices : ClosestContainingBlock <= k
               /\ q \in 1 .. Len(scopes) /\ scopes[q].kind = "block" /\ q = Place(tree, b, 1)
               /\ b \in Around(tree, Home(Task)) /\ b \in 1 .. Len(tree) /\ tree[b].form = "block"
               /\ \A m \in Around(tree, Home(Task)) : tree[m].form = "block" => m <= b
<1> DEFINE h == Home(Task)
           c == ClosestContainingBlock
           q == At(c)
           b == scopes[q].node
<1>1. /\ IsTree(tree) /\ h \in 0 .. Len(tree) /\ Len(scopes) = Deep(tree, h)
      /\ Stacked(Names, tree, scopes, h) /\ Len(scopes) \in Nat /\ Len(tree) \in Nat /\ h # 0
  BY Here
<1>2. h \in 1 .. Len(tree)
  <2> HIDE DEF h
  <2>1. QED BY <1>1
<1> HIDE DEF h
<1>3. ASSUME NEW m \in Around(tree, h), tree[m].form = "block"
      PROVE  /\ Place(tree, m, 1) \in 1 .. Len(scopes) /\ scopes[Place(tree, m, 1)].kind = "block"
             /\ Len(scopes) - Place(tree, m, 1) \in BlockIndices
             /\ Place(tree, m, 1) = Deep(tree, m) /\ m \in 1 .. Len(tree)
  <2> DEFINE p == Place(tree, m, 1)
  <2>1. p \in 1 .. Len(scopes) /\ m \in 1 .. Len(tree) /\ 1 \in 1 .. OpensIn(tree, m) /\ p = Deep(tree, m)
    BY <1>1, <1>3, BlockPlace
  <2>2. ScopeOf(Names, tree, scopes[p], m, 1)
    BY <1>1, <2>1 DEF Stacked
  <2>3. scopes[p].kind = "block"
    BY <1>3, <2>2 DEF ScopeOf
  <2> HIDE DEF p
  <2>4. Len(scopes) - p \in BlockIndices
    BY <2>1, <2>3, Position DEF BlockIndices
  <2>5. QED BY <2>1, <2>3, <2>4 DEF p
<1>4. BlockIndices # {}
  BY <1>1, <1>2, Program, <1>3
<1>5. BlockIndices \subseteq Nat
  BY Index DEF BlockIndices
<1>6. c \in BlockIndices /\ \A k \in BlockIndices : c <= k
  BY <1>4, <1>5, LeastOf DEF ClosestContainingBlock
<1> HIDE DEF c
<1>7. c \in Indices /\ Parent(c).kind = "block" /\ c \in Nat
  BY <1>5, <1>6 DEF BlockIndices
<1>8. q \in 1 .. Len(scopes) /\ Parent(c) = scopes[q]
  BY <1>7, Index
<1>9. scopes[q].kind = "block"
  BY <1>7, <1>8
<1> HIDE DEF q
<1>10. /\ b \in Around(tree, h) /\ b \in 1 .. Len(tree) /\ tree[b].form = "block"
       /\ q = Place(tree, b, 1)
  BY <1>8, <1>9, Alive DEF h
<1> HIDE DEF b
<1>11. ASSUME NEW m \in Around(tree, h), tree[m].form = "block" PROVE m <= b
  <2>1. Len(scopes) - Place(tree, m, 1) \in BlockIndices /\ Place(tree, m, 1) \in 1 .. Len(scopes)
        /\ Place(tree, m, 1) = Deep(tree, m) /\ m \in 1 .. Len(tree)
    BY <1>3, <1>11
  <2>2. c <= Len(scopes) - Place(tree, m, 1)
    BY <1>6, <2>1
  <2>3. q = Len(scopes) - c
    BY DEF q, At
  <2>4. Place(tree, m, 1) <= q
    BY <1>1, <1>7, <2>1, <2>2, <2>3
  <2>5. CASE b < m
    <3>1. Deep(tree, b) <= Deep(tree, tree[m].parent)
      BY <1>1, <1>10, <2>5, Ordered
    <3>2. Place(tree, m, 1) = Deep(tree, tree[m].parent) + 1 /\ Deep(tree, tree[m].parent) \in Nat
      BY <1>1, <2>1, Unfold DEF Place
    <3>3. q = Deep(tree, b) /\ Deep(tree, b) \in Nat
      BY <1>3, <1>10, Unfold
    <3>4. FALSE
      BY <2>4, <3>1, <3>2, <3>3
    <3>5. QED BY <3>4
  <2>6. CASE ~(b < m)
    BY <1>1, <1>10, <2>1, <2>6
  <2>7. QED BY <2>5, <2>6
<1>12. QED BY <1>6, <1>8, <1>9, <1>10, <1>11 DEF b, q, c, h

LEMMA Prefixing ==
    ASSUME Coherence, Doing("statement")
    PROVE  /\ tasks # <<>> /\ Home(Task) # 0 /\ Home(Task) = Task.parent
           /\ Sequential(PrefixedScopes) /\ Len(PrefixedScopes) = Len(scopes)
           /\ Kept(Names, tree, Len(scopes), scopes, PrefixedScopes)
           /\ \A p \in 1 .. Len(scopes) :
                 /\ DOMAIN PrefixedScopes[p] = ScopeFields
                 /\ PrefixedScopes[p].labels =
                       IF FirstPrefix /\ p = At(ClosestContainingBlock)
                       THEN Marked(scopes[p].labels, Task.label, Id) ELSE scopes[p].labels
<1> DEFINE q == At(ClosestContainingBlock)
           l == Task.label
<1>1. tasks # <<>> /\ Task.op = "statement"
  BY DEF Doing
<1>2. Home(Task) # 0 /\ Sequential(scopes)
  BY <1>1, Here DEF TaskRight
<1>3. Home(Task) = Task.parent
  BY <1>1 DEF Home
<1>4. q \in 1 .. Len(scopes)
  BY <1>1, <1>2, Closest
<1>5. \A p \in 1 .. Len(scopes) : DOMAIN scopes[p] = ScopeFields
  BY <1>1, Alive
<1> HIDE DEF l, q
<1>6. CASE FirstPrefix
  <2> DEFINE ns == LabelAt(scopes, q, l, Id)
  <2>1. PrefixedScopes = ns
    BY <1>6 DEF PrefixedScopes, q, l, LabelAt
  <2>2. /\ Sequential(ns) /\ Len(ns) = Len(scopes) /\ Kept(Names, tree, Len(scopes), scopes, ns)
        /\ ns[q].labels = Marked(scopes[q].labels, l, Id)
        /\ \A p \in 1 .. Len(scopes) : p # q => ns[p] = scopes[p]
        /\ DOMAIN ns[q] = ScopeFields
    <3>1. DOMAIN scopes[q] = ScopeFields /\ Sequential(scopes) /\ q \in 1 .. Len(scopes)
      BY <1>2, <1>4, <1>5
    <3>2. QED BY <3>1, Labelled
  <2> HIDE DEF ns
  <2>3. QED BY <1>1, <1>2, <1>3, <1>5, <1>6, <2>1, <2>2 DEF q, l
<1>7. CASE ~FirstPrefix
  BY <1>7, <1>1, <1>2, <1>3, <1>5 DEF PrefixedScopes, Kept
<1>8. QED BY <1>6, <1>7

(* What a statement may do to the scopes beside prefixing a label.         *)
Touched(ns) == Alike(PrefixedScopes, ns) /\ Kept(Names, tree, Len(scopes), scopes, ns)

LEMMA PrefixedTouched ==
    ASSUME Coherence, Doing("statement")
    PROVE  Touched(PrefixedScopes)
    BY Prefixing, AlikeItself DEF Touched

LEMMA FieldsPrefixed ==
    ASSUME Coherence, Doing("statement"), NEW p \in 1 .. Len(scopes)
    PROVE  /\ PrefixedScopes[p].names = scopes[p].names /\ PrefixedScopes[p].node = scopes[p].node
           /\ PrefixedScopes[p].kind = scopes[p].kind
<1> DEFINE q == At(ClosestContainingBlock)
           l == Task.label
<1>1. tasks # <<>> /\ Home(Task) # 0 /\ Sequential(scopes)
  BY Prefixing, Here
<1>2. q \in 1 .. Len(scopes) /\ DOMAIN scopes[q] = ScopeFields
  BY <1>1, Closest, Alive
<1> HIDE DEF l, q
<1>3. CASE ~FirstPrefix
  BY <1>3 DEF PrefixedScopes
<1>4. CASE FirstPrefix
  <2> DEFINE e == [scopes[q] EXCEPT !.labels = [scopes[q].labels EXCEPT ![l] = Id]]
             ns == [scopes EXCEPT ![q] = e]
  <2>1. PrefixedScopes = ns
    BY <1>4 DEF PrefixedScopes, q, l
  <2>2. ns[q] = e /\ (p # q => ns[p] = scopes[p])
    <3> HIDE DEF e
    <3>1. QED BY <1>1, <1>2, Updated
  <2>3. e.names = scopes[q].names /\ e.node = scopes[q].node /\ e.kind = scopes[q].kind
    BY <1>2 DEF ScopeFields
  <2> HIDE DEF e, ns
  <2>4. CASE p = q
    BY <2>1, <2>2, <2>3, <2>4
  <2>5. CASE p # q
    BY <2>1, <2>2, <2>5
  <2>6. QED BY <2>4, <2>5
<1>5. QED BY <1>3, <1>4

LEMMA ThreatenTouched ==
    ASSUME Coherence, Doing("statement"), NEW x \in Names, NEW k \in Indices,
           IsVariable(Parent(k).names[x])
    PROVE  Touched(Threaten(x, k, PrefixedScopes).scopes)
<1> DEFINE ps == PrefixedScopes
           p == At(k)
           ns == [ps EXCEPT ![p].threats = @ \cup {x}]
<1>1. tasks # <<>> /\ Sequential(ps) /\ Len(ps) = Len(scopes)
      /\ Kept(Names, tree, Len(scopes), scopes, ps)
      /\ \A j \in 1 .. Len(scopes) : DOMAIN ps[j] = ScopeFields
  BY Prefixing
<1>2. p \in 1 .. Len(scopes) /\ Parent(k) = scopes[p]
  BY <1>1, Index
<1> HIDE DEF p
<1>3. ps[p].names = scopes[p].names
  BY <1>2, FieldsPrefixed
<1>4. Touched(ps)
  BY PrefixedTouched
<1> HIDE DEF ps
<1>5. Alike(ps, ns) /\ Kept(Names, tree, Len(ps), ps, ns)
  BY <1>1, <1>2, <1>3, Threatened
<1> HIDE DEF ns
<1>6. Touched(ns)
  BY <1>1, <1>5, KeptTwice DEF Touched, ps
<1>7. CASE k = ClosestContainingBlock
  BY <1>4, <1>7 DEF Threaten, ps
<1>8. CASE k # ClosestContainingBlock
  BY <1>6, <1>8 DEF Threaten, ps, ns, p
<1>9. QED BY <1>7, <1>8

LEMMA AssignedTouched ==
    ASSUME Coherence, Doing("statement"), NEW k \in Indices,
           Parent(k).kind = "block", tree[Parent(k).node].use = "function"
    PROVE  Touched([PrefixedScopes EXCEPT ![At(k)].assigned = TRUE])
<1> DEFINE ps == PrefixedScopes
           p == At(k)
           ns == [ps EXCEPT ![p].assigned = TRUE]
<1>1. tasks # <<>> /\ Sequential(ps) /\ Len(ps) = Len(scopes)
      /\ Kept(Names, tree, Len(scopes), scopes, ps)
      /\ \A j \in 1 .. Len(scopes) : DOMAIN ps[j] = ScopeFields
  BY Prefixing
<1>2. p \in 1 .. Len(scopes) /\ Parent(k) = scopes[p]
  BY <1>1, Index
<1> HIDE DEF p
<1>3. ps[p].node = scopes[p].node /\ ps[p].kind = scopes[p].kind
  BY <1>2, FieldsPrefixed
<1> HIDE DEF ps
<1>5. Alike(ps, ns) /\ Kept(Names, tree, Len(ps), ps, ns)
  BY <1>1, <1>2, <1>3, Assigned
<1> HIDE DEF ns
<1>6. Kept(Names, tree, Len(scopes), scopes, ns)
  BY <1>1, <1>5, KeptTwice
<1>7. QED BY <1>5, <1>6 DEF Touched, ps, ns, p

(* The function of which a result is assigned is one that the block next   *)
(* to its own declares.                                                    *)
LEMMA ResultOfFunction ==
    ASSUME Coherence, tasks # <<>>, NEW x \in Names, NEW k \in Indices, IsCurrentFunction(x, k)
    PROVE  /\ k - 1 \in Indices /\ Parent(k - 1).kind = "block"
           /\ tree[Parent(k - 1).node].use = "function"
           /\ tree[Parent(k - 1).node].parent = Parent(k).node
<1> DEFINE p == At(k)
           b == scopes[p + 1].node
<1>1. /\ k > 0 /\ Parent(k).names[x] = "function"
      /\ Parent(k - 1).kind = "block" /\ tree[Parent(k - 1).node].arg = x
  BY DEF IsCurrentFunction
<1>2. /\ IsTree(tree) /\ Home(Task) \in 0 .. Len(tree) /\ Len(scopes) \in Nat
  BY Here
<1>3. k - 1 \in Indices /\ p \in 1 .. Len(scopes) /\ p + 1 \in 1 .. Len(scopes)
      /\ Parent(k) = scopes[p] /\ Parent(k - 1) = scopes[p + 1]
  BY <1>1, <1>2 DEF Indices, At, Parent
<1> HIDE DEF p
<1>4. /\ p + 1 = Place(tree, b, 1) /\ b \in 1 .. Len(tree) /\ b \in Around(tree, Home(Task))
      /\ tree[b].form = "block" /\ tree[b].arg = x
  <2> DEFINE i == p + 1
  <2>1. i \in 1 .. Len(scopes) /\ scopes[i].kind = "block"
    BY <1>1, <1>3
  <2> HIDE DEF i
  <2>2. i = Place(tree, scopes[i].node, 1) /\ scopes[i].node \in 1 .. Len(tree)
        /\ scopes[i].node \in Around(tree, Home(Task))
        /\ tree[scopes[i].node].form = "block"
    BY <2>1, Alive
  <2>3. tree[scopes[i].node].arg = x
    BY <1>1, <1>3 DEF i
  <2>4. QED BY <2>2, <2>3 DEF i
<1> DEFINE a == tree[b].parent
<1>5. p = Deep(tree, a)
  <2>1. p + 1 = Deep(tree, a) + 1
    BY <1>4 DEF Place
  <2>2. Deep(tree, a) \in Nat
    BY <1>2, <1>4, Unfold
  <2>3. p \in Nat
    BY <1>2, <1>3
  <2> HIDE DEF a
  <2>4. QED BY <2>1, <2>2, <2>3
<1>6. a # 0
  BY <1>5, Root, <1>2, <1>3
<1>7. tree[a].form = "block" /\ tree[b].use = tree[a].names[x]
  BY <1>2, <1>4, <1>6 DEF IsTree, IsNode
<1>8. a \in Around(tree, Home(Task))
  <2>1. a \in 1 .. Len(tree)
    <3>1. a \in 0 .. Len(tree)
      BY <1>2, <1>4, Unfold
    <3> HIDE DEF a
    <3>2. QED BY <1>2, <1>6, <3>1, Here
  <2>2. a \in Around(tree, a)
    BY <1>2, <2>1, Unfold
  <2>3. a \in Around(tree, b)
    BY <1>2, <1>4, <2>2, Unfold, SMTT(30)
  <2>4. Line(tree, Home(Task))
    BY <1>2, Lines
  <2>5. QED BY <1>4, <2>3, <2>4 DEF Line
<1> HIDE DEF a, b
<1>9. p = Place(tree, a, 1)
  BY <1>2, <1>5, <1>7, <1>8, BlockPlace
<1>10. ScopeOf(Names, tree, scopes[p], a, 1)
  BY <1>2, <1>7, <1>8, BlockPlace, <1>9, Here DEF Stacked
<1>11. scopes[p].names = tree[a].names /\ scopes[p].node = a
  BY <1>7, <1>10 DEF ScopeOf
<1>12. tree[b].use = "function"
  BY <1>1, <1>3, <1>7, <1>11
<1>13. QED BY <1>1, <1>3, <1>11, <1>12 DEF a, b

-----------------------------------------------------------------------------
(* What all statements have in common.                                     *)

(* The statements inside the one at hand: they may go to what it may, and  *)
(* to those that are in a sequence with them.                              *)
Inner(inside) ==
    /\ Sequential(inside)
    /\ \A k \in 1 .. Len(inside) :
          /\ inside[k].op = "statement" /\ inside[k].parent = Id
          /\ inside[k].label \in LabelChoices
          /\ inside[k].allowed = Allowed \cup
                ({inside[i].label : i \in {j \in 1 .. Len(inside) : inside[j].inSequence}} \ {NoLabel})

Accessing == {"assignment", "procedure", "read", "for"}
OtherCodes == Codes \ {"DISALLOWED_GOTO_TARGET", "UNDEFINED_LABEL"}
Minor(errs) == \A e \in errs : e.at = Id /\ e.code \in OtherCodes

LabelledBlocks(l) == {k \in BlockIndices : l \in DOMAIN Parent(k).labels}

Ordinary(form, arg, refers, fine, errs, ns, inside) ==
    /\ form \notin {"block", "goto"}
    /\ form = "with" => arg \in FieldLists /\ inside = <<>>
    /\ Touched(ns) /\ Inner(inside) /\ Minor(errs)
    /\ form \in Accessing =>
          arg \in Names /\ (refers # {} => Declaring(arg) # {} /\ refers = {Least(Declaring(arg))})

Going(form, arg, refers, fine, errs, ns, inside) ==
    /\ form = "goto" /\ arg \in Labels /\ inside = <<>> /\ ns = PrefixedScopes
    /\ LabelledBlocks(arg) = {} => refers = {} /\ errs = {Err("UNDEFINED_LABEL")}
    /\ LabelledBlocks(arg) # {} =>
          /\ refers = {Least(LabelledBlocks(arg))}
          /\ errs = ErrIf(arg \notin Allowed, "DISALLOWED_GOTO_TARGET")

Opened(arg) == PrefixedScopes \o [k \in DOMAIN arg |-> WithScope(Id, arg[k])]
Opening(form, arg, refers, fine, errs, ns, inside) ==
    /\ form = "with" /\ arg \in FieldLists /\ fine /\ errs = {}
    /\ ns = Opened(arg)
    /\ \E body : Inner(body) /\ inside = body \o <<LeaveTask("leaveWith", Id, "", Len(arg))>>

Resolved(form, arg, refers, fine, errs, ns, inside) ==
    \/ Ordinary(form, arg, refers, fine, errs, ns, inside)
    \/ Going(form, arg, refers, fine, errs, ns, inside)
    \/ Opening(form, arg, refers, fine, errs, ns, inside)

StatementStep ==
    \E form, arg, refers, fine, errs, ns, inside :
        /\ Resolve(form, arg, refers, fine, errs, ns, inside)
        /\ Resolved(form, arg, refers, fine, errs, ns, inside)

LEMMA Stepped ==
    ASSUME NEW form, NEW arg, NEW refers, NEW fine, NEW errs, NEW ns, NEW inside,
           Resolve(form, arg, refers, fine, errs, ns, inside),
           \/ Ordinary(form, arg, refers, fine, errs, ns, inside)
           \/ Going(form, arg, refers, fine, errs, ns, inside)
           \/ Opening(form, arg, refers, fine, errs, ns, inside)
    PROVE  StatementStep
BY DEF StatementStep, Resolved

LEMMA MinorErrors ==
    /\ Minor({})
    /\ \A code \in OtherCodes : Minor({Err(code)}) /\ \A c : Minor(ErrIf(c, code))
    /\ \A a, b : Minor(a) /\ Minor(b) => Minor(a \cup b)
<1>1. \A code : Err(code).at = Id /\ Err(code).code = code
  BY DEF Err
<1>2. Minor({})
  BY DEF Minor
<1>3. \A code \in OtherCodes : Minor({Err(code)})
  BY <1>1 DEF Minor
<1>4. \A code \in OtherCodes : \A c : Minor(ErrIf(c, code))
  BY <1>2, <1>3 DEF ErrIf
<1>5. \A a, b : Minor(a) /\ Minor(b) => Minor(a \cup b)
  BY DEF Minor
<1>6. QED BY <1>2, <1>3, <1>4, <1>5

LEMMA MinorCodes ==
    {"NON_BOOLEAN_TYPE", "NON_ORDINAL_TYPE", "DUPLICATE_CASE", "NON_RECORD_TYPE", "TYPE_MISMATCH",
     "UNDEFINED_IDENTIFIER", "WRONG_IDENTIFIER_KIND", "THREATENED_CONTROL_VARIABLE"}
        \subseteq OtherCodes
BY DEF OtherCodes, Codes

LEMMA NothingInside == Inner(<<>>)
    BY EmptySequence DEF Inner

LEMMA InSequenceOrNot ==
    ASSUME NEW l, NEW n, NEW a, NEW used, NEW task
    PROVE  /\ task = StatementTask(l, n, TRUE, a, used) => task.inSequence
           /\ task = StatementTask(l, n, FALSE, a, used) => ~task.inSequence
<1>1. ASSUME task = StatementTask(l, n, TRUE, a, used) PROVE task.inSequence
  BY <1>1 DEF StatementTask
<1>2. ASSUME task = StatementTask(l, n, FALSE, a, used) PROVE ~task.inSequence
  BY <1>2 DEF StatementTask
<1>3. QED BY <1>1, <1>2

(* The statements of a sequence.                                           *)
Sequenced(s, a) ==
    /\ Sequential(s)
    /\ \A k \in 1 .. Len(s) : /\ s[k].op = "statement" /\ s[k].parent = Id
                              /\ s[k].label \in LabelChoices /\ s[k].inSequence
                              /\ s[k].allowed = a \cup ({s[i].label : i \in 1 .. Len(s)} \ {NoLabel})

LEMMA SequenceMeans ==
    ASSUME IsVocabulary(vocabulary), NEW skeleton \in Skeletons, NEW base, NEW used
    PROVE  LET s == SequenceTasks(skeleton, Id, base, used)
           IN  /\ Sequenced(s, base)
               /\ LabelsOf(skeleton) = {s[i].label : i \in 1 .. Len(s)} \ {NoLabel}
               /\ \A k \in 1 .. Len(s) : s[k].used = used
<1> DEFINE s == SequenceTasks(skeleton, Id, base, used)
<1>1. PICK n \in 1 .. vocabulary.maxSequence : skeleton \in [1 .. n -> LabelChoices]
  BY DEF Skeletons
<1>2. n \in Nat
  BY DEF IsVocabulary
<1>3. DOMAIN skeleton = 1 .. n /\ \A k \in 1 .. n : skeleton[k] \in LabelChoices
  BY <1>1
<1>4. s = [k \in 1 .. n |->
             StatementTask(skeleton[k], Id, TRUE, base \cup LabelsOf(skeleton), used)]
  BY <1>3 DEF SequenceTasks
<1> HIDE DEF s
<1>5. \A k \in 1 .. n :
         s[k] = StatementTask(skeleton[k], Id, TRUE, base \cup LabelsOf(skeleton), used)
  BY <1>4
<1>6. s = [k \in 1 .. n |-> s[k]]
  BY <1>4
<1>7. Sequential(s) /\ Len(s) = n
  BY <1>2, <1>6, SequentialIf
<1>8. \A k \in 1 .. n : /\ s[k].op = "statement" /\ s[k].parent = Id /\ s[k].label = skeleton[k]
                        /\ s[k].inSequence /\ s[k].used = used
                        /\ s[k].allowed = base \cup LabelsOf(skeleton)
  <2> DEFINE a == base \cup LabelsOf(skeleton)
  <2> HIDE DEF a
  <2>1. ASSUME NEW k \in 1 .. n
        PROVE  /\ s[k].op = "statement" /\ s[k].parent = Id /\ s[k].label = skeleton[k]
               /\ s[k].inSequence /\ s[k].allowed = a /\ s[k].used = used
    <3>1. s[k] = StatementTask(skeleton[k], Id, TRUE, a, used)
      BY <1>5 DEF a
    <3>2. s[k].inSequence
      BY <3>1, InSequenceOrNot, Zenon
    <3>3. s[k].op = "statement" /\ s[k].parent = Id
      BY <3>1 DEF StatementTask
    <3>4. s[k].label = skeleton[k] /\ s[k].allowed = a /\ s[k].used = used
      BY <3>1 DEF StatementTask
    <3>5. QED BY <3>2, <3>3, <3>4
  <2>2. QED BY <2>1 DEF a
<1>9. LabelsOf(skeleton) = {s[i].label : i \in 1 .. n} \ {NoLabel}
  BY <1>8, <1>3 DEF Range, LabelsOf
<1>10. QED BY <1>3, <1>7, <1>8, <1>9 DEF s, Sequenced

LEMMA SequenceInside ==
    ASSUME IsVocabulary(vocabulary), NEW skeleton \in Skeletons, NEW used
    PROVE  Inner(SequenceTasks(skeleton, Id, Allowed, used))
<1> DEFINE s == SequenceTasks(skeleton, Id, Allowed, used)
<1>1. Sequenced(s, Allowed)
  BY SequenceMeans
<1> HIDE DEF s
<1>2. {j \in 1 .. Len(s) : s[j].inSequence} = 1 .. Len(s)
  BY <1>1 DEF Sequenced
<1>3. Inner(s)
  BY <1>1, <1>2 DEF Inner, Sequenced
<1>4. QED BY <1>3 DEF s

LEMMA BranchesInside ==
    ASSUME NEW n \in Nat, NEW labels \in [1 .. n -> LabelChoices], NEW used
    PROVE  Inner(InnerTasks(labels, used))
<1> DEFINE s == InnerTasks(labels, used)
<1>1. DOMAIN labels = 1 .. n /\ \A k \in 1 .. n : labels[k] \in LabelChoices
  OBVIOUS
<1>2. s = [k \in 1 .. n |-> StatementTask(labels[k], Id, FALSE, Allowed, used)]
  BY <1>1 DEF InnerTasks
<1> HIDE DEF s
<1>3. \A k \in 1 .. n : s[k] = StatementTask(labels[k], Id, FALSE, Allowed, used)
  BY <1>2
<1>4. s = [k \in 1 .. n |-> s[k]]
  BY <1>2
<1>5. Sequential(s) /\ Len(s) = n
  BY <1>4, SequentialIf
<1>6. \A k \in 1 .. n : /\ s[k].op = "statement" /\ s[k].parent = Id /\ s[k].label = labels[k]
                        /\ ~s[k].inSequence /\ s[k].allowed = Allowed
  <2>1. ASSUME NEW k \in 1 .. n
        PROVE  /\ s[k].op = "statement" /\ s[k].parent = Id /\ s[k].label = labels[k]
               /\ ~s[k].inSequence /\ s[k].allowed = Allowed
    <3>1. s[k] = StatementTask(labels[k], Id, FALSE, Allowed, used)
      BY <1>3
    <3>2. ~s[k].inSequence
      BY <3>1, InSequenceOrNot, Zenon
    <3>3. s[k].op = "statement" /\ s[k].parent = Id
      BY <3>1 DEF StatementTask
    <3>4. s[k].label = labels[k] /\ s[k].allowed = Allowed
      BY <3>1 DEF StatementTask
    <3>5. QED BY <3>2, <3>3, <3>4
  <2>2. QED BY <2>1
<1>7. {j \in 1 .. n : s[j].inSequence} = {}
  BY <1>6
<1>8. \A k \in 1 .. n :
         s[k].allowed = Allowed \cup ({s[i].label : i \in {j \in 1 .. n : s[j].inSequence}} \ {NoLabel})
  BY <1>6, <1>7
<1>9. QED BY <1>1, <1>5, <1>6, <1>8 DEF Inner, s

LEMMA OneInside ==
    ASSUME NEW label \in LabelChoices, NEW used
    PROVE  Inner(InnerTasks(<<label>>, used))
<1>1. <<label>> \in [1 .. 1 -> LabelChoices]
  OBVIOUS
<1>2. 1 \in Nat
  OBVIOUS
<1> HIDE DEF LabelChoices
<1>3. QED BY <1>1, <1>2, BranchesInside

LEMMA OrdinaryStep ==
    ASSUME Coherence, Doing("statement"),
           NEW form, NEW arg, NEW refers, NEW fine, NEW errs, NEW ns, NEW inside,
           Resolve(form, arg, refers, fine, errs, ns, inside),
           form \notin {"block", "goto", "with"} \cup Accessing,
           Touched(ns), Inner(inside), Minor(errs)
    PROVE  StatementStep
    BY Stepped DEF Ordinary

LEMMA AccessStep ==
    ASSUME Coherence, Doing("statement"),
           NEW form, NEW arg, NEW refers, NEW fine, NEW errs, NEW ns, NEW inside,
           Resolve(form, arg, refers, fine, errs, ns, inside),
           form \in Accessing, arg \in Names,
           refers = {} \/ (Declaring(arg) # {} /\ refers = {Least(Declaring(arg))}),
           Touched(ns), Inner(inside), Minor(errs)
    PROVE  StatementStep
    BY Stepped DEF Ordinary, Accessing

LEMMA Nearest ==
    ASSUME Coherence, tasks # <<>>, NEW x, Declaring(x) # {}
    PROVE  LET k == Least(Declaring(x))
           IN  k \in Indices /\ k \in Declaring(x) /\ (\A j \in Declaring(x) : k <= j)
               /\ UseOf(x) = Parent(k).names[x]
    BY Index, LeastOf DEF Declaring, UseOf

LEMMA AccessOtherStep ==
    ASSUME Coherence, Doing("statement"), NEW form \in Accessing, NEW x \in Names,
           NEW illegal, NEW errs, Minor(errs), AccessOther(form, x, illegal, errs)
    PROVE  StatementStep
<1>1. Touched(PrefixedScopes) /\ Inner(<<>>)
  BY PrefixedTouched, NothingInside
<1>2. ASSUME NEW code \in {"UNDEFINED_IDENTIFIER", "WRONG_IDENTIFIER_KIND"},
             Resolve(form, x, {}, TRUE, {Err(code)}, PrefixedScopes, <<>>)
      PROVE  StatementStep
  BY MinorErrors, MinorCodes, <1>1, <1>2, AccessStep
<1>3. CASE Resolve(form, x, {}, TRUE, {Err("UNDEFINED_IDENTIFIER")}, PrefixedScopes, <<>>)
  BY <1>2, <1>3
<1>4. CASE Resolve(form, x, {}, TRUE, {Err("WRONG_IDENTIFIER_KIND")}, PrefixedScopes, <<>>)
  BY <1>2, <1>4
<1>5. CASE /\ UseOf(x) \in {"parameter", "field"}
           /\ Resolve(form, x, {Least(Declaring(x))}, TRUE, errs, PrefixedScopes, <<>>)
  BY <1>5, <1>1, AccessStep DEF UseOf
<1>6. QED BY <1>3, <1>4, <1>5 DEF AccessOther

LEMMA AccessVariableStep ==
    ASSUME Coherence, Doing("statement"), NEW form \in Accessing, NEW x \in Names,
           NEW fine, NEW errs, Minor(errs), AccessVariable(form, x, fine, errs)
    PROVE  StatementStep
<1> DEFINE k == Least(Declaring(x))
           t == Threaten(x, k, PrefixedScopes)
<1>1. IsVariable(UseOf(x)) /\ Resolve(form, x, {k}, fine, errs \cup ThreatErrors(t), t.scopes, <<>>)
  BY DEF AccessVariable
<1>2. Declaring(x) # {}
  BY <1>1 DEF IsVariable, UseOf
<1>3. tasks # <<>>
  BY DEF Doing
<1>4. k \in Indices /\ IsVariable(Parent(k).names[x])
  BY <1>1, <1>2, <1>3, Nearest
<1>5. Touched(t.scopes)
  BY <1>4, ThreatenTouched
<1>6. Minor(errs \cup ThreatErrors(t))
  BY MinorErrors, MinorCodes DEF ThreatErrors
<1> HIDE DEF t
<1>7. QED BY <1>1, <1>2, <1>5, <1>6, NothingInside, AccessStep

LEMMA SimpleSteps ==
    ASSUME Coherence, EmptyStatement \/ ReadlnStatement
    PROVE  Doing("statement") /\ StatementStep
<1>1. Doing("statement")
  BY DEF EmptyStatement, ReadlnStatement, Resolving
<1>2. Touched(PrefixedScopes) /\ Inner(<<>>) /\ Minor({})
  BY <1>1, PrefixedTouched, NothingInside, MinorErrors
<1>3. CASE EmptyStatement
  BY <1>3, <1>1, <1>2, OrdinaryStep DEF EmptyStatement, Accessing
<1>4. CASE ReadlnStatement
  BY <1>4, MinorErrors, MinorCodes, <1>1, <1>2, OrdinaryStep DEF ReadlnStatement, Accessing,
      FileErrors
<1>5. QED BY <1>1, <1>3, <1>4

LEMMA SequenceSteps ==
    ASSUME Coherence, IsVocabulary(vocabulary), CompoundStatement \/ RepeatStatement
    PROVE  Doing("statement") /\ StatementStep
<1>1. Doing("statement")
  BY DEF CompoundStatement, RepeatStatement, Resolving
<1>2. Touched(PrefixedScopes) /\ Minor({})
  BY <1>1, PrefixedTouched, MinorErrors
<1>3. CASE CompoundStatement
  <2>1. PICK skeleton \in Skeletons :
           Resolve("compound", "", {}, TRUE, {}, PrefixedScopes,
                   SequenceTasks(skeleton, Id, Allowed, Task.used))
    BY <1>3 DEF CompoundStatement
  <2>2. "compound" \notin {"block", "goto", "with"} \cup Accessing
    BY DEF Accessing
  <2>3. Inner(SequenceTasks(skeleton, Id, Allowed, Task.used))
    BY SequenceInside
  <2>4. QED BY <1>1, <1>2, <2>1, <2>2, <2>3, OrdinaryStep
<1>4. CASE RepeatStatement
  <2>1. PICK skeleton \in Skeletons, fine \in BOOLEAN :
           Resolve("repeat", "", {}, fine, ErrIf(~fine, "NON_BOOLEAN_TYPE"),
                   PrefixedScopes, SequenceTasks(skeleton, Id, Allowed, Task.used))
    BY <1>4 DEF RepeatStatement
  <2>2. "repeat" \notin {"block", "goto", "with"} \cup Accessing
    BY DEF Accessing
  <2>3. Inner(SequenceTasks(skeleton, Id, Allowed, Task.used))
    BY SequenceInside
  <2>4. Minor(ErrIf(~fine, "NON_BOOLEAN_TYPE"))
    BY MinorErrors, MinorCodes
  <2>5. QED BY <1>1, <1>2, <2>1, <2>2, <2>3, <2>4, OrdinaryStep
<1>5. QED BY <1>1, <1>3, <1>4

LEMMA BranchSteps ==
    ASSUME Coherence, IfOrWhileStatement \/ CaseStatement
    PROVE  Doing("statement") /\ StatementStep
<1>1. Doing("statement")
  BY DEF IfOrWhileStatement, CaseStatement, Resolving
<1>2. Touched(PrefixedScopes)
  BY <1>1, PrefixedTouched
<1>3. CASE IfOrWhileStatement
  <2>1. PICK form \in {"if", "while"}, n \in {1, 2}, fine \in BOOLEAN :
           \E labels \in [1 .. n -> LabelChoices] :
              Resolve(form, "", {}, fine, ErrIf(~fine, "NON_BOOLEAN_TYPE"),
                      PrefixedScopes, InnerTasks(labels, Task.used))
    BY <1>3 DEF IfOrWhileStatement
  <2>2. PICK labels \in [1 .. n -> LabelChoices] :
           Resolve(form, "", {}, fine, ErrIf(~fine, "NON_BOOLEAN_TYPE"),
                   PrefixedScopes, InnerTasks(labels, Task.used))
    BY <2>1
  <2>3. form \notin {"block", "goto", "with"} \cup Accessing
    BY DEF Accessing
  <2>4. Inner(InnerTasks(labels, Task.used))
    BY BranchesInside
  <2>5. Minor(ErrIf(~fine, "NON_BOOLEAN_TYPE"))
    BY MinorErrors, MinorCodes
  <2>6. QED BY <1>1, <1>2, <2>2, <2>3, <2>4, <2>5, OrdinaryStep
<1>4. CASE CaseStatement
  <2>1. PICK n \in {1, 2}, flaw \in {"none", "index", "constant"} :
           \E labels \in [1 .. n -> LabelChoices] :
               Resolve("case", "", {}, flaw = "none",
                       ErrIf(flaw = "index", "NON_ORDINAL_TYPE")
                          \cup ErrIf(flaw = "constant", "DUPLICATE_CASE"),
                       PrefixedScopes,
                       IF flaw = "index" THEN <<>> ELSE InnerTasks(labels, Task.used))
    BY <1>4 DEF CaseStatement
  <2>2. PICK labels \in [1 .. n -> LabelChoices] :
               Resolve("case", "", {}, flaw = "none",
                       ErrIf(flaw = "index", "NON_ORDINAL_TYPE")
                          \cup ErrIf(flaw = "constant", "DUPLICATE_CASE"),
                       PrefixedScopes,
                       IF flaw = "index" THEN <<>> ELSE InnerTasks(labels, Task.used))
    BY <2>1
  <2> DEFINE inside == IF flaw = "index" THEN <<>> ELSE InnerTasks(labels, Task.used)
             errs == ErrIf(flaw = "index", "NON_ORDINAL_TYPE")
                        \cup ErrIf(flaw = "constant", "DUPLICATE_CASE")
             fine == flaw = "none"
  <2>3. "case" \notin {"block", "goto", "with"} \cup Accessing
    BY DEF Accessing
  <2>4. Inner(inside)
    BY BranchesInside, NothingInside
  <2>5. Minor(errs)
    BY MinorErrors, MinorCodes
  <2>6. Resolve("case", "", {}, fine, errs, PrefixedScopes, inside)
    BY <2>2
  <2> HIDE DEF inside, errs, fine
  <2>7. QED BY <1>1, <1>2, <2>3, <2>4, <2>5, <2>6, OrdinaryStep
<1>5. QED BY <1>1, <1>3, <1>4

LEMMA GotoSteps ==
    ASSUME GotoStatement
    PROVE  Doing("statement") /\ StatementStep
<1>1. Doing("statement")
  BY DEF GotoStatement, Resolving
<1>2. PICK l \in Labels :
         \/ /\ LabelledBlocks(l) = {}
            /\ Resolve("goto", l, {}, TRUE, {Err("UNDEFINED_LABEL")}, PrefixedScopes, <<>>)
         \/ /\ LabelledBlocks(l) # {}
            /\ Resolve("goto", l, {Least(LabelledBlocks(l))}, TRUE,
                       ErrIf(l \notin Allowed, "DISALLOWED_GOTO_TARGET"), PrefixedScopes, <<>>)
  BY DEF GotoStatement, LabelledBlocks
<1>3. CASE /\ LabelledBlocks(l) = {}
           /\ Resolve("goto", l, {}, TRUE, {Err("UNDEFINED_LABEL")}, PrefixedScopes, <<>>)
  BY <1>3, <1>1, Stepped DEF Going
<1>4. CASE /\ LabelledBlocks(l) # {}
           /\ Resolve("goto", l, {Least(LabelledBlocks(l))}, TRUE,
                      ErrIf(l \notin Allowed, "DISALLOWED_GOTO_TARGET"), PrefixedScopes, <<>>)
  BY <1>4, <1>1, Stepped DEF Going
<1>5. QED BY <1>2, <1>3, <1>4

LEMMA AssignmentSteps ==
    ASSUME Coherence, AssignmentStatement
    PROVE  Doing("statement") /\ StatementStep
<1>1. Doing("statement") /\ tasks # <<>>
  BY DEF AssignmentStatement, Resolving, Doing
<1>2. PICK x \in Names, fine \in BOOLEAN :
           LET k == Least(Declaring(x))
               mismatch == ErrIf(~fine, "TYPE_MISMATCH")
               result == IF fine THEN [PrefixedScopes EXCEPT ![At(k - 1)].assigned = TRUE]
                                 ELSE PrefixedScopes
           IN  \/ AccessVariable("assignment", x, fine, mismatch)
               \/ fine /\ AccessOther("assignment", x, {"procedure"}, {})
               \/ /\ UseOf(x) = "function" /\ ~IsCurrentFunction(x, k) /\ fine
                  /\ Resolve("assignment", x, {}, TRUE, {Err("WRONG_IDENTIFIER_KIND")},
                             PrefixedScopes, <<>>)
               \/ /\ UseOf(x) = "function" /\ IsCurrentFunction(x, k)
                  /\ Resolve("assignment", x, {k}, fine, mismatch, result, <<>>)
  BY <1>1 DEF AssignmentStatement
<1> DEFINE k == Least(Declaring(x))
           mismatch == ErrIf(~fine, "TYPE_MISMATCH")
           assigned == [PrefixedScopes EXCEPT ![At(k - 1)].assigned = TRUE]
<1>3. "assignment" \in Accessing /\ Touched(PrefixedScopes) /\ Inner(<<>>)
  BY <1>1, PrefixedTouched, NothingInside DEF Accessing
<1>4. Minor(mismatch) /\ Minor({}) /\ Minor({Err("WRONG_IDENTIFIER_KIND")})
  BY MinorErrors, MinorCodes
<1>5. CASE AccessVariable("assignment", x, fine, mismatch)
  <2> HIDE DEF mismatch
  <2>1. QED BY <1>1, <1>3, <1>4, <1>5, AccessVariableStep
<1>6. CASE AccessOther("assignment", x, {"procedure"}, {})
  BY <1>1, <1>3, <1>4, <1>6, AccessOtherStep
<1>7. CASE Resolve("assignment", x, {}, TRUE, {Err("WRONG_IDENTIFIER_KIND")}, PrefixedScopes, <<>>)
  BY <1>1, <1>3, <1>4, <1>7, AccessStep
<1>8. CASE /\ UseOf(x) = "function" /\ IsCurrentFunction(x, k)
           /\ Resolve("assignment", x, {k}, fine, mismatch,
                      IF fine THEN assigned ELSE PrefixedScopes, <<>>)
  <2>1. Declaring(x) # {}
    BY <1>8 DEF UseOf
  <2>2. k \in Indices
    BY <1>1, <2>1, Nearest
  <2>3. Touched(assigned)
    <3>1. k - 1 \in Indices /\ Parent(k - 1).kind = "block"
          /\ tree[Parent(k - 1).node].use = "function"
      BY <1>1, <1>8, <2>2, ResultOfFunction
    <3> DEFINE i == k - 1
    <3> HIDE DEF i
    <3>2. i \in Indices /\ Parent(i).kind = "block" /\ tree[Parent(i).node].use = "function"
      BY <3>1 DEF i
    <3>3. Touched([PrefixedScopes EXCEPT ![At(i)].assigned = TRUE])
      BY <1>1, <3>2, AssignedTouched
    <3>4. QED BY <3>3 DEF i
  <2> DEFINE ns == IF fine THEN assigned ELSE PrefixedScopes
  <2>4. Touched(ns)
    <3> HIDE DEF assigned
    <3>1. QED BY <1>3, <2>3
  <2>5. Resolve("assignment", x, {k}, fine, mismatch, ns, <<>>)
    BY <1>8
  <2> HIDE DEF ns, mismatch
  <2>6. QED BY <1>1, <1>3, <1>4, <2>1, <2>4, <2>5, AccessStep
<1> HIDE DEF mismatch
<1>9. \/ AccessVariable("assignment", x, fine, mismatch)
      \/ AccessOther("assignment", x, {"procedure"}, {})
      \/ Resolve("assignment", x, {}, TRUE, {Err("WRONG_IDENTIFIER_KIND")}, PrefixedScopes, <<>>)
      \/ /\ UseOf(x) = "function" /\ IsCurrentFunction(x, k)
         /\ Resolve("assignment", x, {k}, fine, mismatch,
                    IF fine THEN assigned ELSE PrefixedScopes, <<>>)
  BY <1>2 DEF mismatch
<1>10. QED BY <1>1, <1>5, <1>6, <1>7, <1>8, <1>9

LEMMA CallSteps ==
    ASSUME Coherence, ProcedureStatement \/ ReadStatement
    PROVE  Doing("statement") /\ StatementStep
<1>1. Doing("statement")
  BY DEF ProcedureStatement, ReadStatement, Resolving
<1>2. "procedure" \in Accessing /\ "read" \in Accessing
  BY DEF Accessing
<1>3. Minor({}) /\ Minor(FileErrors)
  BY MinorErrors, MinorCodes DEF FileErrors
<1>4. CASE ProcedureStatement
  <2>1. PICK x \in Names : \/ AccessVariable("procedure", x, TRUE, {})
                           \/ AccessOther("procedure", x, Callable, {})
    BY <1>4 DEF ProcedureStatement
  <2>2. QED BY <1>1, <1>2, <1>3, <2>1, AccessVariableStep, AccessOtherStep
<1>5. CASE ReadStatement
  <2>1. PICK x \in Names :
           \/ tree[1].input /\ AccessVariable("read", x, TRUE, {})
           \/ /\ ~tree[1].input /\ IsVariable(UseOf(x))
              /\ Resolve("read", x, {Least(Declaring(x))}, TRUE, FileErrors, PrefixedScopes, <<>>)
           \/ AccessOther("read", x, Callable, FileErrors)
    BY <1>5 DEF ReadStatement
  <2>2. CASE AccessVariable("read", x, TRUE, {})
    BY <1>1, <1>2, <1>3, <2>2, AccessVariableStep
  <2>3. CASE AccessOther("read", x, Callable, FileErrors)
    BY <1>1, <1>2, <1>3, <2>3, AccessOtherStep
  <2>4. CASE /\ IsVariable(UseOf(x))
             /\ Resolve("read", x, {Least(Declaring(x))}, TRUE, FileErrors, PrefixedScopes, <<>>)
    BY <2>4, <1>1, PrefixedTouched, <1>2, <1>3, NothingInside, AccessStep DEF IsVariable, UseOf
  <2>5. QED BY <2>1, <2>2, <2>3, <2>4
<1>6. QED BY <1>1, <1>4, <1>5

LEMMA ForSteps ==
    ASSUME Coherence, ForStatement
    PROVE  Doing("statement") /\ StatementStep
<1>1. Doing("statement") /\ tasks # <<>> /\ Home(Task) # 0
  BY Prefixing DEF ForStatement, Resolving
<1> DEFINE k == ClosestContainingBlock
<1>2. "for" \in Accessing /\ Touched(PrefixedScopes) /\ Inner(<<>>)
  BY <1>1, PrefixedTouched, NothingInside DEF Accessing
<1>3. ASSUME NEW x \in Names,
             NEW code \in {"WRONG_IDENTIFIER_KIND", "UNDEFINED_IDENTIFIER", "NON_ORDINAL_TYPE"},
             Resolve("for", x, {}, TRUE, {Err(code)}, PrefixedScopes, <<>>)
      PROVE  StatementStep
  BY MinorErrors, MinorCodes, <1>1, <1>2, <1>3, AccessStep
<1>4. PICK x \in Names, label \in LabelChoices :
           LET use == Parent(k).names[x]
               hidden == \E j \in 0 .. k - 1 : Parent(j).names[x] # "none"
               t == Threaten(x, k, PrefixedScopes)
               errs == ThreatErrors(t) \cup
                       ErrIf(x \in Parent(k).threats, "THREATENED_CONTROL_VARIABLE")
               Stop(code) == Resolve("for", x, {}, TRUE, {Err(code)}, PrefixedScopes, <<>>)
           IN  \/ hidden /\ Stop("WRONG_IDENTIFIER_KIND")
               \/ ~hidden /\ ~IsVariable(use) /\ Stop("UNDEFINED_IDENTIFIER")
               \/ ~hidden /\ use = "other" /\ Stop("NON_ORDINAL_TYPE")
               \/ /\ ~hidden /\ use = "ordinal"
                  /\ \/ Resolve("for", x, {k}, FALSE, errs \cup {Err("TYPE_MISMATCH")}, t.scopes, <<>>)
                     \/ Resolve("for", x, {k}, TRUE, errs, t.scopes,
                                InnerTasks(<<label>>, UsedInside(x)))
  BY DEF ForStatement
<1> DEFINE hidden == \E j \in 0 .. k - 1 : Parent(j).names[x] # "none"
           t == Threaten(x, k, PrefixedScopes)
           errs == ThreatErrors(t) \cup
                   ErrIf(x \in Parent(k).threats, "THREATENED_CONTROL_VARIABLE")
<1>5. \/ \E code \in {"WRONG_IDENTIFIER_KIND", "UNDEFINED_IDENTIFIER", "NON_ORDINAL_TYPE"} :
            Resolve("for", x, {}, TRUE, {Err(code)}, PrefixedScopes, <<>>)
      \/ /\ ~hidden /\ Parent(k).names[x] = "ordinal"
         /\ \/ Resolve("for", x, {k}, FALSE, errs \cup {Err("TYPE_MISMATCH")}, t.scopes, <<>>)
            \/ Resolve("for", x, {k}, TRUE, errs, t.scopes, InnerTasks(<<label>>, UsedInside(x)))
  BY <1>4
<1>6. CASE /\ ~hidden /\ Parent(k).names[x] = "ordinal"
           /\ \/ Resolve("for", x, {k}, FALSE, errs \cup {Err("TYPE_MISMATCH")}, t.scopes, <<>>)
              \/ Resolve("for", x, {k}, TRUE, errs, t.scopes, InnerTasks(<<label>>, UsedInside(x)))
  <2>1. k \in BlockIndices
    BY <1>1, Closest
  <2>2. k \in Indices /\ k \in Declaring(x) /\ k \in Nat
    BY <1>1, <1>6, <2>1, Index DEF BlockIndices, Declaring
  <2>3. k = Least(Declaring(x)) /\ Declaring(x) # {}
    <3> DEFINE j == Least(Declaring(x))
    <3>1. j \in Declaring(x) /\ j \in Indices /\ j <= k /\ j \in Nat
      BY <1>1, <2>2, Nearest, Index
    <3>2. Parent(j).names[x] # "none"
      BY <3>1 DEF Declaring
    <3> HIDE DEF j, k
    <3>3. ~(j < k)
      <4>1. ASSUME j < k PROVE FALSE
        BY <2>2, <3>1, <4>1, <1>6, <3>2
      <4>2. QED BY <4>1
    <3>4. j = k
      BY <2>2, <3>1, <3>3
    <3>5. QED BY <2>2, <3>4 DEF j
  <2>4. Touched(t.scopes)
    BY <1>6, <1>1, <2>2, ThreatenTouched DEF IsVariable
  <2>5. Minor(errs) /\ Minor(errs \cup {Err("TYPE_MISMATCH")})
    <3>1. Minor(ThreatErrors(t))
      BY MinorErrors, MinorCodes DEF ThreatErrors
    <3>2. Minor(ErrIf(x \in Parent(k).threats, "THREATENED_CONTROL_VARIABLE"))
      BY MinorErrors, MinorCodes
    <3>3. Minor({Err("TYPE_MISMATCH")})
      BY MinorErrors, MinorCodes
    <3> HIDE DEF t
    <3>4. QED BY <3>1, <3>2, <3>3, MinorErrors
  <2>6. Inner(InnerTasks(<<label>>, UsedInside(x)))
    BY OneInside
  <2> HIDE DEF t, k
  <2>7. CASE Resolve("for", x, {k}, FALSE, errs \cup {Err("TYPE_MISMATCH")}, t.scopes, <<>>)
    <3> DEFINE more == errs \cup {Err("TYPE_MISMATCH")}
    <3> HIDE DEF more
    <3>1. Minor(more) /\ Resolve("for", x, {k}, FALSE, more, t.scopes, <<>>)
      BY <2>5, <2>7 DEF more
    <3>2. QED BY <1>1, <1>2, <2>3, <2>4, <3>1, AccessStep
  <2>8. CASE Resolve("for", x, {k}, TRUE, errs, t.scopes, InnerTasks(<<label>>, UsedInside(x)))
    <3> HIDE DEF errs
    <3>1. QED BY <1>1, <1>2, <2>3, <2>4, <2>5, <2>6, <2>8, AccessStep
  <2>9. QED BY <1>6, <2>7, <2>8
<1>7. QED BY <1>1, <1>3, <1>5, <1>6

LEMMA WithSteps ==
    ASSUME Coherence, WithStatement
    PROVE  Doing("statement") /\ StatementStep
<1>1. Doing("statement")
  BY DEF WithStatement, Resolving
<1>2. PICK fields \in FieldLists, label \in LabelChoices :
           \/ Resolve("with", fields, {}, TRUE, {},
                      PrefixedScopes \o [k \in DOMAIN fields |-> WithScope(Id, fields[k])],
                      InnerTasks(<<label>>, Task.used)
                         \o <<LeaveTask("leaveWith", Id, "", Len(fields))>>)
           \/ Resolve("with", fields, {}, FALSE, {Err("NON_RECORD_TYPE")}, PrefixedScopes, <<>>)
  BY DEF WithStatement
<1> DEFINE body == InnerTasks(<<label>>, Task.used)
           inside == body \o <<LeaveTask("leaveWith", Id, "", Len(fields))>>
           ns == PrefixedScopes \o [k \in DOMAIN fields |-> WithScope(Id, fields[k])]
<1>3. CASE Resolve("with", fields, {}, TRUE, {}, ns, inside)
  <2>1. Inner(body)
    BY OneInside
  <2>2. Opening("with", fields, {}, TRUE, {}, ns, inside)
    <3> HIDE DEF body
    <3>1. \E b : Inner(b) /\ inside = b \o <<LeaveTask("leaveWith", Id, "", Len(fields))>>
      BY <2>1
    <3>2. QED BY <3>1 DEF Opening, Opened
  <2> HIDE DEF ns, inside
  <2>3. QED BY <1>1, <1>3, <2>2, Stepped
<1>4. CASE Resolve("with", fields, {}, FALSE, {Err("NON_RECORD_TYPE")}, PrefixedScopes, <<>>)
  BY <1>1, PrefixedTouched, NothingInside, MinorErrors, MinorCodes, <1>4, Stepped DEF Ordinary,
      Accessing
<1>5. QED BY <1>1, <1>2, <1>3, <1>4

StatementAction ==
    \/ EmptyStatement \/ GotoStatement \/ CompoundStatement \/ RepeatStatement
    \/ IfOrWhileStatement \/ CaseStatement \/ AssignmentStatement \/ ProcedureStatement
    \/ ReadStatement \/ ReadlnStatement \/ ForStatement \/ WithStatement

LEMMA StatementSteps ==
    ASSUME Coherence, IsVocabulary(vocabulary), StatementAction
    PROVE  Doing("statement") /\ StatementStep
BY SimpleSteps, SequenceSteps, BranchSteps, GotoSteps, AssignmentSteps, CallSteps, ForSteps,
   WithSteps DEF StatementAction

-----------------------------------------------------------------------------
(* The steps keep the invariant.                                           *)

LEMMA GrowsBy ==
    ASSUME NEW t, IsTree(t), NEW e, NEW u, u = Append(t, e), IsNode(u, Len(t) + 1)
    PROVE  Grows(t, u) /\ u[Len(t) + 1] = e
<1> DEFINE N == Len(t)
<1>1. /\ Sequential(t) /\ N \in Nat /\ Sequential(u) /\ Len(u) = N + 1
      /\ \A n \in 1 .. N : u[n] = t[n]
  BY Appended, SequentialMeans DEF IsTree
<1>2. u[N + 1] = e
  BY <1>1, Appended
<1> HIDE DEF N
<1>3. ASSUME NEW n \in 1 .. N PROVE IsNode(u, n)
  BY <1>1 DEF IsTree, IsNode, N, Inhabited
<1>4. \A n \in 1 .. N + 1 : n \in 1 .. N \/ n = N + 1
  BY <1>1
<1>5. IsTree(u)
  BY <1>1, <1>3, <1>4 DEF IsTree, N
<1>6. QED BY <1>1, <1>2, <1>5 DEF Grows, N

(* The node that a statement becomes.                                      *)
LEMMA StatementNode ==
    ASSUME Coherence, IsVocabulary(vocabulary), Doing("statement"),
           NEW form, NEW arg, NEW refers, NEW fine, NEW errs, NEW ns, NEW inside,
           Resolve(form, arg, refers, fine, errs, ns, inside),
           Resolved(form, arg, refers, fine, errs, ns, inside)
    PROVE  /\ Grows(tree, tree') /\ Id = Len(tree) + 1 /\ Id \in Nat /\ Len(tree') = Id
           /\ tree'[Id].form = form /\ tree'[Id].label = Task.label
           /\ tree'[Id].parent = Task.parent /\ tree'[Id].inSequence = Task.inSequence
           /\ tree'[Id].arg = arg /\ tree'[Id].refers = refers /\ tree'[Id].fine = fine
           /\ Task.parent \in 1 .. Len(tree) /\ Inhabited(tree, Task.parent)
           /\ form # "block" /\ (form = "with" => Sequential(arg) /\ arg \in FieldLists)
<1> DEFINE e == [form |-> form, label |-> Task.label, parent |-> Task.parent,
                 inSequence |-> Task.inSequence, arg |-> arg, refers |-> refers, fine |-> fine]
<1>1. tree' = Append(tree, e)
  BY DEF Resolve
<1>2. /\ e.form = form /\ e.label = Task.label /\ e.parent = Task.parent
      /\ e.inSequence = Task.inSequence /\ e.arg = arg /\ e.refers = refers /\ e.fine = fine
  OBVIOUS
<1> HIDE DEF e
<1>3. /\ IsTree(tree) /\ Len(tree) \in Nat /\ TaskRight(tree, Task) /\ Home(Task) \in 0 .. Len(tree)
      /\ Task.op = "statement" /\ Home(Task) = Task.parent /\ Task.parent # 0
  BY Prefixing, Here DEF Doing
<1>4. Task.parent \in 1 .. Len(tree) /\ Inhabited(tree, Task.parent)
  BY <1>3 DEF TaskRight
<1>5. form # "block" /\ (form = "with" => arg \in FieldLists)
  BY DEF Resolved, Ordinary, Going, Opening
<1>6. form = "with" => Sequential(arg)
  BY <1>5, InSeq DEF IsVocabulary, FieldLists, Names
<1>7. Sequential(tree)
  BY <1>3 DEF IsTree
<1>8. tree'[Len(tree) + 1] = e /\ \A n \in 1 .. Len(tree) : tree'[n] = tree[n]
  BY <1>1, <1>7, Appended
<1>9. IsNode(tree', Len(tree) + 1)
  <2> DEFINE n == Len(tree) + 1
  <2>1. n \in Nat /\ n # 1 /\ Task.parent \in 0 .. n - 1 /\ Task.parent # 0
    BY <1>3, <1>4
  <2>2. tree'[n] = e
    BY <1>8
  <2>3. Inhabited(tree', Task.parent)
    BY <1>4, <1>8 DEF Inhabited
  <2> HIDE DEF n
  <2>4. IsNode(tree', n)
    BY <1>2, <1>5, <1>6, <2>1, <2>2, <2>3 DEF IsNode
  <2>5. QED BY <2>4 DEF n
<1>10. Grows(tree, tree')
  BY <1>1, <1>3, <1>9, GrowsBy
<1>11. Id = Len(tree) + 1 /\ Id \in Nat /\ Len(tree') = Id
  BY <1>3, <1>10 DEF Id, Grows
<1>12. QED BY <1>2, <1>4, <1>5, <1>6, <1>8, <1>10, <1>11

LEMMA InnerRight ==
    ASSUME NEW t, IsTree(t), Id \in 1 .. Len(t), Inhabited(t, Id), NEW inside, Inner(inside)
    PROVE  TasksRight(t, inside) /\ Level(inside, Id)
<1>1. Sequential(inside) /\ Id # 0 /\ Id \in 0 .. Len(t)
  BY SequentialMeans DEF IsTree, Inner
<1>2. ASSUME NEW k \in 1 .. Len(inside)
      PROVE  TaskRight(t, inside[k]) /\ Home(inside[k]) = Id /\ inside[k].op \notin LeaveOps
  BY <1>1 DEF Inner, Home, TaskRight, LeaveOps
<1>3. QED BY <1>1, <1>2 DEF TasksRight, Level

LEMMA OrdinaryCoherent ==
    ASSUME Coherence, IsVocabulary(vocabulary), Doing("statement"),
           NEW form, NEW arg, NEW refers, NEW fine, NEW errs, NEW ns, NEW inside,
           Resolve(form, arg, refers, fine, errs, ns, inside),
           \/ Ordinary(form, arg, refers, fine, errs, ns, inside)
           \/ Going(form, arg, refers, fine, errs, ns, inside)
    PROVE  Coherent(Names, tree', tasks', scopes')
<1> DEFINE u == tree'
           h == Home(Task)
<1>1. /\ Grows(tree, u) /\ Id = Len(tree) + 1 /\ Id \in Nat /\ Len(u) = Id
      /\ u[Id].form = form /\ u[Id].parent = Task.parent /\ u[Id].arg = arg
      /\ Task.parent \in 1 .. Len(tree) /\ form # "block"
  BY StatementNode DEF Resolved
<1>2. tasks' = inside \o Tail(tasks) /\ scopes' = ns
  BY DEF Resolve
<1>3. /\ tasks # <<>> /\ Task = tasks[1] /\ Task.op = "statement" /\ h = Task.parent /\ h # 0
      /\ IsTree(tree) /\ h \in 0 .. Len(tree) /\ Len(scopes) = Deep(tree, h) /\ Len(scopes) \in Nat
      /\ Stacked(Names, tree, scopes, h)
  BY Prefixing, Here DEF Doing
<1> HIDE DEF u, h
<1>4. Touched(ns) /\ Inner(inside) /\ (form = "goto" \/ form = "with" => inside = <<>>)
  BY PrefixedTouched, NothingInside DEF Ordinary, Going
<1>5. Sequential(ns) /\ Len(ns) = Len(scopes) /\ Kept(Names, tree, Len(scopes), scopes, ns)
  BY <1>4, Prefixing DEF Touched, Alike
<1>6. Left(tree, tasks[1]) = Len(scopes)
  BY <1>3 DEF Left, Before, LeaveOps, h
<1>7. IsTree(u) /\ Id \in 1 .. Len(u)
  BY <1>1 DEF Grows
<1>8. form \notin {"block", "with"} => OpensIn(u, Id) = 0 /\ Deep(u, Id) = Len(scopes)
  <2>1. ASSUME form \notin {"block", "with"} PROVE OpensIn(u, Id) = 0 /\ Deep(u, Id) = Len(scopes)
    <3>1. OpensIn(u, Id) = 0
      BY <1>1, <2>1 DEF OpensIn
    <3>2. Deep(u, Id) = OpensIn(u, Id) + Deep(u, h) /\ Deep(u, h) \in Nat
      BY <1>1, <1>3, <1>7, Unfold
    <3>3. Deep(u, h) = Deep(tree, h)
      BY <1>1, <1>3, Stable
    <3>4. QED BY <1>3, <3>1, <3>2, <3>3
  <2>2. QED BY <2>1
<1>9. TasksRight(u, inside) /\ Leads(u, inside, Len(ns), Left(tree, tasks[1]))
  <2>1. CASE inside = <<>>
    BY EmptySequence, <1>5, <1>6, <2>1 DEF TasksRight, Leads
  <2>2. CASE inside # <<>>
    <3>1. form \notin {"goto", "with"}
      BY <1>4, <2>2
    <3>2. Inhabited(u, Id)
      BY <1>1, <3>1 DEF Inhabited
    <3>3. TasksRight(u, inside) /\ Level(inside, Id)
      BY <1>4, <1>7, <3>2, InnerRight
    <3>4. Leads(u, inside, Deep(u, Id), Deep(u, Id))
      BY <1>7, <3>3, LevelLeads
    <3>5. QED BY <1>1, <1>5, <1>6, <1>8, <3>1, <3>3, <3>4
  <2>3. QED BY <2>1, <2>2
<1>10. \A k \in 1 .. Len(inside) : Home(inside[k]) # 0 /\ Stacked(Names, u, ns, Home(inside[k]))
  <2>1. CASE inside = <<>>
    BY <2>1, EmptySequence
  <2>2. CASE inside # <<>>
    <3>1. form \notin {"block", "goto", "with"}
      BY <1>1, <1>4, <2>2
    <3>2. Stacked(Names, tree, ns, h)
      BY <1>3, <1>5, StackedKept
    <3>3. Stacked(Names, u, ns, h)
      BY <1>1, <1>3, <3>2, StackedStable
    <3>4. \A j \in 1 .. OpensIn(u, Len(u)) : ScopeOf(Names, u, ns[Place(u, Len(u), j)], Len(u), j)
      BY <1>1, <1>8, <3>1
    <3>5. Stacked(Names, u, ns, Id)
      BY <1>1, <1>3, <3>3, <3>4, StackedInside
    <3>6. \A k \in 1 .. Len(inside) : Home(inside[k]) = Id
      BY <1>1, <3>1, <1>4, <1>7, InnerRight DEF Inhabited, Level
    <3>7. Id # 0
      BY <1>1
    <3>8. QED BY <3>5, <3>6, <3>7
  <2>3. QED BY <2>1, <2>2
<1>11. Coherent(Names, u, inside \o Tail(tasks), ns)
  BY <1>5, <1>6, <1>1, <1>3, <1>9, <1>10, Replacing DEF Coherence
<1>12. QED BY <1>2, <1>11 DEF u

LEMMA OneOf ==
    ASSUME NEW a, Sequential(a), NEW b, Sequential(b), NEW k \in 1 .. Len(a \o b)
    PROVE  \/ \E i \in 1 .. Len(a) : (a \o b)[k] = a[i]
           \/ \E i \in 1 .. Len(b) : (a \o b)[k] = b[i]
<1> DEFINE p == Len(a)
           q == Len(b)
           c == a \o b
<1>1. /\ p \in Nat /\ q \in Nat /\ Len(c) = p + q
      /\ \A i \in 1 .. p : c[i] = a[i] /\ \A j \in p + 1 .. p + q : c[j] = b[j - p]
  BY Joined, SequentialMeans
<1>2. k \in 1 .. p + q
  BY <1>1
<1>3. \A j \in p + 1 .. p + q : c[j] = b[j - p]
  BY Joined
<1> HIDE DEF p, q, c
<1>4. CASE k <= p
  BY <1>1, <1>2, <1>4 DEF p, c
<1>5. CASE ~(k <= p)
  BY <1>1, <1>2, <1>5, <1>3 DEF q, c
<1>6. QED BY <1>4, <1>5

(* The tasks of a node that opens scopes: what is inside, and to leave.    *)
LEMMA BodyLeads ==
    ASSUME NEW t, IsTree(t), NEW n \in 1 .. Len(t), NEW body, Level(body, n), TasksRight(t, body),
           NEW leave, TaskRight(t, leave), leave.op \in LeaveOps, leave.node = n
    PROVE  LET inside == body \o <<leave>>
           IN  /\ TasksRight(t, inside) /\ Leads(t, inside, Deep(t, n), Deep(t, t[n].parent))
               /\ \A k \in 1 .. Len(inside) : Home(inside[k]) = n
<1> DEFINE inside == body \o <<leave>>
<1>1. Deep(t, n) \in Nat /\ Deep(t, t[n].parent) \in Nat
  BY Unfold
<1>2. Home(leave) = n
  BY DEF Home, LeaveOps
<1>3. Before(t, leave) = Deep(t, n) /\ Left(t, leave) = Deep(t, t[n].parent)
  BY <1>2 DEF Before, Left
<1>4. TasksRight(t, <<leave>>) /\ Leads(t, <<leave>>, Deep(t, n), Deep(t, t[n].parent))
  BY <1>3, LeaveLeads
<1>5. Leads(t, body, Deep(t, n), Deep(t, n))
  BY LevelLeads
<1>6. Sequential(<<leave>>) /\ Len(<<leave>>) = 1 /\ <<leave>>[1] = leave
  BY Single
<1>7. \A i \in 1 .. 1 : i = 1
  OBVIOUS
<1>8. Deep(t, t[n].parent) <= Deep(t, n)
  BY <1>3, BeforeNat
<1>9. \A k \in 1 .. Len(<<leave>>) : Before(t, <<leave>>[k]) <= Deep(t, n)
  BY <1>1, <1>3, <1>6, <1>7
<1>10. TasksRight(t, inside) /\ Leads(t, inside, Deep(t, n), Deep(t, t[n].parent))
  BY <1>1, <1>4, <1>5, <1>8, <1>9, LeadsJoin
<1>11. ASSUME NEW k \in 1 .. Len(inside) PROVE Home(inside[k]) = n
  <2>1. Sequential(body)
    BY DEF Level
  <2>2. \/ \E i \in 1 .. Len(body) : inside[k] = body[i]
        \/ \E i \in 1 .. Len(<<leave>>) : inside[k] = <<leave>>[i]
    BY <1>6, <2>1, OneOf
  <2> HIDE DEF inside
  <2>3. QED BY <1>2, <1>6, <1>7, <2>2 DEF Level
<1>12. QED BY <1>10, <1>11

LEMMA OpenedScope ==
    ASSUME NEW t, NEW n, t[n].form = "with", NEW j
    PROVE  ScopeOf(Names, t, WithScope(n, t[n].arg[j]), n, j)
<1> DEFINE names == [x \in Names |-> IF x \in t[n].arg[j] THEN "field" ELSE "none"]
           b == BlockScope(n, names, {})
           s == WithScope(n, t[n].arg[j])
<1>1. \A x \in Names : names[x] = IF x \in t[n].arg[j] THEN "field" ELSE "none"
  OBVIOUS
<1> HIDE DEF names
<1>2. /\ DOMAIN b = ScopeFields /\ b.node = n /\ b.names = names
      /\ b.labels = [l \in {} |-> 0] /\ b.threats = {} /\ b.assigned = FALSE
  BY DEF BlockScope, ScopeFields
<1>3. s = [b EXCEPT !.kind = "with"]
  BY DEF WithScope, names
<1> HIDE DEF b, s
<1>4. /\ DOMAIN s = ScopeFields /\ s.node = n /\ s.names = names /\ s.kind = "with"
      /\ s.labels = [l \in {} |-> 0] /\ s.threats = {} /\ s.assigned = FALSE
  BY <1>2, <1>3 DEF ScopeFields
<1>5. DOMAIN s.labels = {}
  BY <1>4
<1>6. ~s.assigned
  BY <1>4
<1>7. ScopeOf(Names, t, s, n, j)
  BY <1>1, <1>4, <1>5, <1>6 DEF ScopeOf, ScopeFields
<1>8. QED BY <1>7 DEF s

(* The scopes that a with statement opens come after those alive.          *)
LEMMA OpeningScopes ==
    ASSUME Coherence, Doing("statement"), NEW arg, Sequential(arg)
    PROVE  LET ns == Opened(arg)
           IN  /\ Sequential(ns) /\ Len(ns) = Len(scopes) + Len(arg)
               /\ \A p \in 1 .. Len(scopes) : ns[p] = PrefixedScopes[p]
               /\ \A j \in 1 .. Len(arg) : ns[Len(scopes) + j] = WithScope(Id, arg[j])
<1> DEFINE w == [k \in DOMAIN arg |-> WithScope(Id, arg[k])]
           ps == PrefixedScopes
           ns == ps \o w
<1>1. Sequential(ps) /\ Len(ps) = Len(scopes) /\ Len(scopes) \in Nat
  BY Prefixing, Here
<1>2. Sequential(w) /\ Len(w) = Len(arg) /\ Len(arg) \in Nat
      /\ \A k \in 1 .. Len(arg) : w[k] = WithScope(Id, arg[k])
  <2>1. DOMAIN arg = 1 .. Len(arg) /\ Len(arg) \in Nat
    BY SequentialMeans
  <2>2. w = [k \in 1 .. Len(arg) |-> w[k]] /\ \A k \in 1 .. Len(arg) : w[k] = WithScope(Id, arg[k])
    BY <2>1
  <2> HIDE DEF w
  <2>3. QED BY <2>1, <2>2, SequentialIf
<1> HIDE DEF w, ps
<1>3. /\ Sequential(ns) /\ Len(ns) = Len(scopes) + Len(arg)
      /\ \A p \in 1 .. Len(scopes) : ns[p] = ps[p]
      /\ \A p \in Len(scopes) + 1 .. Len(scopes) + Len(arg) : ns[p] = w[p - Len(scopes)]
  <2>1. /\ Sequential(ns) /\ Len(ns) = Len(ps) + Len(w)
        /\ \A p \in 1 .. Len(ps) : ns[p] = ps[p]
        /\ \A p \in Len(ps) + 1 .. Len(ps) + Len(w) : ns[p] = w[p - Len(ps)]
    BY <1>1, <1>2, Joined
  <2>2. QED BY <1>1, <1>2, <2>1
<1> HIDE DEF ns
<1>4. ASSUME NEW j \in 1 .. Len(arg) PROVE ns[Len(scopes) + j] = WithScope(Id, arg[j])
  <2> DEFINE p == Len(scopes) + j
  <2>1. p \in Len(scopes) + 1 .. Len(scopes) + Len(arg) /\ p - Len(scopes) = j
    BY <1>1, <1>2
  <2> HIDE DEF p
  <2>2. ns[p] = w[j]
    BY <1>3, <2>1
  <2>3. QED BY <1>2, <2>2 DEF p
<1>5. QED BY <1>3, <1>4 DEF ns, w, ps, Opened

LEMMA OpeningCoherent ==
    ASSUME Coherence, IsVocabulary(vocabulary), Doing("statement"),
           NEW form, NEW arg, NEW refers, NEW fine, NEW errs, NEW ns, NEW inside,
           Resolve(form, arg, refers, fine, errs, ns, inside),
           Opening(form, arg, refers, fine, errs, ns, inside)
    PROVE  Coherent(Names, tree', tasks', scopes')
<1> DEFINE u == tree'
           h == Home(Task)
           leave == LeaveTask("leaveWith", Id, "", Len(arg))
           ps == PrefixedScopes
<1>1. /\ Grows(tree, u) /\ Id = Len(tree) + 1 /\ Id \in Nat /\ Len(u) = Id
      /\ u[Id].form = form /\ u[Id].parent = Task.parent /\ u[Id].arg = arg
      /\ u[Id].fine = fine
      /\ Task.parent \in 1 .. Len(tree) /\ (form = "with" => Sequential(arg))
  BY StatementNode DEF Resolved
<1>2. tasks' = inside \o Tail(tasks) /\ scopes' = ns
  BY DEF Resolve
<1>3. /\ tasks # <<>> /\ Task = tasks[1] /\ Task.op = "statement" /\ h = Task.parent /\ h # 0
      /\ IsTree(tree) /\ h \in 0 .. Len(tree) /\ Len(scopes) = Deep(tree, h) /\ Len(scopes) \in Nat
      /\ Stacked(Names, tree, scopes, h)
  BY Prefixing, Here DEF Doing
<1>4. /\ form = "with" /\ fine /\ Sequential(arg) /\ ns = Opened(arg)
      /\ \E body : Inner(body) /\ inside = body \o <<leave>>
  BY <1>1 DEF Opening
<1>5. PICK body : Inner(body) /\ inside = body \o <<leave>>
  BY <1>4
<1>6. leave.op = "leaveWith" /\ leave.node = Id /\ leave.count = Len(arg)
  BY DEF LeaveTask
<1>7. /\ Sequential(ps) /\ Len(ps) = Len(scopes)
      /\ Kept(Names, tree, Len(scopes), scopes, ps)
  BY Prefixing
<1>8. Len(arg) \in Nat
  BY <1>4, SequentialMeans
<1>9. /\ Sequential(ns) /\ Len(ns) = Len(scopes) + Len(arg)
      /\ \A p \in 1 .. Len(scopes) : ns[p] = ps[p]
      /\ \A j \in 1 .. Len(arg) : ns[Len(scopes) + j] = WithScope(Id, arg[j])
  BY <1>4, OpeningScopes
<1> HIDE DEF u, h, leave, ps
<1>10. Kept(Names, tree, Len(scopes), scopes, ns)
  BY <1>7, <1>9 DEF Kept
<1>11. IsTree(u) /\ Id \in 1 .. Len(u)
  BY <1>1 DEF Grows
<1>12. /\ OpensIn(u, Id) = Len(arg) /\ Deep(u, u[Id].parent) = Len(scopes)
       /\ Deep(u, Id) = Len(scopes) + Len(arg)
  <2>1. OpensIn(u, Id) = Len(arg)
    BY <1>1, <1>4 DEF OpensIn
  <2>2. Deep(u, u[Id].parent) = Len(scopes)
    BY <1>1, <1>3, Stable
  <2>3. Deep(u, Id) = OpensIn(u, Id) + Deep(u, u[Id].parent)
    BY <1>11, Unfold
  <2>4. QED BY <1>3, <1>8, <2>1, <2>2, <2>3
<1>13. Left(tree, tasks[1]) = Len(scopes)
  BY <1>3 DEF Left, Before, LeaveOps, h
<1>14. /\ TasksRight(u, inside) /\ Leads(u, inside, Len(ns), Len(scopes))
       /\ \A k \in 1 .. Len(inside) : Home(inside[k]) = Id
  <2>1. Inhabited(u, Id)
    BY <1>1, <1>4 DEF Inhabited
  <2>2. TasksRight(u, body) /\ Level(body, Id)
    BY <1>5, <1>11, <2>1, InnerRight
  <2>3. TaskRight(u, leave) /\ leave.op \in LeaveOps
    BY <1>6, <1>1, <1>4, <1>12 DEF Home, TaskRight, LeaveOps
  <2>4. QED BY <1>5, <1>6, <1>9, <1>11, <1>12, <2>2, <2>3, BodyLeads
<1>15. Stacked(Names, u, ns, Id)
  <2>1. Stacked(Names, tree, ns, h)
    BY <1>3, <1>10, StackedKept
  <2>2. Stacked(Names, u, ns, h)
    BY <1>1, <1>3, <2>1, StackedStable
  <2>3. ASSUME NEW j \in 1 .. OpensIn(u, Len(u))
        PROVE  ScopeOf(Names, u, ns[Place(u, Len(u), j)], Len(u), j)
    <3>1. j \in 1 .. Len(arg)
      BY <1>1, <1>12
    <3>2. ns[Place(u, Id, j)] = WithScope(Id, u[Id].arg[j])
      BY <1>1, <1>9, <1>12, <3>1 DEF Place
    <3>3. ScopeOf(Names, u, WithScope(Id, u[Id].arg[j]), Id, j)
      BY <1>1, <1>4, OpenedScope
    <3>4. QED BY <1>1, <3>2, <3>3
  <2>4. QED BY <1>1, <1>3, <2>2, <2>3, StackedInside
<1>16. Coherent(Names, u, inside \o Tail(tasks), ns)
  <2>1. Coherent(Names, tree, tasks, scopes)
    BY DEF Coherence
  <2>2. Kept(Names, tree, Left(tree, tasks[1]), scopes, ns)
    BY <1>10, <1>13
  <2>3. Leads(u, inside, Len(ns), Left(tree, tasks[1]))
    BY <1>13, <1>14
  <2>4. \A k \in 1 .. Len(inside) : Home(inside[k]) # 0 /\ Stacked(Names, u, ns, Home(inside[k]))
    BY <1>11, <1>14, <1>15
  <2>5. QED BY <1>1, <1>3, <1>9, <1>14, <2>1, <2>2, <2>3, <2>4, Replacing
<1>17. QED BY <1>2, <1>16 DEF u

LEMMA StatementCoherent ==
    ASSUME Coherence, IsVocabulary(vocabulary), Doing("statement"), StatementStep
    PROVE  Coherent(Names, tree', tasks', scopes')
<1>1. PICK form, arg, refers, fine, errs, ns, inside :
         /\ Resolve(form, arg, refers, fine, errs, ns, inside)
         /\ Resolved(form, arg, refers, fine, errs, ns, inside)
  BY DEF StatementStep
<1>2. CASE Ordinary(form, arg, refers, fine, errs, ns, inside)
  BY <1>1, <1>2, OrdinaryCoherent
<1>3. CASE Going(form, arg, refers, fine, errs, ns, inside)
  BY <1>1, <1>3, OrdinaryCoherent
<1>4. CASE Opening(form, arg, refers, fine, errs, ns, inside)
  BY <1>1, <1>4, OpeningCoherent
<1>5. QED BY <1>1, <1>2, <1>3, <1>4 DEF Resolved

(* What is inside a block: its subroutines, then its statements.           *)
Body(body, labels) ==
    /\ Sequential(body)
    /\ \A k \in 1 .. Len(body) :
          /\ body[k].op \in {"subroutines", "statement"} /\ body[k].parent = Id
          /\ body[k].op = "statement" =>
                /\ body[k].label \in LabelChoices /\ body[k].inSequence /\ body[k].used = {}
                /\ \A i \in k .. Len(body) : body[i].op = "statement"
          /\ body[k].allowed = (Task.allowed \ labels) \cup
                ({body[i].label : i \in {j \in 1 .. Len(body) : body[j].op = "statement"}} \ {NoLabel})

BlockNode(e, uses, labels, repeated) ==
    /\ e.form = "block" /\ e.arg = Task.name /\ e.use = Task.use /\ e.parent = Task.parent
    /\ e.names = uses /\ e.labels = labels /\ e.repeated = repeated
    /\ e.label = NoLabel /\ ~e.inSequence

Building(uses, labels, repeated, body, e) ==
    /\ uses \in Declarations /\ labels \subseteq Labels
    /\ Body(body, labels) /\ BlockNode(e, uses, labels, repeated)
    /\ tasks' = (body \o <<LeaveTask("leaveBlock", Id, Task.name, 1)>>) \o Tail(tasks)
    /\ scopes' = Append(scopes, BlockScope(Id, uses, labels))
    /\ errors' = errors \cup ErrIf(repeated # NoLabel, "DUPLICATE_LABEL")
    /\ tree' = Append(tree, e)
BlockStep == \E uses, labels, repeated, body, e : Building(uses, labels, repeated, body, e)

LEMMA BodyMeans ==
    ASSUME IsVocabulary(vocabulary), NEW skeleton \in Skeletons, NEW labels, NEW names
    PROVE  LET allowed == AllowedInBlock(Task.allowed, labels, skeleton)
           IN  /\ Body(SequenceTasks(skeleton, Id, allowed, {}), labels)
               /\ Body(<<SubroutinesTask(names, Id, allowed)>>
                          \o SequenceTasks(skeleton, Id, allowed, {}), labels)
<1> DEFINE allowed == AllowedInBlock(Task.allowed, labels, skeleton)
           s == SequenceTasks(skeleton, Id, allowed, {})
           first == SubroutinesTask(names, Id, allowed)
           b == <<first>> \o s
<1>1. /\ Sequenced(s, allowed) /\ LabelsOf(skeleton) = {s[i].label : i \in 1 .. Len(s)} \ {NoLabel}
      /\ \A k \in 1 .. Len(s) : s[k].used = {}
  BY SequenceMeans
<1>2. first.op = "subroutines" /\ first.parent = Id /\ first.allowed = allowed
  BY DEF SubroutinesTask
<1>3. allowed = (Task.allowed \ labels) \cup ({s[i].label : i \in 1 .. Len(s)} \ {NoLabel})
  BY <1>1 DEF AllowedInBlock
<1> HIDE DEF s, first, allowed
<1>4. \A k \in 1 .. Len(s) : s[k].allowed = allowed
  BY <1>1, <1>3 DEF Sequenced
<1>5. Body(s, labels)
  BY <1>1, SequentialMeans, <1>3, <1>4 DEF Sequenced, Body
<1>6. Body(b, labels)
  <2>1. Sequential(<<first>>) /\ Len(<<first>>) = 1 /\ <<first>>[1] = first
    BY Single
  <2>2. Sequential(s) /\ Len(s) \in Nat
    BY <1>1, SequentialMeans DEF Sequenced
  <2>3. /\ Sequential(b) /\ Len(b) = Len(<<first>>) + Len(s)
        /\ \A k \in 1 .. Len(<<first>>) : b[k] = <<first>>[k]
        /\ \A k \in Len(<<first>>) + 1 .. Len(<<first>>) + Len(s) : b[k] = s[k - Len(<<first>>)]
    BY <2>1, <2>2, Joined
  <2> HIDE DEF b
  <2>4. Len(b) = 1 + Len(s) /\ b[1] = first
    BY <2>1, <2>3
  <2>5. ASSUME NEW k \in 1 .. Len(s) PROVE b[k + 1] = s[k]
    <3> DEFINE i == k + 1
    <3>1. i \in Len(<<first>>) + 1 .. Len(<<first>>) + Len(s) /\ i - Len(<<first>>) = k
      BY <2>1, <2>2
    <3> HIDE DEF i
    <3>2. b[i] = s[k]
      BY <2>3, <3>1
    <3>3. QED BY <3>2 DEF i
  <2>6. ASSUME NEW k \in 1 .. Len(b)
        PROVE  k = 1 \/ \E i \in 1 .. Len(s) : k = i + 1
    BY <2>2, <2>4
  <2>7. \A i \in 1 .. Len(s) : i + 1 \in 1 .. Len(b)
    BY <2>2, <2>4
  <2>8. {b[i].label : i \in {j \in 1 .. Len(b) : b[j].op = "statement"}}
           = {s[i].label : i \in 1 .. Len(s)}
    <3>1. ASSUME NEW i \in 1 .. Len(b), b[i].op = "statement"
          PROVE  \E k \in 1 .. Len(s) : b[i].label = s[k].label
      BY <1>2, <2>4, <3>1, <2>5, <2>6
    <3>2. ASSUME NEW i \in 1 .. Len(s)
          PROVE  \E j \in 1 .. Len(b) : b[j].op = "statement" /\ b[j].label = s[i].label
      BY <2>5, <2>7, <1>1 DEF Sequenced
    <3> DEFINE A == {j \in 1 .. Len(b) : b[j].op = "statement"}
               B == {b[i].label : i \in A}
               C == {s[i].label : i \in 1 .. Len(s)}
    <3>3. ASSUME NEW l \in B PROVE l \in C
      BY <3>1
    <3>4. ASSUME NEW l \in C PROVE l \in B
      BY <3>2
    <3> HIDE DEF B, C
    <3>5. B = C
      BY <3>3, <3>4
    <3>6. QED BY <3>5 DEF B, C
  <2>9. ASSUME NEW k \in 1 .. Len(b)
        PROVE  /\ b[k].op \in {"subroutines", "statement"} /\ b[k].parent = Id
               /\ b[k].op = "statement" =>
                     b[k].label \in LabelChoices /\ b[k].inSequence /\ b[k].used = {}
               /\ b[k].op = "statement" <=> k # 1
               /\ b[k].allowed = allowed
    <3>1. CASE k = 1
      BY <1>2, <2>4, <3>1
    <3>2. CASE \E i \in 1 .. Len(s) : k = i + 1
      <4>1. PICK i \in 1 .. Len(s) : k = i + 1
        BY <3>2
      <4>2. b[k] = s[i] /\ k # 1
        BY <2>5, <4>1
      <4>3. QED BY <1>1, <1>4, <4>2 DEF Sequenced
    <3>3. QED BY <2>6, <3>1, <3>2
  <2>10. ASSUME NEW k \in 1 .. Len(b), k # 1, NEW i \in k .. Len(b)
         PROVE  b[i].op = "statement"
    BY <2>2, <2>4, <2>10, <2>9
  <2>11. QED BY <1>3, <2>3, <2>8, <2>9, <2>10 DEF Body
<1>7. QED BY <1>5, <1>6 DEF s, first, b, allowed

LEMMA BlockSteps ==
    ASSUME Coherence, IsVocabulary(vocabulary), BuildBlock
    PROVE  Doing("block") /\ BlockStep
<1>1. PICK uses \in Declarations, labels \in SUBSET Labels, skeleton \in Skeletons,
           input \in BOOLEAN :
         \E repeated \in labels \cup {NoLabel} :
         LET allowed == AllowedInBlock(Task.allowed, labels, skeleton)
             subroutines == {x \in Names : uses[x] \in {"function", "procedure"}}
             inside == (IF subroutines = {} THEN <<>>
                        ELSE <<SubroutinesTask(subroutines, Id, allowed)>>)
                       \o SequenceTasks(skeleton, Id, allowed, {})
                       \o <<LeaveTask("leaveBlock", Id, Task.name, 1)>>
         IN  /\ Doing("block")
             /\ Task.use = "program" => \A x \in Names : uses[x] # "parameter"
             /\ input => Task.use = "program" /\ Forms \cap {"read", "readln"} # {}
             /\ Fits(inside \o Tail(tasks))
             /\ tasks' = inside \o Tail(tasks)
             /\ scopes' = Append(scopes, BlockScope(Id, uses, labels))
             /\ errors' = errors \cup ErrIf(repeated # NoLabel, "DUPLICATE_LABEL")
             /\ tree' = Append(tree, [form |-> "block", arg |-> Task.name, use |-> Task.use,
                                      parent |-> Task.parent, names |-> uses, labels |-> labels,
                                      repeated |-> repeated, input |-> input,
                                      label |-> NoLabel, inSequence |-> FALSE])
  BY Zenon DEF BuildBlock
<1>1a. PICK repeated \in labels \cup {NoLabel} :
         LET allowed == AllowedInBlock(Task.allowed, labels, skeleton)
             subroutines == {x \in Names : uses[x] \in {"function", "procedure"}}
             inside == (IF subroutines = {} THEN <<>>
                        ELSE <<SubroutinesTask(subroutines, Id, allowed)>>)
                       \o SequenceTasks(skeleton, Id, allowed, {})
                       \o <<LeaveTask("leaveBlock", Id, Task.name, 1)>>
         IN  /\ Doing("block")
             /\ tasks' = inside \o Tail(tasks)
             /\ scopes' = Append(scopes, BlockScope(Id, uses, labels))
             /\ errors' = errors \cup ErrIf(repeated # NoLabel, "DUPLICATE_LABEL")
             /\ tree' = Append(tree, [form |-> "block", arg |-> Task.name, use |-> Task.use,
                                      parent |-> Task.parent, names |-> uses, labels |-> labels,
                                      repeated |-> repeated, input |-> input,
                                      label |-> NoLabel, inSequence |-> FALSE])
  BY <1>1, Zenon
<1> DEFINE allowed == AllowedInBlock(Task.allowed, labels, skeleton)
           subroutines == {x \in Names : uses[x] \in {"function", "procedure"}}
           s == SequenceTasks(skeleton, Id, allowed, {})
           first == IF subroutines = {} THEN <<>> ELSE <<SubroutinesTask(subroutines, Id, allowed)>>
           e == [form |-> "block", arg |-> Task.name, use |-> Task.use,
                 parent |-> Task.parent, names |-> uses, labels |-> labels,
                 repeated |-> repeated, input |-> input,
                 label |-> NoLabel, inSequence |-> FALSE]
<1>2. /\ tasks' = ((first \o s) \o <<LeaveTask("leaveBlock", Id, Task.name, 1)>>) \o Tail(tasks)
      /\ scopes' = Append(scopes, BlockScope(Id, uses, labels))
      /\ errors' = errors \cup ErrIf(repeated # NoLabel, "DUPLICATE_LABEL")
      /\ tree' = Append(tree, e) /\ Doing("block")
  BY <1>1a
<1>3. Body(first \o s, labels)
  <2>1. Body(s, labels) /\ Body(<<SubroutinesTask(subroutines, Id, allowed)>> \o s, labels)
    <3> HIDE DEF subroutines
    <3>1. QED BY BodyMeans
  <2> HIDE DEF s, allowed, subroutines
  <2>2. CASE subroutines = {}
    BY <2>1, Unjoined, <2>2 DEF Body
  <2>3. CASE subroutines # {}
    BY <2>1, <2>3
  <2>4. QED BY <2>2, <2>3
<1>4. BlockNode(e, uses, labels, repeated)
  <2>1. e.inSequence = FALSE
    OBVIOUS
  <2>2. /\ e.form = "block" /\ e.arg = Task.name /\ e.use = Task.use /\ e.parent = Task.parent
        /\ e.names = uses /\ e.labels = labels /\ e.repeated = repeated /\ e.label = NoLabel
    OBVIOUS
  <2> HIDE DEF e
  <2>3. QED BY <2>1, <2>2 DEF BlockNode
<1> HIDE DEF first, s, e
<1>5. Building(uses, labels, repeated, first \o s, e)
  BY <1>2, <1>3, <1>4 DEF Building
<1>6. QED BY <1>2, <1>5 DEF BlockStep

LEMMA OpenedBlock ==
    ASSUME NEW t, NEW n, t[n].form = "block", NEW j
    PROVE  ScopeOf(Names, t, BlockScope(n, t[n].names, t[n].labels), n, j)
<1> DEFINE s == BlockScope(n, t[n].names, t[n].labels)
<1>1. /\ DOMAIN s = ScopeFields /\ s.node = n /\ s.kind = "block" /\ s.names = t[n].names
      /\ s.labels = [l \in t[n].labels |-> 0] /\ s.threats = {} /\ s.assigned = FALSE
  BY DEF BlockScope, ScopeFields
<1> HIDE DEF s
<1>2. DOMAIN s.labels = t[n].labels /\ ~s.assigned
  BY <1>1
<1>3. ScopeOf(Names, t, s, n, j)
  BY <1>1, <1>2 DEF ScopeOf, ScopeFields
<1>4. QED BY <1>3 DEF s

LEMMA BlockTree ==
    ASSUME Coherence, Doing("block"), NEW uses, NEW labels, NEW repeated, NEW body, NEW e,
           Building(uses, labels, repeated, body, e)
    PROVE  /\ Grows(tree, tree') /\ Id = Len(tree) + 1 /\ Id \in Nat /\ Len(tree') = Id
           /\ Id \in 1 .. Len(tree') /\ Id # 0
           /\ tree'[Id] = e /\ BlockNode(e, uses, labels, repeated)
           /\ \A n \in 1 .. Len(tree) : tree'[n] = tree[n]
<1>1. tree' = Append(tree, e) /\ BlockNode(e, uses, labels, repeated)
  BY DEF Building
<1>2. /\ IsTree(tree) /\ Len(tree) \in Nat /\ TaskRight(tree, Task) /\ Home(Task) \in 0 .. Len(tree)
      /\ Task = tasks[1] /\ Task.op = "block" /\ Home(Task) = Task.parent /\ tasks # <<>>
  BY Here DEF Doing, Home
<1>3. Sequential(tree)
  BY <1>2 DEF IsTree
<1>4. tree'[Len(tree) + 1] = e /\ \A n \in 1 .. Len(tree) : tree'[n] = tree[n]
  BY <1>1, <1>3, Appended
<1>5. Task.parent = 0 => tree = <<>>
  BY <1>2, EmptySequence, Here DEF TasksRight, Coherence, Coherent
<1>6. Task.parent = 0 <=> Len(tree) = 0
  BY <1>5, EmptySequence, <1>2
<1>7. Task.parent # 0 =>
         /\ Task.parent \in 1 .. Len(tree) /\ tree[Task.parent].form = "block"
         /\ Task.use = tree[Task.parent].names[Task.name]
  BY <1>2 DEF TaskRight
<1>8. IsNode(tree', Len(tree) + 1)
  <2> DEFINE n == Len(tree) + 1
  <2>1. n \in Nat /\ (n = 1 <=> Task.parent = 0) /\ Task.parent \in 0 .. n - 1
    BY <1>2, <1>6
  <2>2. tree'[n] = e
    BY <1>4
  <2>3. Task.parent # 0 =>
           /\ tree'[Task.parent].form = "block" /\ Inhabited(tree', Task.parent)
           /\ Task.use = tree'[Task.parent].names[Task.name]
    BY <1>4, <1>7 DEF Inhabited
  <2> HIDE DEF n
  <2>4. IsNode(tree', n)
    BY <1>1, <2>1, <2>2, <2>3 DEF IsNode, BlockNode
  <2>5. QED BY <2>4 DEF n
<1>9. Grows(tree, tree')
  BY <1>1, <1>2, <1>8, GrowsBy
<1>10. Id = Len(tree) + 1 /\ Id \in Nat /\ Len(tree') = Id /\ Id # 0 /\ Id \in 1 .. Len(tree')
  BY <1>2, <1>9 DEF Id, Grows
<1>11. QED BY <1>1, <1>4, <1>9, <1>10

LEMMA BlockCoherent ==
    ASSUME Coherence, Doing("block"), NEW uses, NEW labels, NEW repeated, NEW body, NEW e,
           Building(uses, labels, repeated, body, e)
    PROVE  Coherent(Names, tree', tasks', scopes')
<1> DEFINE u == tree'
           h == Home(Task)
           b == BlockScope(Id, uses, labels)
           ns == Append(scopes, b)
           leave == LeaveTask("leaveBlock", Id, Task.name, 1)
           inside == body \o <<leave>>
<1>1. /\ Grows(tree, u) /\ Id = Len(tree) + 1 /\ Id \in Nat /\ Len(u) = Id
      /\ Id \in 1 .. Len(u) /\ Id # 0
      /\ u[Id] = e /\ BlockNode(e, uses, labels, repeated)
  BY BlockTree
<1>2. tasks' = inside \o Tail(tasks) /\ scopes' = ns /\ Body(body, labels)
  BY DEF Building
<1>3. /\ tasks # <<>> /\ Task = tasks[1] /\ Task.op = "block" /\ h = Task.parent
      /\ IsTree(tree) /\ h \in 0 .. Len(tree) /\ Len(scopes) = Deep(tree, h) /\ Len(scopes) \in Nat
      /\ Stacked(Names, tree, scopes, h) /\ Sequential(scopes)
  BY Here DEF Doing, Home
<1>4. leave.op = "leaveBlock" /\ leave.node = Id /\ leave.count = 1
  BY DEF LeaveTask
<1>5. /\ Sequential(ns) /\ Len(ns) = Len(scopes) + 1
      /\ \A p \in 1 .. Len(scopes) : ns[p] = scopes[p]
      /\ ns[Len(scopes) + 1] = b
  BY <1>3, Appended
<1> HIDE DEF u, h, b, ns, leave
<1>6. Kept(Names, tree, Len(scopes), scopes, ns)
  BY <1>5 DEF Kept
<1>7. IsTree(u)
  BY <1>1 DEF Grows
<1>8. u[Id].form = "block" /\ u[Id].parent = Task.parent /\ u[Id].names = uses /\ u[Id].labels = labels
  BY <1>1 DEF BlockNode
<1>9. /\ OpensIn(u, Id) = 1 /\ Deep(u, u[Id].parent) = Len(scopes)
      /\ Deep(u, Id) = Len(scopes) + 1
  <2>1. OpensIn(u, Id) = 1
    BY <1>8 DEF OpensIn
  <2>2. Deep(u, u[Id].parent) = Len(scopes)
    BY <1>1, <1>3, <1>8, Stable
  <2>3. Deep(u, Id) = OpensIn(u, Id) + Deep(u, u[Id].parent)
    BY <1>1, <1>7, Unfold
  <2>4. QED BY <1>3, <2>1, <2>2, <2>3
<1>10. Left(tree, tasks[1]) = Len(scopes)
  BY <1>3 DEF Left, Before, LeaveOps, h
<1>11. TasksRight(u, body) /\ Level(body, Id)
  <2>1. Sequential(body)
    BY <1>2 DEF Body
  <2>2. Id \in 0 .. Len(u)
    BY <1>1
  <2>3. ASSUME NEW k \in 1 .. Len(body)
        PROVE  TaskRight(u, body[k]) /\ Home(body[k]) = Id /\ body[k].op \notin LeaveOps
    BY <1>2, <1>8, <1>1, <2>2 DEF Body, Home, LeaveOps, Inhabited, TaskRight
  <2>4. QED BY <2>1, <2>3 DEF TasksRight, Level
<1>12. /\ TasksRight(u, inside) /\ Leads(u, inside, Len(ns), Len(scopes))
       /\ \A k \in 1 .. Len(inside) : Home(inside[k]) = Id
  <2>1. TaskRight(u, leave) /\ leave.op \in LeaveOps
    BY <1>4, <1>1, <1>8, <1>9 DEF Home, TaskRight, LeaveOps
  <2>2. QED BY <1>1, <1>4, <1>5, <1>7, <1>9, <1>11, <2>1, BodyLeads
<1>13. Stacked(Names, u, ns, Id)
  <2>1. Stacked(Names, tree, ns, h)
    BY <1>3, <1>6, StackedKept
  <2>2. Stacked(Names, u, ns, h)
    BY <1>1, <1>3, <2>1, StackedStable
  <2>3. ASSUME NEW j \in 1 .. OpensIn(u, Len(u))
        PROVE  ScopeOf(Names, u, ns[Place(u, Len(u), j)], Len(u), j)
    <3>1. j = 1
      BY <1>1, <1>9
    <3>2. ns[Place(u, Id, j)] = b
      BY <1>5, <1>9, <3>1 DEF Place
    <3>3. ScopeOf(Names, u, b, Id, j)
      BY <1>8, OpenedBlock DEF b
    <3>4. QED BY <1>1, <3>2, <3>3
  <2>4. u[Len(u)].parent = h
    BY <1>1, <1>3, <1>8
  <2>5. QED BY <1>1, <2>2, <2>3, <2>4, StackedInside
<1>14. Coherent(Names, u, inside \o Tail(tasks), ns)
  <2>1. Coherent(Names, tree, tasks, scopes)
    BY DEF Coherence
  <2>2. Kept(Names, tree, Left(tree, tasks[1]), scopes, ns)
    BY <1>6, <1>10
  <2>3. Leads(u, inside, Len(ns), Left(tree, tasks[1]))
    BY <1>10, <1>12
  <2>4. \A k \in 1 .. Len(inside) : Home(inside[k]) # 0 /\ Stacked(Names, u, ns, Home(inside[k]))
    BY <1>1, <1>12, <1>13
  <2> HIDE DEF inside
  <2>5. QED BY <1>1, <1>3, <1>5, <1>12, <2>1, <2>2, <2>3, <2>4, Replacing
<1>15. QED BY <1>2, <1>14 DEF u

(* The tasks that come of a task to declare subroutines.                   *)
Declaration(x, inside) ==
    /\ Sequential(inside)
    /\ \E rest : /\ inside = <<BlockTask(x, tree[Task.parent].names[x], Task.parent, Task.allowed)>> \o rest
                 /\ rest = <<>> \/ \E names : rest = <<SubroutinesTask(names, Task.parent, Task.allowed)>>
DeclareStep ==
    /\ \E x, inside : Declaration(x, inside) /\ tasks' = inside \o Tail(tasks)
    /\ UNCHANGED <<scopes, errors, tree>>

LEMMA DeclareSteps ==
    ASSUME DeclareSubroutine
    PROVE  Doing("subroutines") /\ DeclareStep
<1>1. Doing("subroutines") /\ UNCHANGED <<scopes, errors, tree>>
  BY DEF DeclareSubroutine
<1>2. PICK x \in Task.names :
          tasks' = <<BlockTask(x, tree[Task.parent].names[x], Task.parent, Task.allowed)>>
                   \o (IF Task.names = {x} THEN <<>>
                       ELSE <<SubroutinesTask(Task.names \ {x}, Task.parent, Task.allowed)>>)
                   \o Tail(tasks)
  BY DEF DeclareSubroutine
<1> DEFINE first == BlockTask(x, tree[Task.parent].names[x], Task.parent, Task.allowed)
           second == SubroutinesTask(Task.names \ {x}, Task.parent, Task.allowed)
           rest == IF Task.names = {x} THEN <<>> ELSE <<second>>
           inside == <<first>> \o rest
<1>3. rest = <<>> \/ \E names : rest = <<SubroutinesTask(names, Task.parent, Task.allowed)>>
  OBVIOUS
<1>4. Sequential(inside)
  <2> HIDE DEF first, second
  <2>1. Sequential(<<first>>) /\ Sequential(rest)
    BY Single, EmptySequence
  <2> HIDE DEF rest
  <2>2. QED BY <2>1, Joined
<1>5. tasks' = inside \o Tail(tasks)
  BY <1>2
<1>6. inside = <<BlockTask(x, tree[Task.parent].names[x], Task.parent, Task.allowed)>> \o rest
  OBVIOUS
<1> HIDE DEF inside, rest
<1>7. Declaration(x, inside)
  BY <1>3, <1>4, <1>6 DEF Declaration
<1>8. QED BY <1>1, <1>5, <1>7 DEF DeclareStep

(* What Declaration says of each of them.                                  *)
LEMMA DeclaredTasks ==
    ASSUME NEW x, NEW inside, Declaration(x, inside), NEW k \in 1 .. Len(inside)
    PROVE  /\ inside[k].op \in {"block", "subroutines"} /\ inside[k].parent = Task.parent
           /\ inside[k].allowed = Task.allowed
           /\ inside[k].op = "block" =>
                 inside[k].use = tree[Task.parent].names[inside[k].name]
<1> DEFINE first == BlockTask(x, tree[Task.parent].names[x], Task.parent, Task.allowed)
<1>1. PICK rest : /\ inside = <<first>> \o rest
                  /\ rest = <<>> \/ \E names : rest = <<SubroutinesTask(names, Task.parent, Task.allowed)>>
  BY DEF Declaration
<1>2. /\ first.op = "block" /\ first.parent = Task.parent /\ first.allowed = Task.allowed
      /\ first.name = x /\ first.use = tree[Task.parent].names[x]
  BY DEF BlockTask
<1> HIDE DEF first
<1>3. Sequential(<<first>>) /\ Len(<<first>>) = 1 /\ <<first>>[1] = first
  BY Single
<1>4. CASE rest = <<>>
  <2>1. Sequential(rest) /\ Len(rest) = 0 /\ 1 .. 0 = {}
    BY <1>4, EmptySequence
  <2>2. \E i \in 1 .. Len(<<first>>) : inside[k] = <<first>>[i]
    BY <1>1, <1>3, <2>1, OneOf
  <2>3. inside[k] = first
    BY <1>3, <2>2
  <2>4. QED BY <1>2, <2>3
<1>5. CASE \E names : rest = <<SubroutinesTask(names, Task.parent, Task.allowed)>>
  <2>1. PICK names : rest = <<SubroutinesTask(names, Task.parent, Task.allowed)>>
    BY <1>5
  <2> DEFINE second == SubroutinesTask(names, Task.parent, Task.allowed)
  <2>2. second.op = "subroutines" /\ second.parent = Task.parent /\ second.allowed = Task.allowed
    BY DEF SubroutinesTask
  <2>3. rest = <<second>>
    BY <2>1
  <2> HIDE DEF second
  <2>4. Sequential(rest) /\ Len(rest) = 1 /\ rest[1] = second
    BY <2>3, Single
  <2>5. \/ \E i \in 1 .. Len(<<first>>) : (<<first>> \o rest)[k] = <<first>>[i]
        \/ \E i \in 1 .. Len(rest) : (<<first>> \o rest)[k] = rest[i]
    <3>1. k \in 1 .. Len(<<first>> \o rest)
      BY <1>1
    <3>2. Sequential(<<first>>) /\ Sequential(rest)
      BY <1>3, <2>4
    <3>3. QED BY <3>1, <3>2, OneOf
  <2>6. inside[k] = first \/ inside[k] = second
    BY <1>1, <1>3, <2>4, <2>5
  <2>7. QED BY <1>2, <2>2, <2>6
<1>6. QED BY <1>1, <1>4, <1>5

LEMMA DeclareCoherent ==
    ASSUME Coherence, Doing("subroutines"), DeclareStep
    PROVE  Coherent(Names, tree', tasks', scopes')
<1> DEFINE h == Task.parent
<1>1. PICK x, inside : Declaration(x, inside) /\ tasks' = inside \o Tail(tasks)
  BY DEF DeclareStep
<1>2. tree' = tree /\ scopes' = scopes
  BY DEF DeclareStep
<1>3. /\ tasks # <<>> /\ Task = tasks[1] /\ Task.op = "subroutines" /\ Home(Task) = h
      /\ IsTree(tree) /\ h \in 0 .. Len(tree) /\ Len(scopes) = Deep(tree, h) /\ Len(scopes) \in Nat
      /\ Stacked(Names, tree, scopes, h) /\ Sequential(scopes) /\ TaskRight(tree, Task)
  BY Here DEF Doing, Home
<1>4. h # 0 /\ tree[h].form = "block"
  BY <1>3 DEF TaskRight
<1>5. ASSUME NEW k \in 1 .. Len(inside)
      PROVE  TaskRight(tree, inside[k]) /\ Home(inside[k]) = h /\ inside[k].op \notin LeaveOps
  <2>1. /\ inside[k].op \in {"block", "subroutines"} /\ inside[k].parent = h
        /\ inside[k].op = "block" => inside[k].use = tree[h].names[inside[k].name]
    BY <1>1, DeclaredTasks
  <2> HIDE DEF h
  <2>2. Home(inside[k]) = h /\ inside[k].op \notin LeaveOps
    BY <2>1 DEF Home, LeaveOps
  <2>3. TaskRight(tree, inside[k])
    BY <1>3, <1>4, <2>1, <2>2 DEF TaskRight, LeaveOps
  <2>4. QED BY <2>2, <2>3
<1> HIDE DEF h
<1>6. Sequential(inside)
  BY <1>1 DEF Declaration
<1>7. TasksRight(tree, inside) /\ Level(inside, h)
  BY <1>5, <1>6 DEF TasksRight, Level
<1>8. Leads(tree, inside, Deep(tree, h), Deep(tree, h))
  BY <1>3, <1>7, LevelLeads
<1>9. Left(tree, tasks[1]) = Deep(tree, h)
  BY <1>3 DEF Left, Before, LeaveOps
<1>10. Kept(Names, tree, Left(tree, tasks[1]), scopes, scopes)
  BY DEF Kept
<1>11. \A k \in 1 .. Len(inside) : Home(inside[k]) # 0 /\ Stacked(Names, tree, scopes, Home(inside[k]))
  BY <1>3, <1>4, <1>5
<1>12. Leads(tree, inside, Len(scopes), Left(tree, tasks[1]))
  BY <1>3, <1>8, <1>9
<1>13. Coherent(Names, tree, tasks, scopes)
  BY DEF Coherence
<1>14. Coherent(Names, tree, inside \o Tail(tasks), scopes)
  BY <1>3, <1>7, <1>10, <1>11, <1>12, <1>13, Replacing
<1>15. QED BY <1>1, <1>2, <1>14

LEMMA LeaveCoherent ==
    ASSUME Coherence, tasks # <<>>, Task.op \in LeaveOps,
           tasks' = Tail(tasks), scopes' = SubSeq(scopes, 1, Len(scopes) - Task.count),
           tree' = tree
    PROVE  Coherent(Names, tree', tasks', scopes')
<1> DEFINE h == Task.node
           m == Len(scopes) - Task.count
           ns == SubSeq(scopes, 1, m)
           rest == Tail(tasks)
<1>1. /\ Task = tasks[1] /\ Home(Task) = h /\ TasksRight(tree, tasks)
      /\ IsTree(tree) /\ h \in 0 .. Len(tree) /\ Len(scopes) = Deep(tree, h) /\ Len(scopes) \in Nat
      /\ Sequential(scopes) /\ TaskRight(tree, Task) /\ Len(tree) \in Nat
  BY Here DEF Home, LeaveOps
<1>2. h \in 1 .. Len(tree)
  BY <1>1 DEF TaskRight, LeaveOps
<1>3. Task.count = OpensIn(tree, h)
  BY <1>1 DEF TaskRight
<1>4. /\ Deep(tree, h) = OpensIn(tree, h) + Deep(tree, tree[h].parent)
      /\ OpensIn(tree, h) \in Nat /\ Deep(tree, tree[h].parent) \in Nat
  BY <1>1, <1>2, Unfold
<1>5. m = Deep(tree, tree[h].parent) /\ m \in 0 .. Len(scopes)
  BY <1>1, <1>3, <1>4
<1> HIDE DEF m
<1>6. Sequential(ns) /\ Len(ns) = m /\ \A k \in 1 .. m : ns[k] = scopes[k]
  BY <1>1, <1>5, Shortened
<1> HIDE DEF ns
<1>7. Left(tree, tasks[1]) = m
  BY <1>1, <1>5 DEF Left, h
<1>8. Kept(Names, tree, m, scopes, ns)
  BY <1>6 DEF Kept
<1>9. TasksRight(tree, <<>>) /\ Leads(tree, <<>>, m, m) /\ Len(<<>>) = 0 /\ 1 .. 0 = {}
  BY EmptySequence DEF TasksRight, Leads
<1>10. Coherent(Names, tree, <<>> \o rest, ns)
  <2>1. Coherent(Names, tree, tasks, scopes)
    BY DEF Coherence
  <2>2. \A k \in 1 .. Len(<<>>) : Home(<<>>[k]) # 0 /\ Stacked(Names, tree, ns, Home(<<>>[k]))
    BY <1>9
  <2>3. Leads(tree, <<>>, Len(ns), Left(tree, tasks[1]))
    BY <1>6, <1>7, <1>9
  <2>4. Kept(Names, tree, Left(tree, tasks[1]), scopes, ns)
    BY <1>7, <1>8
  <2>5. QED BY <1>6, <1>9, <2>1, <2>2, <2>3, <2>4, Replacing
<1>11. <<>> \o rest = rest
  BY <1>1, Tailed, Unjoined DEF TasksRight
<1>12. QED BY <1>10, <1>11 DEF ns, m

(* The first state: the program is still to come.                          *)
LEMMA CoherentFirst ==
    ASSUME Init
    PROVE  Coherence
<1> DEFINE first == BlockTask("program", "program", 0, {})
<1>1. tasks = <<first>> /\ scopes = <<>> /\ tree = <<>>
  BY DEF Init
<1>2. first.op = "block" /\ first.parent = 0
  BY DEF BlockTask
<1> HIDE DEF first
<1>3. Home(first) = 0
  BY <1>2 DEF Home
<1>4. /\ Sequential(<<first>>) /\ Len(<<first>>) = 1 /\ <<first>>[1] = first /\ <<first>> # <<>>
      /\ \A k \in 1 .. 1 : k = 1
  BY Single
<1>5. Sequential(<<>>) /\ Len(<<>>) = 0 /\ 1 .. 0 = {} /\ 0 \in 0 .. 0
  BY EmptySequence
<1>6. IsTree(tree)
  BY <1>1, <1>5 DEF IsTree
<1>7. TaskRight(tree, first)
  BY <1>1, <1>2, <1>3, <1>5 DEF TaskRight, LeaveOps
<1>8. TasksRight(tree, tasks)
  BY <1>1, <1>4, <1>7 DEF TasksRight
<1>9. Before(tree, first) = 0 /\ Left(tree, first) = 0
  BY <1>2, <1>3, Root DEF Before, Left, LeaveOps
<1>10. Leads(tree, tasks, 0, 0)
  BY <1>1, <1>6, <1>7, <1>9, LeaveLeads
<1>11. \A k \in 1 .. Len(tasks) : Stacked(Names, tree, scopes, Home(tasks[k]))
  BY Root, <1>1, <1>3, <1>4 DEF Stacked
<1>12. Sequential(scopes) /\ Len(scopes) = 0
  BY <1>1, <1>5
<1>13. \A k \in 1 .. Len(tasks) : Home(tasks[k]) = 0 => tree = <<>> /\ Len(tasks) = 1
  BY <1>1, <1>4
<1>14. QED BY <1>6, <1>8, <1>10, <1>11, <1>12, <1>13 DEF Coherence, Coherent

ErrorsRight == \A e \in errors : e.code \in Codes /\ e.at \in 1 .. Len(tree)
Right == vocabulary \in Vocabularies /\ Coherence /\ ErrorsRight

LEMMA LabelErrorsHere ==
    \A e \in LabelErrors : e.at = Id /\ e.code \in {"UNDEFINED_LABEL", "AMBIGUOUS_LABEL"}
    BY DEF Err, LabelErrors, ErrIf

LEMMA NewErrors ==
    ASSUME NEW form, NEW arg, NEW refers, NEW fine, NEW errs, NEW ns, NEW inside,
           Resolved(form, arg, refers, fine, errs, ns, inside)
    PROVE  \A e \in errs : e.at = Id /\ e.code \in Codes
<1>1. \A code : Err(code).at = Id /\ Err(code).code = code
  BY DEF Err
<1>2. CASE Ordinary(form, arg, refers, fine, errs, ns, inside)
  BY <1>2 DEF Ordinary, Minor, OtherCodes
<1>3. CASE Going(form, arg, refers, fine, errs, ns, inside)
  BY <1>3, <1>1 DEF Going, ErrIf, Codes
<1>4. CASE Opening(form, arg, refers, fine, errs, ns, inside)
  <2>1. errs = {}
    BY <1>4, Zenon DEF Opening
  <2>2. QED BY <2>1
<1>5. QED BY <1>2, <1>3, <1>4 DEF Resolved

LEMMA StatementRight ==
    ASSUME Right, IsVocabulary(vocabulary), StatementAction
    PROVE  Coherent(Names, tree', tasks', scopes') /\ ErrorsRight'
<1>1. Coherence /\ Doing("statement") /\ StatementStep
  BY StatementSteps DEF Right
<1>2. Coherent(Names, tree', tasks', scopes')
  BY <1>1, StatementCoherent
<1>3. PICK form, arg, refers, fine, errs, ns, inside :
         /\ Resolve(form, arg, refers, fine, errs, ns, inside)
         /\ Resolved(form, arg, refers, fine, errs, ns, inside)
  BY <1>1 DEF StatementStep
<1>4. Len(tree') = Len(tree) + 1 /\ Id = Len(tree) + 1 /\ Len(tree) \in Nat
  BY <1>1, <1>3, StatementNode, Here DEF Doing, Grows
<1>5. errors' = errors \cup LabelErrors \cup errs
  BY <1>3 DEF Resolve
<1>6. ASSUME NEW e \in errors' PROVE e.code \in Codes /\ e.at \in 1 .. Len(tree')
  <2>1. e \in errors => e.code \in Codes /\ e.at \in 1 .. Len(tree')
    BY <1>4 DEF Right, ErrorsRight
  <2>2. e \in LabelErrors => e.code \in Codes /\ e.at = Id
    BY LabelErrorsHere DEF Codes
  <2>3. e \in errs => e.code \in Codes /\ e.at = Id
    BY <1>3, NewErrors
  <2>4. Id \in 1 .. Len(tree')
    BY <1>4
  <2>5. QED BY <1>5, <2>1, <2>2, <2>3, <2>4
<1>7. QED BY <1>2, <1>6 DEF ErrorsRight

LEMMA BlockRight ==
    ASSUME Right, IsVocabulary(vocabulary), BuildBlock
    PROVE  Coherent(Names, tree', tasks', scopes') /\ ErrorsRight'
<1>1. Coherence /\ Doing("block") /\ BlockStep
  BY BlockSteps DEF Right
<1>2. PICK uses, labels, repeated, body, e : Building(uses, labels, repeated, body, e)
  BY <1>1 DEF BlockStep
<1>3. Coherent(Names, tree', tasks', scopes')
  BY <1>1, <1>2, BlockCoherent
<1>4. Id \in 1 .. Len(tree') /\ \A n \in 1 .. Len(tree) : n \in 1 .. Len(tree')
  BY <1>1, <1>2, BlockTree, Here DEF Doing
<1>5. errors' = errors \cup ErrIf(repeated # NoLabel, "DUPLICATE_LABEL")
  BY <1>2 DEF Building
<1>6. \A f \in ErrIf(repeated # NoLabel, "DUPLICATE_LABEL") : f.code \in Codes /\ f.at = Id
  BY DEF Err, Codes, ErrIf
<1>7. QED BY <1>3, <1>4, <1>5, <1>6 DEF ErrorsRight, Right

LEMMA LeaveRight ==
    ASSUME Right, IsVocabulary(vocabulary), LeaveWith \/ LeaveBlock
    PROVE  Coherent(Names, tree', tasks', scopes') /\ ErrorsRight'
<1>1. Coherence
  BY DEF Right
<1>2. /\ tasks # <<>> /\ Task.op \in LeaveOps /\ tasks' = Tail(tasks) /\ tree' = tree
      /\ scopes' = SubSeq(scopes, 1, Len(scopes) - Task.count)
  BY DEF LeaveWith, LeaveBlock, Doing, LeaveOps
<1>3. Coherent(Names, tree', tasks', scopes')
  BY <1>1, <1>2, LeaveCoherent
<1>4. CASE LeaveWith
  BY <1>4, <1>2, <1>3 DEF LeaveWith, Right, ErrorsRight
<1>5. CASE LeaveBlock
  <2>1. Task.node \in 1 .. Len(tree)
    BY <1>1, <1>2, Here DEF Home, LeaveOps, TaskRight
  <2>2. ASSUME NEW e \in errors'
        PROVE  e \in errors \/ (e.at = Task.node /\ e.code \in {"UNUSED_LABEL", "MISSING_RESULT_ASSIGNMENT"})
    BY <1>5 DEF LeaveBlock
  <2>3. {"UNUSED_LABEL", "MISSING_RESULT_ASSIGNMENT"} \subseteq Codes
    BY DEF Codes
  <2>4. QED BY <1>2, <1>3, <2>1, <2>2, <2>3 DEF Right, ErrorsRight
<1>6. QED BY <1>4, <1>5

LEMMA RightKept ==
    ASSUME Right, [Next]_vars
    PROVE  Right'
<1>1. CASE UNCHANGED vars
  BY <1>1 DEF vars, Right, Coherence, ErrorsRight, Names
<1>2. CASE Next
  <2>1. vocabulary' = vocabulary /\ Names' = Names /\ IsVocabulary(vocabulary)
    BY <1>2, VocabulariesAssumption DEF Next, Names, Right
  <2>2. Coherent(Names, tree', tasks', scopes') /\ ErrorsRight'
    <3>1. CASE StatementAction
      BY <2>1, <3>1, StatementRight
    <3>2. CASE BuildBlock
      BY <2>1, <3>2, BlockRight
    <3>3. CASE LeaveWith \/ LeaveBlock
      BY <2>1, <3>3, LeaveRight
    <3>4. CASE DeclareSubroutine
      BY <3>4, DeclareSteps, DeclareCoherent DEF Right, DeclareStep, ErrorsRight
    <3>5. CASE Done
      BY <3>5 DEF Done, analysis, Right, Coherence, ErrorsRight
    <3>6. QED BY <1>2, <3>1, <3>2, <3>3, <3>4, <3>5 DEF Next, StatementAction
  <2>3. QED BY <2>1, <2>2 DEF Right, Coherence
<1>3. QED BY <1>1, <1>2

LEMMA RightAlways == Spec => []Right
<1>1. Init => Right
  BY CoherentFirst DEF Init, Right, ErrorsRight
<1>2. QED BY <1>1, RightKept, PTL DEF Spec

LEMMA TypesRight ==
    ASSUME Right
    PROVE  TypeOK
<1>1. IsTree(tree) /\ Nodes = 1 .. Len(tree) /\ Sequential(scopes)
  BY SequentialMeans DEF Right, Coherence, Coherent, IsTree, Nodes
<1>2. Len(scopes) = IF tasks = <<>> THEN 0 ELSE DepthAt(Task)
  <2>1. CASE tasks = <<>>
    BY <2>1 DEF Right, Coherence, Coherent, Leads
  <2>2. CASE tasks # <<>>
    BY <2>2, Here DEF Right, Depth, DepthIn, Opens, OpensIn, Nodes, Is, Deep, DepthAt
  <2>3. QED BY <2>1, <2>2
<1>3. ASSUME NEW k \in Indices
      PROVE  /\ Parent(k).threats \subseteq VariablesOf(Parent(k).node)
             /\ Parent(k).kind = "block" => DOMAIN Parent(k).labels = tree[Parent(k).node].labels
             /\ Parent(k).assigned => tree[Parent(k).node].use = "function"
  <2> DEFINE s == Parent(k)
  <2>1. tasks # <<>>
    <3>1. CASE tasks = <<>>
      BY <1>2, <3>1 DEF Indices
    <3>2. QED BY <3>1
  <2>2. Coherence
    BY DEF Right
  <2>3. At(k) \in 1 .. Len(scopes) /\ s = scopes[At(k)]
    BY <2>1, <2>2, Index
  <2> HIDE DEF s
  <2>4. PICK m \in Around(tree, Home(Task)) : \E j \in 1 .. OpensIn(tree, m) : ScopeOf(Names, tree, s, m, j)
    BY <2>1, <2>2, <2>3, Alive
  <2>5. PICK j \in 1 .. OpensIn(tree, m) : ScopeOf(Names, tree, s, m, j)
    BY <2>4
  <2>6. s.node \in 1 .. Len(tree)
    BY <2>1, <2>2, <2>3, Alive
  <2>7. s.node = m /\ s.kind = tree[m].form /\ m # 0
    BY <2>5, <2>6 DEF ScopeOf
  <2>8. ASSUME NEW x \in s.threats PROVE x \in VariablesOf(m)
    BY <2>5, <2>7 DEF ScopeOf, IsVariable, UseIn, Is, VariablesOf
  <2>9. s.kind = "block" => DOMAIN s.labels = tree[m].labels
    BY <2>5, <2>7 DEF ScopeOf
  <2>10. s.assigned => tree[m].use = "function"
    BY <2>5 DEF ScopeOf
  <2>11. QED BY <2>7, <2>8, <2>9, <2>10 DEF s
<1>4. \A e \in errors : e.code \in Codes /\ e.at \in Nodes
  BY <1>1 DEF Right, ErrorsRight
<1>5. QED BY <1>2, <1>3, <1>4 DEF TypeOK

-----------------------------------------------------------------------------
(* The scopes alive are those of the blocks and with statements around     *)
(* what resolveStatement() and buildBlock() do next, in any program: each  *)
(* scope opened is left again, and only once.                              *)
THEOREM StatementTypes == Spec => []TypeOK
<1>1. Right => TypeOK
  BY TypesRight
<1>2. QED BY <1>1, RightAlways, PTL

-----------------------------------------------------------------------------
(* Labels.                                                                 *)

BlocksAround(t, n) == {b \in Around(t, t[n].parent) : t[b].form = "block"}
HomeBlock(t, n) == Innermost(BlocksAround(t, n))
PrefixedIn(t, b, l) == {n \in 1 .. Len(t) : t[n].form # "block" /\ t[n].label = l /\ HomeBlock(t, n) = b}

(* The statement prefixes its label as the first one in its block.         *)
First(t, a) ==
    /\ t[a].form # "block" /\ t[a].label # NoLabel
    /\ t[a].label \in t[HomeBlock(t, a)].labels
    /\ \A m \in PrefixedIn(t, HomeBlock(t, a), t[a].label) : a <= m

(* The label is one of the statement sequence in node p, be the statement  *)
(* resolved or still to come.                                              *)
Waiting(task, p, l) ==
    task.op = "statement" /\ task.inSequence /\ task.parent = p /\ task.label = l
Waits(ts, p, l) == \E k \in 1 .. Len(ts) : Waiting(ts[k], p, l)
Stands(t, p, l) == \E n \in 1 .. Len(t) : t[n].inSequence /\ t[n].parent = p /\ t[n].label = l
Among(t, ts, p, l) == l # NoLabel /\ (Stands(t, p, l) \/ Waits(ts, p, l))

(* What is in node p may go to the label.                                  *)
Reaches(t, ts, a, l) == Among(t, ts, a, l) \/ (First(t, a) /\ t[a].label = l)
Hidden(t, p, a, l) == \E c \in Around(t, p) : t[c].form = "block" /\ a < c /\ l \in t[c].labels
Seen(t, ts, p, l) == \E a \in Around(t, p) : ~Hidden(t, p, a, l) /\ Reaches(t, ts, a, l)

LEMMA WaitsFirst ==
    ASSUME NEW ts, Sequential(ts), ts # <<>>
    PROVE  \A p, l : Waits(ts, p, l) <=> Waiting(ts[1], p, l) \/ Waits(Tail(ts), p, l)
<1> DEFINE r == Tail(ts)
<1>1. /\ Len(r) = Len(ts) - 1 /\ Len(ts) \in Nat \ {0}
      /\ \A k \in 1 .. Len(ts) - 1 : r[k] = ts[k + 1]
  BY Tailed
<1> HIDE DEF r
<1>2. ASSUME NEW p, NEW l, Waits(ts, p, l) PROVE Waiting(ts[1], p, l) \/ Waits(r, p, l)
  <2>1. PICK k \in 1 .. Len(ts) : Waiting(ts[k], p, l)
    BY <1>2 DEF Waits
  <2>2. CASE k = 1
    BY <2>1, <2>2
  <2>3. CASE k # 1
    <3> DEFINE i == k - 1
    <3>1. i \in 1 .. Len(r) /\ i \in 1 .. Len(ts) - 1 /\ i + 1 = k
      BY <1>1, <2>3
    <3> HIDE DEF i
    <3>2. r[i] = ts[k]
      BY <1>1, <3>1
    <3>3. QED BY <2>1, <3>1, <3>2 DEF Waits
  <2>4. QED BY <2>2, <2>3
<1>3. ASSUME NEW p, NEW l, Waiting(ts[1], p, l) PROVE Waits(ts, p, l)
  BY <1>1, <1>3 DEF Waits
<1>4. ASSUME NEW p, NEW l, Waits(r, p, l) PROVE Waits(ts, p, l)
  <2>1. PICK k \in 1 .. Len(r) : Waiting(r[k], p, l)
    BY <1>4 DEF Waits
  <2>2. k \in 1 .. Len(ts) - 1 /\ k + 1 \in 1 .. Len(ts)
    BY <1>1
  <2>3. r[k] = ts[k + 1]
    BY <1>1, <2>2
  <2>4. QED BY <2>1, <2>2, <2>3 DEF Waits
<1>5. QED BY <1>2, <1>3, <1>4 DEF r

LEMMA WaitsJoined ==
    ASSUME NEW a, Sequential(a), NEW b, Sequential(b)
    PROVE  \A p, l : Waits(a \o b, p, l) <=> Waits(a, p, l) \/ Waits(b, p, l)
<1> DEFINE c == a \o b
<1>1. /\ Len(a) \in Nat /\ Len(b) \in Nat /\ Len(c) = Len(a) + Len(b)
      /\ \A i \in 1 .. Len(a) : c[i] = a[i]
      /\ \A j \in Len(a) + 1 .. Len(a) + Len(b) : c[j] = b[j - Len(a)]
  BY Joined, SequentialMeans
<1>2. ASSUME NEW p, NEW l, Waits(c, p, l) PROVE Waits(a, p, l) \/ Waits(b, p, l)
  <2>1. PICK k \in 1 .. Len(c) : Waiting(c[k], p, l)
    BY <1>2 DEF Waits
  <2>2. \/ \E i \in 1 .. Len(a) : c[k] = a[i]
        \/ \E i \in 1 .. Len(b) : c[k] = b[i]
    BY OneOf
  <2> HIDE DEF c
  <2>3. QED BY <2>1, <2>2 DEF Waits
<1> HIDE DEF c
<1>3. ASSUME NEW p, NEW l, Waits(a, p, l) PROVE Waits(c, p, l)
  <2>1. PICK k \in 1 .. Len(a) : Waiting(a[k], p, l)
    BY <1>3 DEF Waits
  <2>2. k \in 1 .. Len(c) /\ c[k] = a[k]
    BY <1>1
  <2>3. QED BY <2>1, <2>2 DEF Waits
<1>4. ASSUME NEW p, NEW l, Waits(b, p, l) PROVE Waits(c, p, l)
  <2>1. PICK k \in 1 .. Len(b) : Waiting(b[k], p, l)
    BY <1>4 DEF Waits
  <2> DEFINE i == Len(a) + k
  <2>2. i \in Len(a) + 1 .. Len(a) + Len(b) /\ i \in 1 .. Len(c) /\ i - Len(a) = k
    BY <1>1
  <2> HIDE DEF i
  <2>3. c[i] = b[k]
    BY <1>1, <2>2
  <2>4. QED BY <2>1, <2>2, <2>3 DEF Waits
<1>5. QED BY <1>2, <1>3, <1>4 DEF c

LEMMA HomeBlockIs ==
    ASSUME NEW t, IsTree(t), NEW n \in 1 .. Len(t), t[n].form # "block"
    PROVE  /\ HomeBlock(t, n) \in Around(t, t[n].parent) /\ HomeBlock(t, n) \in 1 .. n - 1
           /\ t[HomeBlock(t, n)].form = "block"
           /\ \A b \in Around(t, t[n].parent) : t[b].form = "block" => b <= HomeBlock(t, n)
<1> DEFINE p == t[n].parent
           S == BlocksAround(t, n)
<1>1. p \in 0 .. n - 1 /\ n \in Nat /\ Len(t) \in Nat /\ p \in 0 .. Len(t)
  BY Unfold
<1>2. p # 0
  BY DEF IsTree, IsNode
<1>3. p \in 1 .. Len(t)
  BY <1>1, <1>2
<1>4. 1 \in Around(t, p) /\ t[1].form = "block"
  BY <1>3, Program
<1>5. Around(t, p) \subseteq 1 .. p
  BY <1>1, Lines DEF Line
<1>6. S # {} /\ S \subseteq 0 .. p /\ p \in Nat
  BY <1>1, <1>4, <1>5 DEF BlocksAround
<1> HIDE DEF S
<1>7. Innermost(S) \in S /\ \A m \in S : m <= Innermost(S)
  BY <1>6, InnermostOf
<1>8. HomeBlock(t, n) = Innermost(S)
  BY DEF HomeBlock, S
<1>9. HomeBlock(t, n) \in Around(t, p) /\ t[HomeBlock(t, n)].form = "block"
  BY <1>7, <1>8 DEF S, BlocksAround
<1>10. HomeBlock(t, n) \in 1 .. n - 1
  BY <1>1, <1>5, <1>9
<1>11. \A b \in Around(t, p) : t[b].form = "block" => b <= HomeBlock(t, n)
  BY <1>7, <1>8 DEF S, BlocksAround
<1>12. QED BY <1>9, <1>10, <1>11

LEMMA HomeBlockStable ==
    ASSUME NEW t, NEW u, Grows(t, u), NEW n \in 1 .. Len(t)
    PROVE  u[n] = t[n] /\ HomeBlock(u, n) = HomeBlock(t, n) /\ n \in 1 .. Len(u)
<1>1. IsTree(t) /\ Len(t) \in Nat
  BY SequentialMeans DEF Grows, IsTree
<1>2. n \in 0 .. Len(t) /\ n # 0 /\ t[n].parent \in 0 .. Len(t)
  BY <1>1, Unfold
<1>3. u[n] = t[n] /\ n \in 1 .. Len(u)
  BY <1>2, Stable
<1>4. Around(u, t[n].parent) = Around(t, t[n].parent)
  BY <1>2, Stable
<1>5. \A b \in Around(t, t[n].parent) : u[b] = t[b]
  <2>1. Around(t, t[n].parent) \subseteq 1 .. t[n].parent
    BY <1>1, <1>2, Lines DEF Line
  <2>2. \A b \in 1 .. t[n].parent : b \in 1 .. Len(t)
    BY <1>1, <1>2
  <2>3. QED BY <2>1, <2>2 DEF Grows
<1>6. BlocksAround(u, n) = BlocksAround(t, n)
  BY <1>3, <1>4, <1>5 DEF BlocksAround
<1>7. QED BY <1>3, <1>6 DEF HomeBlock

(* What one more node adds to the statements that a label prefixes.        *)
LEMMA PrefixedGrows ==
    ASSUME NEW t, NEW u, Grows(t, u), NEW b, NEW l
    PROVE  \A n : n \in PrefixedIn(u, b, l) <=>
              \/ n \in PrefixedIn(t, b, l)
              \/ /\ n = Len(u) /\ u[n].form # "block" /\ u[n].label = l
                 /\ HomeBlock(u, n) = b
    BY SequentialMeans, HomeBlockStable DEF Grows, IsTree, PrefixedIn

LEMMA FirstStable ==
    ASSUME NEW t, NEW u, Grows(t, u), NEW a \in 1 .. Len(t)
    PROVE  First(u, a) <=> First(t, a)
<1> DEFINE b == HomeBlock(t, a)
           l == t[a].label
<1>1. Len(u) = Len(t) + 1 /\ Len(t) \in Nat /\ IsTree(t)
  BY SequentialMeans DEF Grows, IsTree
<1>2. u[a] = t[a] /\ HomeBlock(u, a) = b
  BY HomeBlockStable
<1>3. a <= Len(u)
  BY <1>1
<1>4. (\A m \in PrefixedIn(u, b, l) : a <= m) <=> (\A m \in PrefixedIn(t, b, l) : a <= m)
  <2> HIDE DEF b, l
  <2>1. \A n : n \in PrefixedIn(u, b, l) => n \in PrefixedIn(t, b, l) \/ n = Len(u)
    BY PrefixedGrows
  <2>2. \A n : n \in PrefixedIn(t, b, l) => n \in PrefixedIn(u, b, l)
    BY PrefixedGrows
  <2>3. QED BY <1>3, <2>1, <2>2
<1>5. t[a].form # "block" => u[b] = t[b]
  <2>1. t[a].form # "block" => b \in 1 .. a - 1
    BY <1>1, HomeBlockIs
  <2>2. \A k \in 1 .. a - 1 : k \in 1 .. Len(t)
    BY <1>1
  <2>3. QED BY <2>1, <2>2 DEF Grows
<1>6. QED BY <1>2, <1>4, <1>5 DEF First

SameSequences(t, ts, u, us) ==
    \A q \in 1 .. Len(t) : \A l : Among(u, us, q, l) <=> Among(t, ts, q, l)

LEMMA SeenStable ==
    ASSUME NEW t, NEW u, Grows(t, u) \/ (u = t /\ IsTree(t)), NEW ts, NEW us,
           SameSequences(t, ts, u, us), NEW p \in 0 .. Len(t)
    PROVE  \A l : Seen(u, us, p, l) <=> Seen(t, ts, p, l)
<1>1. IsTree(t) /\ Len(t) \in Nat
  BY SequentialMeans DEF Grows, IsTree
<1>2. Around(t, p) \subseteq 1 .. p
  BY <1>1, Lines DEF Line
<1>3. \A a \in Around(t, p) : a \in 1 .. Len(t)
  BY <1>1, <1>2
<1>4. Around(u, p) = Around(t, p) /\ \A a \in 1 .. Len(t) : u[a] = t[a]
  <2>1. CASE Grows(t, u)
    BY <2>1, Stable DEF Grows
  <2>2. QED BY <2>1
<1>5. \A a \in 1 .. Len(t) : First(u, a) <=> First(t, a)
  <2>1. CASE Grows(t, u)
    BY <2>1, FirstStable
  <2>2. QED BY <2>1
<1>6. \A a \in 1 .. Len(t) : \A l : Reaches(u, us, a, l) <=> Reaches(t, ts, a, l)
  BY <1>4, <1>5 DEF Reaches, SameSequences
<1>7. \A a, l : Hidden(u, p, a, l) <=> Hidden(t, p, a, l)
  BY <1>3, <1>4 DEF Hidden
<1>8. QED BY <1>3, <1>4, <1>6, <1>7 DEF Seen

LEMMA SeenInside ==
    ASSUME NEW t, IsTree(t), NEW ts, NEW n \in 1 .. Len(t)
    PROVE  \A l : Seen(t, ts, n, l) <=>
              \/ Reaches(t, ts, n, l)
              \/ Seen(t, ts, t[n].parent, l) /\ ~(t[n].form = "block" /\ l \in t[n].labels)
<1> DEFINE p == t[n].parent
<1>1. /\ p \in 0 .. n - 1 /\ n \in Nat /\ p \in 0 .. Len(t)
      /\ Around(t, n) = {n} \cup Around(t, p)
  BY Unfold
<1>2. Around(t, p) \subseteq 1 .. p
  BY <1>1, Lines DEF Line
<1> HIDE DEF p
<1>3. \A a \in Around(t, p) : a < n /\ ~(n < a)
  BY <1>1, <1>2
<1>4. ~(n < n)
  BY <1>1
<1>5. \A l : ~Hidden(t, n, n, l)
  BY <1>1, <1>3, <1>4 DEF Hidden
<1>6. \A l : \A a \in Around(t, p) :
         Hidden(t, n, a, l) <=> Hidden(t, p, a, l) \/ (t[n].form = "block" /\ l \in t[n].labels)
  BY <1>1, <1>3 DEF Hidden
<1>7. \A l : Seen(t, ts, n, l) <=>
              \/ Reaches(t, ts, n, l)
              \/ Seen(t, ts, p, l) /\ ~(t[n].form = "block" /\ l \in t[n].labels)
  BY <1>1, <1>5, <1>6 DEF Seen
<1>8. QED BY <1>7 DEF p

LEMMA StandsGrows ==
    ASSUME NEW t, NEW u, Grows(t, u)
    PROVE  /\ \A p, l : Stands(u, p, l) <=>
                 \/ Stands(t, p, l)
                 \/ u[Len(u)].inSequence /\ u[Len(u)].parent = p /\ u[Len(u)].label = l
           /\ \A l : ~Stands(u, Len(u), l)
<1>1. Len(u) = Len(t) + 1 /\ Len(t) \in Nat /\ IsTree(u)
  BY SequentialMeans DEF Grows, IsTree
<1>2. \A n : n \in 1 .. Len(u) <=> n \in 1 .. Len(t) \/ n = Len(u)
  BY <1>1
<1>3. \A n \in 1 .. Len(t) : u[n] = t[n]
  BY DEF Grows
<1>4. \A p, l : Stands(u, p, l) <=>
                 \/ Stands(t, p, l)
                 \/ u[Len(u)].inSequence /\ u[Len(u)].parent = p /\ u[Len(u)].label = l
  BY <1>2, <1>3 DEF Stands
<1>5. \A n \in 1 .. Len(u) : u[n].parent # Len(u)
  BY <1>1 DEF IsTree, IsNode
<1>6. \A l : ~Stands(u, Len(u), l)
  BY <1>5 DEF Stands
<1>7. QED BY <1>4, <1>6

(* The tasks inside a statement, and what they may go to.                  *)
AllowedInside(inside, base) ==
    /\ Sequential(inside)
    /\ \A k \in 1 .. Len(inside) : inside[k].op \notin LeaveOps =>
          /\ inside[k].parent = Id
          /\ \A l : l \in inside[k].allowed <=> l \in base \/ (l # NoLabel /\ Waits(inside, Id, l))
    /\ \A p, l : Waits(inside, p, l) => p = Id

LEMMA InnerAllowed ==
    ASSUME NEW s, Inner(s)
    PROVE  AllowedInside(s, Allowed)
    BY DEF Inner, Waits, Waiting, AllowedInside

LEMMA AllowedThenLeave ==
    ASSUME NEW s, NEW base, AllowedInside(s, base), NEW leave, leave.op \in LeaveOps
    PROVE  AllowedInside(s \o <<leave>>, base)
<1> DEFINE c == s \o <<leave>>
<1>1. Sequential(s) /\ Sequential(<<leave>>) /\ Len(<<leave>>) = 1 /\ <<leave>>[1] = leave
  BY Single DEF AllowedInside
<1>2. Sequential(c)
  BY <1>1, Joined
<1>3. \A i \in 1 .. 1 : i = 1
  OBVIOUS
<1>4. \A p, l : Waits(c, p, l) <=> Waits(s, p, l)
  BY <1>1, WaitsJoined, <1>3 DEF LeaveOps, Waits, Waiting
<1>5. ASSUME NEW k \in 1 .. Len(c), c[k].op \notin LeaveOps
      PROVE  /\ c[k].parent = Id
             /\ \A l : l \in c[k].allowed <=> l \in base \/ (l # NoLabel /\ Waits(c, Id, l))
  <2>1. \/ \E i \in 1 .. Len(s) : c[k] = s[i]
        \/ \E i \in 1 .. Len(<<leave>>) : c[k] = <<leave>>[i]
    BY <1>1, OneOf
  <2> HIDE DEF c
  <2>2. PICK i \in 1 .. Len(s) : c[k] = s[i]
    BY <1>1, <1>3, <1>5, <2>1
  <2>3. QED BY <1>4, <1>5, <2>2 DEF AllowedInside
<1> HIDE DEF c
<1>6. \A p, l : Waits(c, p, l) => p = Id
  BY <1>4 DEF AllowedInside
<1>7. AllowedInside(c, base)
  BY <1>2, <1>5, <1>6 DEF AllowedInside
<1>8. QED BY <1>7 DEF c

LEMMA NothingAllowed ==
    ASSUME NEW base
    PROVE  AllowedInside(<<>>, base)
    BY EmptySequence DEF AllowedInside, Waits

LEMMA ResolvedAllowed ==
    ASSUME NEW form, NEW arg, NEW refers, NEW fine, NEW errs, NEW ns, NEW inside,
           Resolved(form, arg, refers, fine, errs, ns, inside)
    PROVE  AllowedInside(inside, Allowed)
<1>1. CASE Ordinary(form, arg, refers, fine, errs, ns, inside)
  BY <1>1, InnerAllowed DEF Ordinary
<1>2. CASE Going(form, arg, refers, fine, errs, ns, inside)
  BY <1>2, NothingAllowed DEF Going
<1>3. CASE Opening(form, arg, refers, fine, errs, ns, inside)
  <2> DEFINE leave == LeaveTask("leaveWith", Id, "", Len(arg))
  <2>1. PICK body : Inner(body) /\ inside = body \o <<leave>>
    BY <1>3, Zenon DEF Opening
  <2>2. leave.op = "leaveWith"
    BY Zenon DEF LeaveTask
  <2> HIDE DEF leave
  <2>3. leave.op \in LeaveOps
    BY <2>2 DEF LeaveOps
  <2>4. AllowedInside(body \o <<leave>>, Allowed)
    BY <2>1, <2>3, InnerAllowed, AllowedThenLeave
  <2>5. QED BY <2>1, <2>4
<1>4. QED BY <1>1, <1>2, <1>3 DEF Resolved

LEMMA BodyAllowed ==
    ASSUME NEW body, NEW labels, Body(body, labels)
    PROVE  AllowedInside(body, Task.allowed \ labels)
    BY DEF Body, Waits, Waiting, AllowedInside

(* The invariants about labels.                                            *)
AllowedRight(t, ts) ==
    \A k \in 1 .. Len(ts) : ts[k].op \notin LeaveOps =>
        \A l : l \in ts[k].allowed <=> Seen(t, ts, ts[k].parent, l)
MarksRight(t, ss) ==
    \A p \in 1 .. Len(ss) : \A l \in DOMAIN ss[p].labels :
        ss[p].labels[l] = 0 <=> PrefixedIn(t, ss[p].node, l) = {}
BlocksRight(t) == \A n \in 1 .. Len(t) : t[n].form = "block" => NoLabel \notin t[n].labels

LEMMA SequencesNode ==
    ASSUME NEW t, NEW u, Grows(t, u), NEW ts, TasksRight(t, ts), ts # <<>>,
           NEW inside, Sequential(inside), \A p, l : Waits(inside, p, l) => p = Len(u),
           \A p, l : Waiting(ts[1], p, l) <=>
               u[Len(u)].inSequence /\ u[Len(u)].parent = p /\ u[Len(u)].label = l
    PROVE  LET us == inside \o Tail(ts)
           IN  /\ SameSequences(t, ts, u, us)
               /\ \A l : Among(u, us, Len(u), l) <=> l # NoLabel /\ Waits(inside, Len(u), l)
<1> DEFINE r == Tail(ts)
           us == inside \o r
<1>1. Len(u) = Len(t) + 1 /\ Len(t) \in Nat
  BY SequentialMeans DEF Grows, IsTree
<1>2. Sequential(ts) /\ Sequential(r)
  BY Tailed DEF TasksRight
<1>3. \A p, l : Waits(ts, p, l) <=> Waiting(ts[1], p, l) \/ Waits(r, p, l)
  BY <1>2, WaitsFirst
<1>4. \A p, l : Waits(us, p, l) <=> Waits(inside, p, l) \/ Waits(r, p, l)
  BY <1>2, WaitsJoined
<1>5. /\ \A p, l : Stands(u, p, l) <=>
                 \/ Stands(t, p, l)
                 \/ u[Len(u)].inSequence /\ u[Len(u)].parent = p /\ u[Len(u)].label = l
      /\ \A l : ~Stands(u, Len(u), l)
  BY StandsGrows
<1> HIDE DEF us
<1>6. SameSequences(t, ts, u, us)
  BY <1>1, <1>3, <1>4, <1>5 DEF SameSequences, Among
<1>7. \A l : ~Waits(r, Len(u), l)
  <2>1. ASSUME NEW k \in 1 .. Len(r), NEW l PROVE ~Waiting(r[k], Len(u), l)
    <3>1. k + 1 \in 1 .. Len(ts) /\ r[k] = ts[k + 1]
      <4>1. Len(r) = Len(ts) - 1 /\ Len(ts) \in Nat /\ \A i \in 1 .. Len(ts) - 1 : r[i] = ts[i + 1]
        BY <1>2, Tailed
      <4> HIDE DEF r
      <4>2. QED BY <4>1
    <3>2. TaskRight(t, r[k])
      BY <3>1 DEF TasksRight
    <3>3. Home(r[k]) \in 0 .. Len(t)
      BY <3>2 DEF TaskRight
    <3> HIDE DEF r
    <3>4. r[k].op = "statement" => Home(r[k]) = r[k].parent
      BY DEF Home
    <3>5. Len(u) \notin 0 .. Len(t)
      BY <1>1
    <3>6. QED BY <3>3, <3>4, <3>5 DEF Waiting
  <2>2. QED BY <2>1 DEF Waits
<1>8. \A l : Among(u, us, Len(u), l) <=> l # NoLabel /\ Waits(inside, Len(u), l)
  BY <1>4, <1>5, <1>7 DEF Among
<1>9. QED BY <1>6, <1>8 DEF us

(* What is inside the node last added may go to what the node may, but for *)
(* the labels that a block declares again, to its own label, and to the    *)
(* labels of the sequence inside.                                          *)
LEMMA AllowedNode ==
    ASSUME NEW t, NEW u, Grows(t, u), NEW ts, TasksRight(t, ts), ts # <<>>, AllowedRight(t, ts),
           ts[1].op \in {"statement", "block"}, u[Len(u)].parent = ts[1].parent,
           NEW inside, Id = Len(u), NEW base, AllowedInside(inside, base),
           \A p, l : Waiting(ts[1], p, l) <=>
               u[Len(u)].inSequence /\ u[Len(u)].parent = p /\ u[Len(u)].label = l,
           \A l : l \in base <=>
               \/ First(u, Id) /\ u[Id].label = l
               \/ l \in ts[1].allowed /\ ~(u[Id].form = "block" /\ l \in u[Id].labels)
    PROVE  LET us == inside \o Tail(ts)
           IN  /\ AllowedRight(u, us) /\ SameSequences(t, ts, u, us)
               /\ \A l : Seen(u, us, Id, l) <=> l \in base \/ (l # NoLabel /\ Waits(inside, Id, l))
<1> DEFINE r == Tail(ts)
           us == inside \o r
<1>1. Len(u) = Len(t) + 1 /\ Len(t) \in Nat /\ IsTree(u) /\ Id \in 1 .. Len(u) /\ IsTree(t)
  BY SequentialMeans DEF Grows, IsTree
<1>2. Sequential(ts) /\ Sequential(r) /\ Sequential(inside) /\ 1 \in 1 .. Len(ts)
  BY Tailed, EmptySequence DEF TasksRight, AllowedInside
<1>3. /\ SameSequences(t, ts, u, us)
      /\ \A l : Among(u, us, Id, l) <=> l # NoLabel /\ Waits(inside, Id, l)
  BY <1>2, SequencesNode DEF AllowedInside
<1> HIDE DEF us
<1>4. \A p \in 0 .. Len(t) : \A l : Seen(u, us, p, l) <=> Seen(t, ts, p, l)
  BY <1>3, SeenStable
<1>5. ts[1].parent \in 0 .. Len(t)
  BY <1>2 DEF TasksRight, Home, TaskRight
<1>6. \A l : Seen(u, us, ts[1].parent, l) <=> l \in ts[1].allowed
  BY <1>2, <1>4, <1>5 DEF LeaveOps, AllowedRight
<1>7. \A l : Seen(u, us, Id, l) <=> l \in base \/ (l # NoLabel /\ Waits(inside, Id, l))
  BY <1>1, SeenInside, <1>3, <1>6 DEF Reaches
<1>8. ASSUME NEW k \in 1 .. Len(us), us[k].op \notin LeaveOps
      PROVE  \A l : l \in us[k].allowed <=> Seen(u, us, us[k].parent, l)
  <2>1. \/ \E i \in 1 .. Len(inside) : us[k] = inside[i]
        \/ \E i \in 1 .. Len(r) : us[k] = r[i]
    <3>1. Sequential(inside) /\ Sequential(r) /\ k \in 1 .. Len(inside \o r)
      BY <1>2 DEF us
    <3> HIDE DEF r
    <3>2. \/ \E i \in 1 .. Len(inside) : (inside \o r)[k] = inside[i]
          \/ \E i \in 1 .. Len(r) : (inside \o r)[k] = r[i]
      BY <3>1, OneOf
    <3>3. QED BY <3>2 DEF us
  <2>2. CASE \E i \in 1 .. Len(inside) : us[k] = inside[i]
    <3>1. PICK i \in 1 .. Len(inside) : us[k] = inside[i]
      BY <2>2
    <3>2. /\ us[k].parent = Id
          /\ \A l : l \in us[k].allowed <=> l \in base \/ (l # NoLabel /\ Waits(inside, Id, l))
      BY <1>8, <3>1 DEF AllowedInside
    <3>3. QED BY <1>7, <3>2
  <2>3. CASE \E i \in 1 .. Len(r) : us[k] = r[i]
    <3>1. PICK i \in 1 .. Len(r) : us[k] = r[i]
      BY <2>3
    <3>2. i + 1 \in 1 .. Len(ts) /\ r[i] = ts[i + 1]
      <4>1. Len(r) = Len(ts) - 1 /\ Len(ts) \in Nat /\ \A j \in 1 .. Len(ts) - 1 : r[j] = ts[j + 1]
        BY <1>2, Tailed
      <4> HIDE DEF r
      <4>2. QED BY <4>1
    <3> DEFINE task == ts[i + 1]
    <3>3. task = us[k] /\ task.op \notin LeaveOps
      BY <1>8, <3>1, <3>2
    <3>4. \A l : l \in task.allowed <=> Seen(t, ts, task.parent, l)
      BY <3>2, <3>3 DEF AllowedRight
    <3>5. TaskRight(t, task)
      BY <3>2 DEF TasksRight
    <3> HIDE DEF task
    <3>6. Home(task) = task.parent
      BY <3>3 DEF Home, LeaveOps
    <3>7. task.parent \in 0 .. Len(t)
      BY <3>5, <3>6 DEF TaskRight
    <3>8. QED BY <1>4, <3>3, <3>4, <3>7
  <2>4. QED BY <2>1, <2>2, <2>3
<1>9. AllowedRight(u, us)
  BY <1>8 DEF AllowedRight
<1>10. QED BY <1>3, <1>7, <1>9 DEF us

(* A step that adds no node and is not for a statement.                    *)
LEMMA AllowedSame ==
    ASSUME NEW t, IsTree(t), NEW ts, TasksRight(t, ts), ts # <<>>, AllowedRight(t, ts),
           ts[1].op # "statement", NEW inside, Sequential(inside),
           \A k \in 1 .. Len(inside) :
               /\ inside[k].op \notin LeaveOps \cup {"statement"} /\ ts[1].op \notin LeaveOps
               /\ inside[k].parent = ts[1].parent /\ inside[k].allowed = ts[1].allowed
    PROVE  LET us == inside \o Tail(ts)
           IN  AllowedRight(t, us) /\ SameSequences(t, ts, t, us)
<1> DEFINE r == Tail(ts)
           us == inside \o r
<1>1. Sequential(ts) /\ Sequential(r) /\ 1 \in 1 .. Len(ts) /\ Len(t) \in Nat
  BY Tailed, EmptySequence, SequentialMeans DEF TasksRight, IsTree
<1>2. \A p, l : Waits(us, p, l) <=> Waits(ts, p, l)
  <2>1. \A p, l : Waits(ts, p, l) <=> Waiting(ts[1], p, l) \/ Waits(r, p, l)
    BY <1>1, WaitsFirst
  <2>2. \A p, l : Waits(us, p, l) <=> Waits(inside, p, l) \/ Waits(r, p, l)
    BY <1>1, WaitsJoined
  <2>3. \A p, l : ~Waits(inside, p, l) /\ ~Waiting(ts[1], p, l)
    BY DEF Waits, Waiting
  <2>4. QED BY <2>1, <2>2, <2>3
<1> HIDE DEF us
<1>3. SameSequences(t, ts, t, us)
  BY <1>2 DEF SameSequences, Among
<1>4. \A p \in 0 .. Len(t) : \A l : Seen(t, us, p, l) <=> Seen(t, ts, p, l)
  BY <1>3, SeenStable
<1>5. ASSUME NEW k \in 1 .. Len(us), us[k].op \notin LeaveOps
      PROVE  \E i \in 1 .. Len(ts) : /\ ts[i].op \notin LeaveOps /\ us[k].parent = ts[i].parent
                                     /\ us[k].allowed = ts[i].allowed
  <2>1. \/ \E i \in 1 .. Len(inside) : us[k] = inside[i]
        \/ \E i \in 1 .. Len(r) : us[k] = r[i]
    <3>1. Sequential(inside) /\ Sequential(r) /\ k \in 1 .. Len(inside \o r)
      BY <1>1 DEF us
    <3> HIDE DEF r
    <3>2. \/ \E i \in 1 .. Len(inside) : (inside \o r)[k] = inside[i]
          \/ \E i \in 1 .. Len(r) : (inside \o r)[k] = r[i]
      BY <3>1, OneOf
    <3>3. QED BY <3>2 DEF us
  <2>2. CASE \E i \in 1 .. Len(inside) : us[k] = inside[i]
    BY <1>1, <2>2
  <2>3. CASE \E i \in 1 .. Len(r) : us[k] = r[i]
    <3>1. PICK i \in 1 .. Len(r) : us[k] = r[i]
      BY <2>3
    <3>2. i + 1 \in 1 .. Len(ts) /\ r[i] = ts[i + 1]
      <4>1. Len(r) = Len(ts) - 1 /\ Len(ts) \in Nat /\ \A j \in 1 .. Len(ts) - 1 : r[j] = ts[j + 1]
        BY <1>1, Tailed
      <4> HIDE DEF r
      <4>2. QED BY <4>1
    <3>3. QED BY <1>5, <3>1, <3>2
  <2>4. QED BY <2>1, <2>2, <2>3
<1>6. ASSUME NEW k \in 1 .. Len(us), us[k].op \notin LeaveOps
      PROVE  \A l : l \in us[k].allowed <=> Seen(t, us, us[k].parent, l)
  <2>1. PICK i \in 1 .. Len(ts) : /\ ts[i].op \notin LeaveOps /\ us[k].parent = ts[i].parent
                                  /\ us[k].allowed = ts[i].allowed
    BY <1>5, <1>6
  <2>2. \A l : l \in ts[i].allowed <=> Seen(t, ts, ts[i].parent, l)
    BY <2>1 DEF AllowedRight
  <2>3. Home(ts[i]) = ts[i].parent /\ TaskRight(t, ts[i])
    BY <2>1 DEF Home, LeaveOps, TasksRight
  <2>4. ts[i].parent \in 0 .. Len(t)
    BY <2>3 DEF TaskRight
  <2>5. QED BY <1>4, <2>1, <2>2, <2>4
<1>7. AllowedRight(t, us)
  BY <1>6 DEF AllowedRight
<1>8. QED BY <1>3, <1>7 DEF us

(* The scope of the closest block knows whether a label is prefixed there. *)
LEMMA FirstPrefixMeans ==
    ASSUME Coherence, Doing("statement"), MarksRight(tree, scopes), NEW u, Grows(tree, u),
           Id = Len(u), u[Id].form # "block", u[Id].label = Task.label,
           u[Id].parent = Task.parent
    PROVE  /\ HomeBlock(u, Id) = scopes[At(ClosestContainingBlock)].node
           /\ FirstPrefix <=> First(u, Id)
<1> DEFINE q == At(ClosestContainingBlock)
           b == scopes[q].node
           h == Task.parent
           l == Task.label
<1>1. /\ tasks # <<>> /\ Home(Task) = h /\ h # 0 /\ h \in 0 .. Len(tree) /\ Len(tree) \in Nat
      /\ IsTree(tree)
  BY Prefixing, Here
<1>2. /\ q \in 1 .. Len(scopes) /\ scopes[q].kind = "block"
      /\ b \in Around(tree, h) /\ b \in 1 .. Len(tree) /\ tree[b].form = "block"
      /\ \A m \in Around(tree, h) : tree[m].form = "block" => m <= b
  BY <1>1, Closest
<1>3. DOMAIN scopes[q].labels = tree[b].labels
  BY <1>1, <1>2, Alive
<1>4. Own = scopes[q].labels
  BY DEF Own
<1> HIDE DEF q, b, h, l
<1>5. /\ Len(u) = Len(tree) + 1 /\ IsTree(u) /\ Id \in 1 .. Len(u)
      /\ \A m \in 1 .. Len(tree) : u[m] = tree[m]
  BY <1>1 DEF Grows
<1>6. Around(u, h) = Around(tree, h)
  BY <1>1, Stable
<1>7. HomeBlock(u, Id) = b
  <2> DEFINE c == HomeBlock(u, Id)
  <2>1. /\ c \in Around(u, u[Id].parent) /\ c \in 1 .. Id - 1 /\ u[c].form = "block"
        /\ \A m \in Around(u, u[Id].parent) : u[m].form = "block" => m <= c
    BY <1>5, HomeBlockIs
  <2> HIDE DEF c
  <2>2. u[Id].parent = h
    BY DEF h
  <2>3. b <= c
    BY <1>2, <1>5, <1>6, <2>1, <2>2
  <2>4. c <= b
    BY <1>5, <2>1, <1>2, <1>6, <2>2
  <2>5. b \in Nat /\ c \in Nat
    BY <1>2, <2>1
  <2>6. QED BY <2>3, <2>4, <2>5 DEF c
<1>8. (\A m \in PrefixedIn(u, b, l) : Id <= m) <=> PrefixedIn(tree, b, l) = {}
  <2>1. \A m \in PrefixedIn(tree, b, l) : ~(Id <= m)
    BY <1>1, <1>5 DEF PrefixedIn
  <2>2. Id <= Id
    BY <1>5
  <2>3. \A m : m \in PrefixedIn(u, b, l) => m \in PrefixedIn(tree, b, l) \/ m = Id
    BY PrefixedGrows
  <2>4. \A m : m \in PrefixedIn(tree, b, l) => m \in PrefixedIn(u, b, l)
    BY PrefixedGrows
  <2>5. QED BY <2>1, <2>2, <2>3, <2>4
<1>9. u[b] = tree[b] /\ u[Id].label = l
  BY <1>2, <1>5 DEF l
<1>10. First(u, Id) <=> l # NoLabel /\ l \in tree[b].labels /\ PrefixedIn(tree, b, l) = {}
  BY <1>7, <1>8, <1>9 DEF First
<1>11. l \in tree[b].labels => (scopes[q].labels[l] = 0 <=> PrefixedIn(tree, b, l) = {})
  BY <1>2, <1>3 DEF MarksRight, b
<1>12. FirstPrefix <=> First(u, Id)
  BY <1>3, <1>4, <1>10, <1>11 DEF FirstPrefix, Declared, l
<1>13. QED BY <1>7, <1>12 DEF b, q

LEMMA MarksStatement ==
    ASSUME Coherence, Doing("statement"), MarksRight(tree, scopes), BlocksRight(tree),
           NEW u, Grows(tree, u), Id = Len(u), u[Id].form # "block", u[Id].label = Task.label,
           u[Id].parent = Task.parent, NEW ns,
           Kept(Names, tree, Len(scopes), scopes, ns),
           \A p \in 1 .. Len(scopes) : ns[p].labels = PrefixedScopes[p].labels,
           \A p \in 1 .. Len(ns) : p \notin 1 .. Len(scopes) => DOMAIN ns[p].labels = {}
    PROVE  MarksRight(u, ns)
<1> DEFINE q == At(ClosestContainingBlock)
           b == scopes[q].node
           own == Task.label
<1>1. /\ tasks # <<>> /\ Home(Task) # 0
      /\ \A p \in 1 .. Len(scopes) :
            ns[p].labels = IF FirstPrefix /\ p = q THEN Marked(scopes[p].labels, own, Id)
                           ELSE scopes[p].labels
  BY Prefixing
<1>2. /\ q \in 1 .. Len(scopes) /\ q = Place(tree, b, 1) /\ b \in 1 .. Len(tree)
      /\ tree[b].form = "block"
  BY <1>1, Closest
<1>3. \A p \in 1 .. Len(scopes) :
         /\ scopes[p].kind \in {"block", "with"} /\ scopes[p].kind = tree[scopes[p].node].form
         /\ scopes[p].kind = "block" => p = Place(tree, scopes[p].node, 1)
                                        /\ DOMAIN scopes[p].labels = tree[scopes[p].node].labels
         /\ scopes[p].kind # "block" => DOMAIN scopes[p].labels = {}
  BY <1>1, Alive
<1>4. Own = scopes[q].labels
  BY DEF Own
<1>5. HomeBlock(u, Id) = b /\ Id # 0
  BY <1>1, Here, FirstPrefixMeans DEF Grows
<1> HIDE DEF q, b, own
<1>6. \A p \in 1 .. Len(scopes) : ns[p].node = scopes[p].node
  <2>1. ASSUME NEW p \in 1 .. Len(scopes) PROVE ns[p].node = scopes[p].node
    <3>1. PICK m \in Around(tree, Home(Task)) : \E j \in 1 .. OpensIn(tree, m) :
             ScopeOf(Names, tree, scopes[p], m, j)
      BY <1>1, Alive
    <3>2. PICK j \in 1 .. OpensIn(tree, m) : ScopeOf(Names, tree, scopes[p], m, j)
      BY <3>1
    <3>3. m \in 1 .. Len(tree) /\ j \in Nat
      BY <1>1, Here, Placed
    <3>4. ScopeOf(Names, tree, ns[p], m, j)
      BY <3>2, <3>3 DEF Kept
    <3>5. QED BY <3>2, <3>4 DEF ScopeOf
  <2>2. QED BY <2>1
<1>7. ASSUME NEW p \in 1 .. Len(ns), NEW l \in DOMAIN ns[p].labels
      PROVE  ns[p].labels[l] = 0 <=> PrefixedIn(u, ns[p].node, l) = {}
  <2> DEFINE c == scopes[p].node
  <2>1. p \in 1 .. Len(scopes)
    BY <1>7
  <2>2. ns[p].node = c
    BY <1>6, <2>1
  <2>3. l \in DOMAIN scopes[p].labels
    BY <1>1, <2>1 DEF Marked
  <2>4. scopes[p].labels[l] = 0 <=> PrefixedIn(tree, c, l) = {}
    BY <2>1, <2>3 DEF MarksRight
  <2> HIDE DEF c
  <2>5. PrefixedIn(u, c, l) = {} <=> PrefixedIn(tree, c, l) = {} /\ ~(own = l /\ b = c)
    BY <1>5, PrefixedGrows DEF own
  <2>6. CASE FirstPrefix /\ p = q
    <3>1. ns[p].labels = Marked(scopes[p].labels, own, Id) /\ b = c
      BY <1>1, <2>1, <2>6 DEF b, c
    <3>2. CASE l = own
      BY <2>3, <3>1, <3>2, <1>5, <2>2, <2>5 DEF Marked
    <3>3. CASE l # own
      BY <2>3, <3>1, <3>3, <2>2, <2>4, <2>5 DEF Marked
    <3>4. QED BY <3>2, <3>3
  <2>7. CASE ~(FirstPrefix /\ p = q)
    <3>1. ns[p].labels = scopes[p].labels
      BY <1>1, <2>1, <2>7
    <3>2. ASSUME own = l, b = c PROVE PrefixedIn(tree, c, l) # {}
      <4>1. scopes[p].kind = "block"
        BY <1>3, <2>1, <2>3
      <4>2. p = q
        BY <1>2, <1>3, <2>1, <3>2, <4>1 DEF c
      <4>3. l \in tree[b].labels /\ l \in DOMAIN Own
        BY <1>3, <1>4, <2>1, <2>3, <3>2, <4>1, <4>2 DEF c
      <4>4. l # NoLabel
        BY <1>2, <4>3 DEF BlocksRight
      <4>5. Own[l] # 0
        BY <2>7, <3>2, <4>2, <4>3, <4>4 DEF FirstPrefix, Declared, own
      <4>6. QED BY <1>4, <2>4, <4>2, <4>5
    <3>3. QED BY <2>2, <2>4, <2>5, <3>1, <3>2
  <2>8. QED BY <2>6, <2>7
<1>8. QED BY <1>7 DEF MarksRight

(* A goto statement finds its label in the blocks around it.               *)
LEMMA LabelledMeans ==
    ASSUME Coherence, tasks # <<>>, NEW l
    PROVE  LabelledBlocks(l) # {} <=>
               \E b \in Around(tree, Home(Task)) : tree[b].form = "block" /\ l \in tree[b].labels
<1> DEFINE h == Home(Task)
<1>1. /\ IsTree(tree) /\ h \in 0 .. Len(tree) /\ Len(scopes) = Deep(tree, h)
      /\ Stacked(Names, tree, scopes, h)
  BY Here
<1> HIDE DEF h
<1>2. ASSUME NEW b \in Around(tree, h), tree[b].form = "block", l \in tree[b].labels
      PROVE  LabelledBlocks(l) # {}
  <2> DEFINE p == Place(tree, b, 1)
             k == Len(scopes) - p
  <2>1. p \in 1 .. Deep(tree, h) /\ 1 \in 1 .. OpensIn(tree, b)
    BY <1>1, <1>2, BlockPlace
  <2>2. ScopeOf(Names, tree, scopes[p], b, 1)
    BY <1>1, <2>1 DEF Stacked
  <2> HIDE DEF p
  <2>3. k \in Indices /\ Parent(k) = scopes[p]
    BY <1>1, <2>1, Position
  <2> HIDE DEF k
  <2>4. Parent(k).kind = "block" /\ l \in DOMAIN Parent(k).labels
    BY <1>2, <2>2, <2>3 DEF ScopeOf
  <2>5. QED BY <2>3, <2>4 DEF LabelledBlocks, BlockIndices
<1>3. ASSUME NEW k \in LabelledBlocks(l)
      PROVE  \E b \in Around(tree, h) : tree[b].form = "block" /\ l \in tree[b].labels
  <2>1. k \in Indices /\ Parent(k).kind = "block" /\ l \in DOMAIN Parent(k).labels
    BY DEF LabelledBlocks, BlockIndices
  <2>2. At(k) \in 1 .. Len(scopes) /\ Parent(k) = scopes[At(k)]
    BY <2>1, Index
  <2> DEFINE s == scopes[At(k)]
  <2>3. /\ s.node \in Around(tree, h) /\ s.kind = tree[s.node].form
        /\ s.kind = "block" => DOMAIN s.labels = tree[s.node].labels
    BY <2>2, Alive DEF h
  <2>4. QED BY <2>1, <2>2, <2>3
<1>4. QED BY <1>2, <1>3 DEF h

Reported(es, code, n) == \E e \in es : e.code = code /\ e.at = n
Targets(t, n) == {b \in BlocksAround(t, n) : t[n].arg \in t[b].labels}
Undeclared(t, n) == t[n].label # NoLabel /\ t[n].label \notin t[HomeBlock(t, n)].labels
Repeats(t, n) == t[n].label # NoLabel /\ ~Undeclared(t, n) /\ ~First(t, n)
GotosRight(t, ts, es) ==
    \A n \in 1 .. Len(t) :
        /\ Reported(es, "DISALLOWED_GOTO_TARGET", n) <=>
               t[n].form = "goto" /\ Targets(t, n) # {} /\ ~Seen(t, ts, n, t[n].arg)
        /\ t[n].form = "goto" =>
               (Reported(es, "UNDEFINED_LABEL", n) <=> Targets(t, n) = {} \/ Undeclared(t, n))

LEMMA TargetsStable ==
    ASSUME NEW t, NEW u, Grows(t, u), NEW n \in 1 .. Len(t)
    PROVE  Targets(u, n) = Targets(t, n) /\ (t[n].form = "goto" => (Undeclared(u, n) <=> Undeclared(t, n)))
<1>1. IsTree(t) /\ Len(t) \in Nat
  BY SequentialMeans DEF Grows, IsTree
<1>2. n \in 0 .. Len(t) /\ n # 0 /\ t[n].parent \in 0 .. n - 1 /\ t[n].parent \in 0 .. Len(t)
  BY <1>1, Unfold
<1>3. u[n] = t[n] /\ Around(u, t[n].parent) = Around(t, t[n].parent)
  BY <1>2, Stable
<1>4. \A b \in Around(t, t[n].parent) : u[b] = t[b]
  <2>1. Around(t, t[n].parent) \subseteq 1 .. t[n].parent
    BY <1>1, <1>2, Lines DEF Line
  <2>2. \A b \in 1 .. t[n].parent : b \in 1 .. Len(t)
    BY <1>1, <1>2
  <2>3. QED BY <2>1, <2>2 DEF Grows
<1>5. Targets(u, n) = Targets(t, n)
  BY <1>3, <1>4 DEF Targets, BlocksAround
<1>6. HomeBlock(u, n) = HomeBlock(t, n)
  BY HomeBlockStable
<1>7. t[n].form = "goto" => HomeBlock(t, n) \in Around(t, t[n].parent)
  BY <1>1, HomeBlockIs
<1>8. QED BY <1>3, <1>4, <1>5, <1>6, <1>7 DEF Undeclared

(* Of the nodes before the last, nothing changes.                          *)
LEMMA GotosStable ==
    ASSUME NEW t, NEW u, Grows(t, u) \/ (u = t /\ IsTree(t)), NEW ts, NEW us,
           SameSequences(t, ts, u, us), NEW es, NEW fs, GotosRight(t, ts, es),
           \A n \in 1 .. Len(t) : \A code \in {"DISALLOWED_GOTO_TARGET", "UNDEFINED_LABEL"} :
               Reported(fs, code, n) <=> Reported(es, code, n),
           NEW n \in 1 .. Len(t)
    PROVE  /\ Reported(fs, "DISALLOWED_GOTO_TARGET", n) <=>
                  u[n].form = "goto" /\ Targets(u, n) # {} /\ ~Seen(u, us, n, u[n].arg)
           /\ u[n].form = "goto" =>
                  (Reported(fs, "UNDEFINED_LABEL", n) <=> Targets(u, n) = {} \/ Undeclared(u, n))
<1>1. u[n] = t[n] /\ Targets(u, n) = Targets(t, n) /\ (t[n].form = "goto" => (Undeclared(u, n) <=> Undeclared(t, n)))
  <2>1. CASE Grows(t, u)
    BY <2>1, TargetsStable DEF Grows
  <2>2. QED BY <2>1
<1>2. n \in 0 .. Len(t)
  OBVIOUS
<1>3. Seen(u, us, n, t[n].arg) <=> Seen(t, ts, n, t[n].arg)
  BY <1>2, SeenStable
<1>4. /\ Reported(es, "DISALLOWED_GOTO_TARGET", n) <=>
               t[n].form = "goto" /\ Targets(t, n) # {} /\ ~Seen(t, ts, n, t[n].arg)
      /\ t[n].form = "goto" =>
               (Reported(es, "UNDEFINED_LABEL", n) <=> Targets(t, n) = {} \/ Undeclared(t, n))
  BY DEF GotosRight
<1>5. /\ Reported(fs, "DISALLOWED_GOTO_TARGET", n) <=> Reported(es, "DISALLOWED_GOTO_TARGET", n)
      /\ Reported(fs, "UNDEFINED_LABEL", n) <=> Reported(es, "UNDEFINED_LABEL", n)
  OBVIOUS
<1>6. QED BY <1>1, <1>3, <1>4, <1>5

Labelling ==
    /\ AllowedRight(tree, tasks) /\ MarksRight(tree, scopes) /\ BlocksRight(tree)
    /\ GotosRight(tree, tasks, errors)

(* What a statement reports about labels.                                  *)
LEMMA LabelReports ==
    ASSUME Coherence, Doing("statement"), MarksRight(tree, scopes), ErrorsRight,
           NEW u, Grows(tree, u), Id = Len(u), u[Id].form # "block",
           u[Id].label = Task.label, u[Id].parent = Task.parent, NEW errs,
           \A e \in errs : e.at = Id, NEW fs, fs = errors \cup LabelErrors \cup errs
    PROVE  /\ \A n \in 1 .. Len(tree) : \A code : Reported(fs, code, n) <=> Reported(errors, code, n)
           /\ Reported(fs, "DISALLOWED_GOTO_TARGET", Id) <=>
                 \E e \in errs : e.code = "DISALLOWED_GOTO_TARGET"
           /\ Reported(fs, "UNDEFINED_LABEL", Id) <=>
                 Undeclared(u, Id) \/ \E e \in errs : e.code = "UNDEFINED_LABEL"
           /\ BlocksRight(tree) =>
                 (Repeats(u, Id) <=> \E e \in LabelErrors : e.code = "AMBIGUOUS_LABEL")
<1>1. /\ \A n \in 1 .. Len(tree) : n # Id /\ u[n] = tree[n]
      /\ tasks # <<>> /\ Home(Task) # 0
  BY Prefixing, Here DEF Grows
<1>2. \A e \in LabelErrors : e.at = Id /\ e.code \in {"UNDEFINED_LABEL", "AMBIGUOUS_LABEL"}
  BY LabelErrorsHere
<1>3. \A e \in errors : e.at # Id
  BY <1>1 DEF ErrorsRight
<1>4. /\ Undeclared(u, Id) <=> Task.label # NoLabel /\ ~Declared
      /\ BlocksRight(tree) /\ Declared => Task.label # NoLabel
  <2> DEFINE q == At(ClosestContainingBlock)
             b == scopes[q].node
  <2>1. HomeBlock(u, Id) = b
    BY FirstPrefixMeans
  <2>2. q \in 1 .. Len(scopes) /\ scopes[q].kind = "block" /\ b \in 1 .. Len(tree)
    BY <1>1, Closest
  <2>3. DOMAIN scopes[q].labels = tree[b].labels
    BY <1>1, <2>2, Alive
  <2>4. Declared <=> Task.label \in u[b].labels
    BY <1>1, <2>2, <2>3 DEF Declared, Own
  <2>5. Undeclared(u, Id) <=> Task.label # NoLabel /\ ~Declared
    BY <2>1, <2>4 DEF Undeclared
  <2>6. BlocksRight(tree) /\ Declared => Task.label # NoLabel
    BY <1>1, <2>2, <2>4, Alive DEF BlocksRight
  <2>7. QED BY <2>5, <2>6
<1>5. (\E e \in LabelErrors : e.code = "UNDEFINED_LABEL") <=> Undeclared(u, Id)
  <2>1. Err("UNDEFINED_LABEL").code = "UNDEFINED_LABEL" /\ Err("AMBIGUOUS_LABEL").code = "AMBIGUOUS_LABEL"
    BY DEF Err
  <2>2. QED BY <1>4, <2>1 DEF LabelErrors, ErrIf
<1>6. \A n \in 1 .. Len(tree) : \A code : Reported(fs, code, n) <=> Reported(errors, code, n)
  BY <1>1, <1>2 DEF Reported
<1>7. Reported(fs, "DISALLOWED_GOTO_TARGET", Id) <=> \E e \in errs : e.code = "DISALLOWED_GOTO_TARGET"
  BY <1>2, <1>3 DEF Reported
<1>8. Reported(fs, "UNDEFINED_LABEL", Id) <=>
         Undeclared(u, Id) \/ \E e \in errs : e.code = "UNDEFINED_LABEL"
  BY <1>2, <1>3, <1>5 DEF Reported
<1>9. ASSUME BlocksRight(tree)
      PROVE  Repeats(u, Id) <=> \E e \in LabelErrors : e.code = "AMBIGUOUS_LABEL"
  <2>1. Err("UNDEFINED_LABEL").code = "UNDEFINED_LABEL" /\ Err("AMBIGUOUS_LABEL").code = "AMBIGUOUS_LABEL"
    BY DEF Err
  <2>2. FirstPrefix <=> First(u, Id)
    BY FirstPrefixMeans
  <2>3. QED BY <1>4, <1>9, <2>1, <2>2 DEF LabelErrors, ErrIf, Repeats
<1>10. QED BY <1>6, <1>7, <1>8, <1>9

(* What is inside a statement may go to what the statement may.            *)
LEMMA StatementAllowed ==
    ASSUME Coherence, Doing("statement"), MarksRight(tree, scopes), AllowedRight(tree, tasks),
           NEW u, Grows(tree, u), Id = Len(u), u[Id].form # "block", u[Id].label = Task.label,
           u[Id].parent = Task.parent, u[Id].inSequence = Task.inSequence,
           NEW inside, AllowedInside(inside, Allowed)
    PROVE  LET us == inside \o Tail(tasks)
           IN  /\ AllowedRight(u, us) /\ SameSequences(tree, tasks, u, us)
               /\ \A l : Seen(u, us, Id, l) <=> l \in Allowed \/ (l # NoLabel /\ Waits(inside, Id, l))
<1>1. /\ tasks # <<>> /\ Task = tasks[1] /\ TasksRight(tree, tasks) /\ tasks[1].op = "statement"
  BY Here DEF Doing
<1>2. tasks[1].op \in {"statement", "block"} /\ u[Len(u)].parent = tasks[1].parent
  BY <1>1
<1>3. \A p, l : Waiting(tasks[1], p, l) <=>
         u[Len(u)].inSequence /\ u[Len(u)].parent = p /\ u[Len(u)].label = l
  BY <1>1 DEF Waiting
<1>4. \A l : l \in Allowed <=>
         \/ First(u, Id) /\ u[Id].label = l
         \/ l \in tasks[1].allowed /\ ~(u[Id].form = "block" /\ l \in u[Id].labels)
  BY FirstPrefixMeans, <1>1 DEF Allowed
<1>5. QED BY <1>1, <1>2, <1>3, <1>4, AllowedNode

LEMMA StatementMarks ==
    ASSUME Coherence, IsVocabulary(vocabulary), Doing("statement"), MarksRight(tree, scopes),
           BlocksRight(tree),
           NEW form, NEW arg, NEW refers, NEW fine, NEW errs, NEW ns, NEW inside,
           Resolve(form, arg, refers, fine, errs, ns, inside),
           Resolved(form, arg, refers, fine, errs, ns, inside)
    PROVE  MarksRight(tree', ns)
<1> DEFINE u == tree'
<1>1. /\ Grows(tree, u) /\ Id = Len(tree) + 1 /\ Id \in Nat /\ Len(u) = Id
      /\ u[Id].form = form /\ u[Id].label = Task.label /\ u[Id].parent = Task.parent
      /\ u[Id].arg = arg /\ form # "block" /\ (form = "with" => Sequential(arg))
  BY StatementNode
<1> HIDE DEF u
<1>2. Len(scopes) \in Nat /\ Kept(Names, tree, Len(scopes), scopes, PrefixedScopes)
  BY Prefixing, Here
<1>3. CASE Ordinary(form, arg, refers, fine, errs, ns, inside)
           \/ Going(form, arg, refers, fine, errs, ns, inside)
  <2>1. Touched(ns)
    BY <1>3, PrefixedTouched DEF Ordinary, Going
  <2>2. /\ Len(ns) = Len(PrefixedScopes) /\ Len(PrefixedScopes) = Len(scopes)
        /\ \A p \in 1 .. Len(PrefixedScopes) : ns[p].labels = PrefixedScopes[p].labels
        /\ Kept(Names, tree, Len(scopes), scopes, ns)
    BY <2>1, Prefixing DEF Touched, Alike
  <2>3. \A p \in 1 .. Len(scopes) : ns[p].labels = PrefixedScopes[p].labels
    BY <2>2
  <2>4. \A p \in 1 .. Len(ns) : p \notin 1 .. Len(scopes) => DOMAIN ns[p].labels = {}
    BY <2>2
  <2>5. MarksRight(u, ns)
    BY <1>1, <2>2, <2>3, <2>4, MarksStatement
  <2>6. QED BY <2>5 DEF u
<1>4. CASE Opening(form, arg, refers, fine, errs, ns, inside)
  <2>1. form = "with" /\ ns = Opened(arg)
    BY <1>4, Zenon DEF Opening
  <2>2. Sequential(arg) /\ Len(arg) \in Nat
    BY <1>1, <2>1, SequentialMeans
  <2>3. /\ Len(ns) = Len(scopes) + Len(arg)
        /\ \A p \in 1 .. Len(scopes) : ns[p] = PrefixedScopes[p]
        /\ \A j \in 1 .. Len(arg) : ns[Len(scopes) + j] = WithScope(Id, arg[j])
    BY <2>1, <2>2, OpeningScopes
  <2>4. Kept(Names, tree, Len(scopes), scopes, ns)
    BY <1>2, <2>3 DEF Kept
  <2>5. ASSUME NEW p \in 1 .. Len(ns), p \notin 1 .. Len(scopes) PROVE DOMAIN ns[p].labels = {}
    <3> DEFINE j == p - Len(scopes)
    <3>1. j \in 1 .. Len(arg) /\ Len(scopes) + j = p
      BY <1>2, <2>2, <2>3, <2>5
    <3> HIDE DEF j
    <3>2. ns[p] = WithScope(Id, u[Id].arg[j])
      BY <1>1, <2>3, <3>1
    <3>3. ScopeOf(Names, u, WithScope(Id, u[Id].arg[j]), Id, j)
      BY <1>1, <2>1, OpenedScope
    <3>4. QED BY <1>1, <3>2, <3>3 DEF ScopeOf
  <2>6. \A p \in 1 .. Len(scopes) : ns[p].labels = PrefixedScopes[p].labels
    BY <2>3
  <2>7. MarksRight(u, ns)
    BY <1>1, <2>4, <2>5, <2>6, MarksStatement
  <2>8. QED BY <2>7 DEF u
<1>5. QED BY <1>3, <1>4 DEF Resolved

(* A goto statement is reported by what it may go to.                      *)
GoesTo(arg, errs) ==
    \E form, refers, fine, ns, inside : Going(form, arg, refers, fine, errs, ns, inside)

LEMMA GoingReports ==
    ASSUME Coherence, Doing("statement"), NEW u, Grows(tree, u), Id = Len(u),
           u[Id].parent = Task.parent, NEW arg, NEW errs, GoesTo(arg, errs)
    PROVE  u[Id].arg = arg =>
              /\ (\E e \in errs : e.code = "DISALLOWED_GOTO_TARGET") <=>
                    Targets(u, Id) # {} /\ arg \notin Allowed
              /\ (\E e \in errs : e.code = "UNDEFINED_LABEL") <=> Targets(u, Id) = {}
<1> SUFFICES ASSUME u[Id].arg = arg
             PROVE  /\ (\E e \in errs : e.code = "DISALLOWED_GOTO_TARGET") <=>
                          Targets(u, Id) # {} /\ arg \notin Allowed
                    /\ (\E e \in errs : e.code = "UNDEFINED_LABEL") <=> Targets(u, Id) = {}
  OBVIOUS
<1>0. \E form, refers, fine, ns, inside : Going(form, arg, refers, fine, errs, ns, inside)
  BY DEF GoesTo
<1> DEFINE h == Task.parent
<1>1. tasks # <<>> /\ h = Home(Task) /\ h \in 0 .. Len(tree) /\ IsTree(tree)
  BY Prefixing, Here
<1>2. LabelledBlocks(arg) # {} <=>
         \E b \in Around(tree, h) : tree[b].form = "block" /\ arg \in tree[b].labels
  BY <1>1, LabelledMeans
<1>3. Around(tree, h) \subseteq 1 .. h /\ Len(tree) \in Nat
  BY <1>1, Lines, SequentialMeans DEF Line, IsTree
<1> HIDE DEF h
<1>4. \A b \in Around(tree, h) : u[b] = tree[b]
  BY <1>1, <1>3 DEF Grows
<1>5. Around(u, h) = Around(tree, h)
  BY <1>1, Stable
<1>6. u[Id].parent = h
  BY DEF h
<1>7. LabelledBlocks(arg) # {} <=> Targets(u, Id) # {}
  BY <1>2, <1>4, <1>5, <1>6 DEF Targets, BlocksAround
<1>8. Err("UNDEFINED_LABEL").code = "UNDEFINED_LABEL"
      /\ Err("DISALLOWED_GOTO_TARGET").code = "DISALLOWED_GOTO_TARGET"
  BY DEF Err
<1>9. CASE LabelledBlocks(arg) = {}
  BY <1>0, <1>9, <1>7, <1>8 DEF Going
<1>10. CASE LabelledBlocks(arg) # {}
  BY <1>0, <1>10, <1>7, <1>8 DEF Going, ErrIf
<1>11. QED BY <1>9, <1>10

LabellingOf(t, ts, ss, es) ==
    AllowedRight(t, ts) /\ MarksRight(t, ss) /\ BlocksRight(t) /\ GotosRight(t, ts, es)

LEMMA StatementLabels ==
    ASSUME Right, Labelling, IsVocabulary(vocabulary), StatementAction
    PROVE  LabellingOf(tree', tasks', scopes', errors')
<1>1. /\ Coherence /\ Doing("statement") /\ StatementStep /\ ErrorsRight
      /\ AllowedRight(tree, tasks) /\ MarksRight(tree, scopes) /\ BlocksRight(tree)
      /\ GotosRight(tree, tasks, errors)
  BY StatementSteps DEF Right, Labelling
<1>2. PICK form, arg, refers, fine, errs, ns, inside :
         /\ Resolve(form, arg, refers, fine, errs, ns, inside)
         /\ Resolved(form, arg, refers, fine, errs, ns, inside)
  BY <1>1 DEF StatementStep
<1> DEFINE u == tree'
           us == inside \o Tail(tasks)
           es == errors'
<1>3. tasks' = us /\ scopes' = ns /\ es = errors \cup LabelErrors \cup errs
  BY <1>2 DEF Resolve
<1>4. /\ Grows(tree, u) /\ Id = Len(tree) + 1 /\ Id \in Nat /\ Len(u) = Id
      /\ u[Id].form = form /\ u[Id].label = Task.label /\ u[Id].parent = Task.parent
      /\ u[Id].inSequence = Task.inSequence /\ u[Id].arg = arg /\ form # "block"
  BY <1>1, <1>2, StatementNode
<1>5. MarksRight(u, ns)
  BY <1>1, <1>2, StatementMarks
<1> HIDE DEF u, us, es
<1>6. AllowedInside(inside, Allowed)
  BY <1>2, ResolvedAllowed
<1>7. /\ AllowedRight(u, us) /\ SameSequences(tree, tasks, u, us)
      /\ \A l : Seen(u, us, Id, l) <=> l \in Allowed \/ (l # NoLabel /\ Waits(inside, Id, l))
  BY <1>1, <1>4, <1>6, StatementAllowed DEF us
<1>8. \A n : n \in 1 .. Len(u) <=> n \in 1 .. Len(tree) \/ n = Id
  BY <1>1, <1>4, Here DEF Doing
<1>9. BlocksRight(u)
  BY <1>4, <1>1, <1>8 DEF Grows, BlocksRight
<1>10. \A e \in errs : e.at = Id
  BY <1>2, NewErrors
<1>11. /\ \A n \in 1 .. Len(tree) : \A code : Reported(es, code, n) <=> Reported(errors, code, n)
       /\ Reported(es, "DISALLOWED_GOTO_TARGET", Id) <=>
             \E e \in errs : e.code = "DISALLOWED_GOTO_TARGET"
       /\ Reported(es, "UNDEFINED_LABEL", Id) <=>
             Undeclared(u, Id) \/ \E e \in errs : e.code = "UNDEFINED_LABEL"
  BY <1>1, <1>3, <1>4, <1>10, LabelReports
<1>12. ASSUME NEW n \in 1 .. Len(tree)
       PROVE  /\ Reported(es, "DISALLOWED_GOTO_TARGET", n) <=>
                     u[n].form = "goto" /\ Targets(u, n) # {} /\ ~Seen(u, us, n, u[n].arg)
              /\ u[n].form = "goto" =>
                     (Reported(es, "UNDEFINED_LABEL", n) <=> Targets(u, n) = {} \/ Undeclared(u, n))
  BY <1>11, <1>1, <1>4, <1>7, GotosStable
<1>13. /\ Reported(es, "DISALLOWED_GOTO_TARGET", Id) <=>
             u[Id].form = "goto" /\ Targets(u, Id) # {} /\ ~Seen(u, us, Id, u[Id].arg)
       /\ u[Id].form = "goto" =>
             (Reported(es, "UNDEFINED_LABEL", Id) <=> Targets(u, Id) = {} \/ Undeclared(u, Id))
  <2>1. CASE Ordinary(form, arg, refers, fine, errs, ns, inside)
    BY <2>1, <1>4, <1>11 DEF Ordinary, Minor, OtherCodes
  <2>2. CASE Opening(form, arg, refers, fine, errs, ns, inside)
    <3>1. form = "with" /\ errs = {}
      BY <2>2, Zenon DEF Opening
    <3>2. QED BY <1>4, <1>11, <3>1
  <2>3. CASE Going(form, arg, refers, fine, errs, ns, inside)
    <3>1. inside = <<>>
      BY <2>3 DEF Going
    <3>2. form = "goto"
      BY <2>3 DEF Going
    <3>3. ~Waits(inside, Id, arg)
      BY EmptySequence, <3>1 DEF Waits
    <3>4. Seen(u, us, Id, arg) <=> arg \in Allowed
      BY <1>7, <3>3
    <3>5. /\ (\E e \in errs : e.code = "DISALLOWED_GOTO_TARGET") <=>
                 Targets(u, Id) # {} /\ arg \notin Allowed
          /\ (\E e \in errs : e.code = "UNDEFINED_LABEL") <=> Targets(u, Id) = {}
      BY <1>1, <1>4, <2>3, GoingReports DEF GoesTo
    <3>6. QED BY <1>4, <1>11, <3>2, <3>4, <3>5
  <2>4. QED BY <1>2, <2>1, <2>2, <2>3 DEF Resolved
<1>14. GotosRight(u, us, es)
  BY <1>8, <1>12, <1>13 DEF GotosRight
<1>15. LabellingOf(u, us, ns, es)
  BY <1>5, <1>7, <1>9, <1>14 DEF LabellingOf
<1>16. QED BY <1>3, <1>15 DEF u, us, es

(* The steps of buildBlock().                                              *)
LEMMA BlockLabels ==
    ASSUME Right, Labelling, IsVocabulary(vocabulary), BuildBlock
    PROVE  LabellingOf(tree', tasks', scopes', errors')
<1>1. /\ Coherence /\ Doing("block") /\ BlockStep /\ ErrorsRight
      /\ AllowedRight(tree, tasks) /\ MarksRight(tree, scopes) /\ BlocksRight(tree)
      /\ GotosRight(tree, tasks, errors)
  BY BlockSteps DEF Right, Labelling
<1>2. PICK uses, labels, repeated, body, e : Building(uses, labels, repeated, body, e)
  BY <1>1 DEF BlockStep
<1> DEFINE leave == LeaveTask("leaveBlock", Id, Task.name, 1)
           inside == body \o <<leave>>
           u == tree'
           us == inside \o Tail(tasks)
           b == BlockScope(Id, uses, labels)
           ns == Append(scopes, b)
           es == errors'
<1>3. /\ tasks' = us /\ scopes' = ns /\ Body(body, labels) /\ labels \subseteq Labels
      /\ es = errors \cup ErrIf(repeated # NoLabel, "DUPLICATE_LABEL")
  BY <1>2 DEF Building
<1>4. /\ Grows(tree, u) /\ Id = Len(tree) + 1 /\ Id \in Nat /\ Len(u) = Id
      /\ Id \in 1 .. Len(u) /\ u[Id] = e /\ BlockNode(e, uses, labels, repeated)
  BY <1>1, <1>2, BlockTree
<1>5. leave.op = "leaveBlock"
  BY DEF LeaveTask
<1>6. b.node = Id /\ b.labels = [l \in labels |-> 0]
  BY DEF BlockScope
<1> HIDE DEF u, es, leave, b
<1>7. /\ u[Id].form = "block" /\ u[Id].parent = Task.parent /\ u[Id].labels = labels
      /\ u[Id].label = NoLabel /\ ~u[Id].inSequence
  BY <1>4 DEF BlockNode
<1>8. AllowedInside(inside, Task.allowed \ labels)
  <2>1. AllowedInside(body, Task.allowed \ labels)
    BY <1>3, BodyAllowed
  <2>2. leave.op \in LeaveOps
    BY <1>5 DEF LeaveOps
  <2>3. QED BY <2>1, <2>2, AllowedThenLeave
<1> HIDE DEF inside
<1>9. /\ tasks # <<>> /\ Task = tasks[1] /\ TasksRight(tree, tasks) /\ tasks[1].op = "block"
      /\ Len(tree) \in Nat /\ Sequential(scopes) /\ IsTree(tree)
  BY <1>1, Here DEF Doing
<1>10. AllowedRight(u, us) /\ SameSequences(tree, tasks, u, us)
  <2>1. ~First(u, Id)
    BY <1>7 DEF First
  <2>2. \A l : l \in Task.allowed \ labels <=>
         \/ First(u, Id) /\ u[Id].label = l
         \/ l \in tasks[1].allowed /\ ~(u[Id].form = "block" /\ l \in u[Id].labels)
    BY <1>7, <1>9, <2>1
  <2>3. \A p, l : Waiting(tasks[1], p, l) <=>
           u[Len(u)].inSequence /\ u[Len(u)].parent = p /\ u[Len(u)].label = l
    BY <1>4, <1>7, <1>9 DEF Waiting
  <2>4. tasks[1].op \in {"statement", "block"} /\ u[Len(u)].parent = tasks[1].parent
    BY <1>4, <1>7, <1>9
  <2>5. Id = Len(u)
    BY <1>4
  <2>6. QED BY <1>1, <1>4, <1>8, <1>9, <2>2, <2>3, <2>4, <2>5, AllowedNode
<1> HIDE DEF us
<1>11. \A n : n \in 1 .. Len(u) <=> n \in 1 .. Len(tree) \/ n = Id
  BY <1>4, <1>9
<1>12. BlocksRight(u)
  BY <1>4, <1>3, <1>1, <1>7, <1>11 DEF Grows, IsVocabulary, Labels, BlocksRight
<1>13. MarksRight(u, ns)
  <2>1. /\ Len(ns) = Len(scopes) + 1 /\ Len(scopes) \in Nat
        /\ \A p \in 1 .. Len(scopes) : ns[p] = scopes[p]
        /\ ns[Len(scopes) + 1] = b
    BY <1>9, Appended, SequentialMeans
  <2> HIDE DEF ns
  <2>2. \A c, l : PrefixedIn(u, c, l) = PrefixedIn(tree, c, l)
    <3>1. \A c, l, n : n \in PrefixedIn(u, c, l) <=> n \in PrefixedIn(tree, c, l)
      BY <1>4, <1>7, PrefixedGrows
    <3>2. QED BY <3>1
  <2>3. \A l : PrefixedIn(tree, Id, l) = {}
    <3>1. ASSUME NEW n \in 1 .. Len(tree), tree[n].form # "block" PROVE HomeBlock(tree, n) # Id
      <4>1. HomeBlock(tree, n) \in 1 .. n - 1
        BY <1>9, <3>1, HomeBlockIs
      <4> DEFINE c == HomeBlock(tree, n)
      <4>2. c \in 1 .. n - 1
        BY <4>1
      <4> HIDE DEF c
      <4>3. c # Id
        BY <1>4, <1>9, <4>2
      <4>4. QED BY <4>3 DEF c
    <3>2. QED BY <3>1 DEF PrefixedIn
  <2>4. ASSUME NEW p \in 1 .. Len(ns), NEW l \in DOMAIN ns[p].labels
        PROVE  ns[p].labels[l] = 0 <=> PrefixedIn(u, ns[p].node, l) = {}
    <3>1. CASE p \in 1 .. Len(scopes)
      <4>1. ns[p] = scopes[p] /\ l \in DOMAIN scopes[p].labels
        BY <2>1, <3>1
      <4>2. scopes[p].labels[l] = 0 <=> PrefixedIn(tree, scopes[p].node, l) = {}
        BY <1>1, <3>1, <4>1 DEF MarksRight
      <4>3. QED BY <2>2, <4>1, <4>2
    <3>2. CASE p \notin 1 .. Len(scopes)
      BY <2>1, <3>2, <1>6, <2>2, <2>3
    <3>3. QED BY <3>1, <3>2
  <2>5. QED BY <2>4 DEF MarksRight
<1> HIDE DEF ns
<1>14. /\ \A f \in ErrIf(repeated # NoLabel, "DUPLICATE_LABEL") : f.code = "DUPLICATE_LABEL"
       /\ \A f \in errors : f.at # Id
  BY <1>4, <1>9, <1>1 DEF Err, ErrIf, ErrorsRight
<1>15. \A n : \A code \in {"DISALLOWED_GOTO_TARGET", "UNDEFINED_LABEL"} :
           Reported(es, code, n) <=> Reported(errors, code, n)
  BY <1>3, <1>14 DEF Reported
<1>16. ASSUME NEW n \in 1 .. Len(tree)
       PROVE  /\ Reported(es, "DISALLOWED_GOTO_TARGET", n) <=>
                     u[n].form = "goto" /\ Targets(u, n) # {} /\ ~Seen(u, us, n, u[n].arg)
              /\ u[n].form = "goto" =>
                     (Reported(es, "UNDEFINED_LABEL", n) <=> Targets(u, n) = {} \/ Undeclared(u, n))
  BY <1>15, <1>1, <1>4, <1>10, GotosStable
<1>17. ~Reported(es, "DISALLOWED_GOTO_TARGET", Id)
  BY <1>14, <1>15 DEF Reported
<1>18. GotosRight(u, us, es)
  BY <1>7, <1>11, <1>16, <1>17 DEF GotosRight
<1>19. LabellingOf(u, us, ns, es)
  BY <1>10, <1>12, <1>13, <1>18 DEF LabellingOf
<1>20. QED BY <1>3, <1>19 DEF u, us, ns, es

LEMMA DeclareLabels ==
    ASSUME Right, Labelling, DeclareSubroutine
    PROVE  LabellingOf(tree', tasks', scopes', errors')
<1>1. /\ Coherence /\ Doing("subroutines") /\ DeclareStep
      /\ AllowedRight(tree, tasks) /\ MarksRight(tree, scopes) /\ BlocksRight(tree)
      /\ GotosRight(tree, tasks, errors)
  BY DeclareSteps DEF Right, Labelling
<1>2. PICK x, inside : Declaration(x, inside) /\ tasks' = inside \o Tail(tasks)
  BY <1>1 DEF DeclareStep
<1>3. tree' = tree /\ scopes' = scopes /\ errors' = errors
  BY <1>1 DEF DeclareStep
<1>4. /\ tasks # <<>> /\ Task = tasks[1] /\ tasks[1].op = "subroutines" /\ TasksRight(tree, tasks)
      /\ IsTree(tree)
  BY <1>1, Here DEF Doing
<1>5. ASSUME NEW k \in 1 .. Len(inside)
      PROVE  /\ inside[k].op \notin LeaveOps \cup {"statement"} /\ tasks[1].op \notin LeaveOps
             /\ inside[k].parent = tasks[1].parent /\ inside[k].allowed = tasks[1].allowed
  BY <1>2, DeclaredTasks, <1>4 DEF LeaveOps
<1> DEFINE us == inside \o Tail(tasks)
<1>6. AllowedRight(tree, us) /\ SameSequences(tree, tasks, tree, us)
  BY <1>2, <1>4, <1>1, <1>5, AllowedSame DEF Declaration
<1> HIDE DEF us
<1>7. \A n \in 1 .. Len(tree) : \A code \in {"DISALLOWED_GOTO_TARGET", "UNDEFINED_LABEL"} :
         Reported(errors, code, n) <=> Reported(errors, code, n)
  OBVIOUS
<1>8. GotosRight(tree, us, errors)
  <2>1. ASSUME NEW n \in 1 .. Len(tree)
        PROVE  /\ Reported(errors, "DISALLOWED_GOTO_TARGET", n) <=>
                      tree[n].form = "goto" /\ Targets(tree, n) # {} /\ ~Seen(tree, us, n, tree[n].arg)
               /\ tree[n].form = "goto" =>
                      (Reported(errors, "UNDEFINED_LABEL", n) <=> Targets(tree, n) = {} \/ Undeclared(tree, n))
    BY <1>4, <1>1, <1>6, <1>7, GotosStable
  <2>2. QED BY <2>1 DEF GotosRight
<1>9. LabellingOf(tree, us, scopes, errors)
  BY <1>1, <1>6, <1>8 DEF LabellingOf
<1>10. QED BY <1>2, <1>3, <1>9 DEF us

(* The scopes that are left.                                               *)
LEMMA LeftScopes ==
    ASSUME Coherence, tasks # <<>>, Task.op \in LeaveOps
    PROVE  /\ Len(scopes) - Task.count \in 0 .. Len(scopes) /\ Len(scopes) \in Nat
           /\ Sequential(scopes) /\ Sequential(tasks)
<1>1. /\ Task = tasks[1] /\ TasksRight(tree, tasks) /\ IsTree(tree) /\ TaskRight(tree, Task)
      /\ Sequential(scopes) /\ Len(scopes) = Deep(tree, Task.node) /\ Task.node \in 1 .. Len(tree)
  <2>1. /\ Task = tasks[1] /\ TasksRight(tree, tasks) /\ IsTree(tree) /\ TaskRight(tree, Task)
        /\ Sequential(scopes) /\ Len(scopes) = Deep(tree, Home(Task)) /\ Len(tree) \in Nat
        /\ Home(Task) \in 0 .. Len(tree)
    BY Here
  <2>2. Home(Task) = Task.node
    BY DEF Home, LeaveOps
  <2>3. Home(Task) # 0
    BY <2>1 DEF TaskRight, LeaveOps
  <2>4. Home(Task) \in 1 .. Len(tree)
    BY <2>1, <2>3
  <2>5. QED BY <2>1, <2>2, <2>4
<1>2. Task.count = OpensIn(tree, Task.node)
  BY <1>1 DEF TaskRight
<1>3. /\ Deep(tree, Task.node) = OpensIn(tree, Task.node) + Deep(tree, tree[Task.node].parent)
      /\ OpensIn(tree, Task.node) \in Nat /\ Deep(tree, tree[Task.node].parent) \in Nat
  BY <1>1, Unfold
<1>4. Len(scopes) - Task.count \in 0 .. Len(scopes) /\ Len(scopes) \in Nat
  BY <1>1, <1>2, <1>3
<1>5. QED BY <1>1, <1>4 DEF TasksRight

LEMMA LeaveLabels ==
    ASSUME Right, Labelling, LeaveWith \/ LeaveBlock
    PROVE  LabellingOf(tree', tasks', scopes', errors')
<1>1. /\ Coherence
      /\ AllowedRight(tree, tasks) /\ MarksRight(tree, scopes) /\ BlocksRight(tree)
      /\ GotosRight(tree, tasks, errors)
  BY DEF Right, Labelling
<1> DEFINE m == Len(scopes) - Task.count
           ns == SubSeq(scopes, 1, m)
           us == Tail(tasks)
           es == errors'
<1>2. /\ tasks # <<>> /\ Task.op \in LeaveOps /\ tasks' = us /\ tree' = tree /\ scopes' = ns
  BY DEF LeaveWith, LeaveBlock, Doing, LeaveOps
<1>3. Task = tasks[1] /\ TasksRight(tree, tasks) /\ IsTree(tree) /\ Sequential(scopes)
  BY <1>1, <1>2, Here
<1>4. m \in 0 .. Len(scopes) /\ Len(scopes) \in Nat
  BY <1>1, <1>2, LeftScopes
<1> HIDE DEF m, es
<1>5. MarksRight(tree, ns)
  <2>1. Len(ns) = m /\ \A p \in 1 .. m : ns[p] = scopes[p]
    BY <1>3, <1>4, Shortened
  <2> HIDE DEF ns
  <2>2. \A p \in 1 .. Len(ns) : p \in 1 .. Len(scopes) /\ ns[p] = scopes[p]
    BY <1>4, <2>1
  <2>3. QED BY <1>1, <2>2 DEF MarksRight
<1> HIDE DEF ns
<1>6. AllowedRight(tree, us) /\ SameSequences(tree, tasks, tree, us)
  <2>1. Sequential(<<>>) /\ Len(<<>>) = 0 /\ 1 .. 0 = {}
    BY EmptySequence
  <2>2. \A k \in 1 .. Len(<<>>) :
               /\ <<>>[k].op \notin LeaveOps \cup {"statement"} /\ tasks[1].op \notin LeaveOps
               /\ <<>>[k].parent = tasks[1].parent /\ <<>>[k].allowed = tasks[1].allowed
    BY <2>1
  <2>3. tasks[1].op # "statement"
    BY <1>2, <1>3 DEF LeaveOps
  <2>4. AllowedRight(tree, <<>> \o us) /\ SameSequences(tree, tasks, tree, <<>> \o us)
    BY <1>1, <1>2, <1>3, <2>1, <2>2, <2>3, AllowedSame
  <2>5. <<>> \o us = us
    BY <1>2, <1>3, Tailed, Unjoined DEF TasksRight
  <2>6. QED BY <2>4, <2>5
<1> HIDE DEF us
<1>7. \A n \in 1 .. Len(tree) : \A code \in {"DISALLOWED_GOTO_TARGET", "UNDEFINED_LABEL"} :
         Reported(es, code, n) <=> Reported(errors, code, n)
  <2>1. errors \subseteq es
    BY DEF LeaveWith, LeaveBlock, es
  <2>2. \A f \in es : f \in errors \/ f.code \in {"UNUSED_LABEL", "MISSING_RESULT_ASSIGNMENT"}
    <3>1. CASE LeaveWith
      BY <3>1 DEF LeaveWith, es
    <3>2. CASE LeaveBlock
      BY <3>2 DEF LeaveBlock, es
    <3>3. QED BY <3>1, <3>2
  <2>3. QED BY <2>1, <2>2 DEF Reported
<1>8. GotosRight(tree, us, es)
  <2>1. ASSUME NEW n \in 1 .. Len(tree)
        PROVE  /\ Reported(es, "DISALLOWED_GOTO_TARGET", n) <=>
                      tree[n].form = "goto" /\ Targets(tree, n) # {} /\ ~Seen(tree, us, n, tree[n].arg)
               /\ tree[n].form = "goto" =>
                      (Reported(es, "UNDEFINED_LABEL", n) <=> Targets(tree, n) = {} \/ Undeclared(tree, n))
    BY <1>3, <1>1, <1>6, <1>7, GotosStable
  <2>2. QED BY <2>1 DEF GotosRight
<1>9. LabellingOf(tree, us, ns, es)
  BY <1>1, <1>5, <1>6, <1>8 DEF LabellingOf
<1>10. QED BY <1>2, <1>9 DEF es

LEMMA LabellingFirst ==
    ASSUME Init
    PROVE  Labelling
<1> DEFINE first == BlockTask("program", "program", 0, {})
<1>1. tasks = <<first>> /\ scopes = <<>> /\ tree = <<>>
  BY DEF Init
<1>2. first.parent = 0 /\ first.allowed = {}
  BY DEF BlockTask
<1> HIDE DEF first
<1>3. Len(tasks) = 1 /\ tasks[1] = first /\ \A k \in 1 .. 1 : k = 1
  BY <1>1, Single
<1>4. Len(scopes) = 0 /\ Len(tree) = 0 /\ 1 .. 0 = {}
  BY <1>1, EmptySequence
<1>5. Around(tree, 0) = {}
  BY DEF Around
<1>6. AllowedRight(tree, tasks)
  BY <1>2, <1>3, <1>5 DEF AllowedRight, Seen
<1>7. MarksRight(tree, scopes) /\ BlocksRight(tree) /\ GotosRight(tree, tasks, errors)
  BY <1>4 DEF MarksRight, BlocksRight, GotosRight
<1>8. QED BY <1>6, <1>7 DEF Labelling

LEMMA LabellingKept ==
    ASSUME Right, Labelling, [Next]_vars
    PROVE  Labelling'
<1>1. CASE UNCHANGED vars \/ Done
  BY <1>1 DEF vars, Done, analysis, Labelling
<1>2. CASE Next /\ ~Done
  <2>1. IsVocabulary(vocabulary)
    BY VocabulariesAssumption DEF Right
  <2>2. LabellingOf(tree', tasks', scopes', errors')
    <3>1. CASE StatementAction
      BY <2>1, <3>1, StatementLabels
    <3>2. CASE BuildBlock
      BY <2>1, <3>2, BlockLabels
    <3>3. CASE LeaveWith \/ LeaveBlock
      BY <3>3, LeaveLabels
    <3>4. CASE DeclareSubroutine
      BY <3>4, DeclareLabels
    <3>5. QED BY <1>2, <3>1, <3>2, <3>3, <3>4 DEF Next, StatementAction
  <2>3. QED BY <2>2 DEF LabellingOf, Labelling
<1>3. QED BY <1>1, <1>2

LEMMA LabellingAlways == Spec => [](Right /\ Labelling)
<1>1. Init => Labelling
  BY LabellingFirst
<1>2. QED BY <1>1, RightAlways, LabellingKept, PTL DEF Spec

-----------------------------------------------------------------------------
(* What may be seen of a finished program are the legal targets.           *)

LabelsRight(t) ==
    /\ \A b \in 1 .. Len(t) : t[b].form = "block" =>
          \A l \in t[b].labels : Cardinality(PrefixedIn(t, b, l)) = 1
    /\ \A n \in 1 .. Len(t) : t[n].form # "block" =>
          t[n].label \in t[HomeBlock(t, n)].labels \cup {NoLabel}

(* The block whose label a goto statement means.                           *)
LEMMA Target ==
    ASSUME NEW t, IsTree(t), NEW g \in 1 .. Len(t), t[g].form = "goto", Targets(t, g) # {}
    PROVE  LET b == Innermost(Targets(t, g))
               l == t[g].arg
           IN  /\ b \in Around(t, g) /\ b \in 1 .. Len(t) /\ t[b].form = "block" /\ l \in t[b].labels
               /\ \A a \in Around(t, g) : Hidden(t, g, a, l) <=> a < b
               /\ \A c \in Around(t, g) : t[c].form = "block" /\ l \in t[c].labels => c <= b
<1> DEFINE p == t[g].parent
           S == Targets(t, g)
           b == Innermost(S)
           l == t[g].arg
<1>1. /\ p \in 0 .. g - 1 /\ p \in 0 .. Len(t) /\ g \in Nat /\ Len(t) \in Nat
      /\ Around(t, g) = {g} \cup Around(t, p)
  BY Unfold
<1>2. Around(t, p) \subseteq 1 .. p
  BY <1>1, Lines DEF Line
<1>3. \A c : c \in S <=> c \in Around(t, p) /\ t[c].form = "block" /\ l \in t[c].labels
  BY DEF Targets, BlocksAround
<1>4. S \subseteq 0 .. p /\ p \in Nat
  BY <1>1, <1>2, <1>3
<1> HIDE DEF S, p, l
<1>5. b \in S /\ \A m \in S : m <= b
  BY <1>4, InnermostOf DEF S
<1> HIDE DEF b
<1>6. b \in Around(t, g) /\ t[b].form = "block" /\ l \in t[b].labels /\ b \in 1 .. p
  BY <1>1, <1>2, <1>3, <1>5
<1>7. b \in 1 .. Len(t)
  BY <1>1, <1>6
<1>8. \A c \in Around(t, g) : t[c].form = "block" /\ l \in t[c].labels => c \in S
  BY <1>1, <1>3
<1>9. \A c \in Around(t, g) : t[c].form = "block" /\ l \in t[c].labels => c <= b
  BY <1>5, <1>8
<1>10. \A a \in Around(t, g) : a \in Nat
  BY <1>1, <1>2
<1>11. ASSUME NEW a \in Around(t, g) PROVE Hidden(t, g, a, l) <=> a < b
  <2>1. a \in Nat /\ b \in Nat
    BY <1>10, <1>6
  <2>2. ASSUME Hidden(t, g, a, l) PROVE a < b
    <3>1. PICK c \in Around(t, g) : t[c].form = "block" /\ a < c /\ l \in t[c].labels
      BY <2>2 DEF Hidden
    <3>2. c <= b /\ c \in Nat
      BY <1>9, <1>10, <3>1
    <3>3. QED BY <2>1, <3>1, <3>2
  <2>3. ASSUME a < b PROVE Hidden(t, g, a, l)
    BY <1>6, <2>3 DEF Hidden
  <2>4. QED BY <2>2, <2>3
<1>12. QED BY <1>6, <1>7, <1>9, <1>11 DEF S, b, l

(* What can be reached is a statement that the label of the block prefixes.*)
LEMMA SeenTarget ==
    ASSUME NEW t, IsTree(t), BlocksRight(t), LabelsRight(t),
           NEW g \in 1 .. Len(t), t[g].form = "goto", Targets(t, g) # {},
           Seen(t, <<>>, g, t[g].arg)
    PROVE  \E s \in PrefixedIn(t, Innermost(Targets(t, g)), t[g].arg) :
              s \in Around(t, g) \/ (t[s].inSequence /\ t[s].parent \in Around(t, t[g].parent))
<1> DEFINE b == Innermost(Targets(t, g))
           l == t[g].arg
<1>1. /\ b \in Around(t, g) /\ b \in 1 .. Len(t) /\ t[b].form = "block" /\ l \in t[b].labels
      /\ \A a \in Around(t, g) : Hidden(t, g, a, l) <=> a < b
      /\ \A c \in Around(t, g) : t[c].form = "block" /\ l \in t[c].labels => c <= b
  BY Target
<1> HIDE DEF b, l
<1>2. PICK a \in Around(t, g) : ~Hidden(t, g, a, l) /\ Reaches(t, <<>>, a, l)
  BY DEF Seen, l
<1>3. /\ g \in 0 .. Len(t) /\ Around(t, g) \subseteq 1 .. g /\ Len(t) \in Nat
      /\ \A m \in Around(t, g) : Around(t, m) \subseteq Around(t, g)
      /\ \A m, k \in Around(t, g) : m <= k => m \in Around(t, k)
      /\ Around(t, g) = {g} \cup Around(t, t[g].parent)
  BY Unfold, Lines DEF Line
<1>4. a \in 1 .. Len(t) /\ b <= a /\ b \in Nat /\ a \in Nat
  BY <1>1, <1>2, <1>3
<1>5. CASE First(t, a) /\ t[a].label = l
  <2> DEFINE c == HomeBlock(t, a)
  <2>1. t[a].form # "block" /\ l \in t[c].labels
    BY <1>5 DEF First
  <2>2. /\ c \in Around(t, t[a].parent) /\ t[c].form = "block" /\ c \in 1 .. a - 1
        /\ \A d \in Around(t, t[a].parent) : t[d].form = "block" => d <= c
    BY <1>4, <2>1, HomeBlockIs
  <2> HIDE DEF c
  <2>3. Around(t, a) = {a} \cup Around(t, t[a].parent)
    BY <1>4, Unfold
  <2>4. c <= b
    BY <1>1, <1>2, <1>3, <2>1, <2>2, <2>3
  <2>5. b <= c
    BY <1>1, <2>1, <1>2, <1>3, <1>4, <2>3, <2>2
  <2>6. b = c
    BY <1>4, <2>2, <2>4, <2>5
  <2>7. a \in PrefixedIn(t, b, l)
    BY <1>4, <1>5, <2>1, <2>6 DEF PrefixedIn, c
  <2>8. QED BY <1>2, <2>7 DEF b, l
<1>6. CASE Among(t, <<>>, a, l)
  <2>1. ~Waits(<<>>, a, l)
    BY EmptySequence DEF Waits
  <2>2. l # NoLabel
    BY <1>6 DEF Among
  <2>3. PICK n \in 1 .. Len(t) : t[n].inSequence /\ t[n].parent = a /\ t[n].label = l
    BY <1>6, <2>1 DEF Among, Stands
  <2> DEFINE c == HomeBlock(t, n)
  <2>4. t[n].form # "block" /\ t[a].form # "goto"
    BY <1>4, <2>3 DEF IsTree, IsNode, Inhabited
  <2>5. l \in t[c].labels
    BY <2>2, <2>3, <2>4 DEF LabelsRight
  <2>6. /\ c \in Around(t, a) /\ t[c].form = "block" /\ c \in 1 .. n - 1
        /\ \A d \in Around(t, a) : t[d].form = "block" => d <= c
    BY <2>3, <2>4, HomeBlockIs
  <2> HIDE DEF c
  <2>7. c <= b
    BY <1>1, <1>2, <1>3, <2>5, <2>6
  <2>8. b <= c
    BY <1>1, <1>2, <1>3, <1>4, <2>6
  <2>9. b = c
    BY <1>4, <2>6, <2>7, <2>8
  <2>10. n \in PrefixedIn(t, b, l)
    BY <2>3, <2>4, <2>9 DEF PrefixedIn, c
  <2>11. t[n].parent \in Around(t, t[g].parent)
    BY <1>2, <1>3, <2>3, <2>4
  <2>12. QED BY <2>3, <2>10, <2>11 DEF b, l
<1>7. QED BY <1>2, <1>5, <1>6 DEF Reaches

LEMMA TargetSeen ==
    ASSUME NEW t, IsTree(t), BlocksRight(t), LabelsRight(t),
           NEW g \in 1 .. Len(t), t[g].form = "goto", Targets(t, g) # {},
           NEW s \in PrefixedIn(t, Innermost(Targets(t, g)), t[g].arg),
           s \in Around(t, g) \/ (t[s].inSequence /\ t[s].parent \in Around(t, t[g].parent))
    PROVE  Seen(t, <<>>, g, t[g].arg)
<1> DEFINE b == Innermost(Targets(t, g))
           l == t[g].arg
<1>1. /\ b \in Around(t, g) /\ b \in 1 .. Len(t) /\ t[b].form = "block" /\ l \in t[b].labels
      /\ \A a \in Around(t, g) : Hidden(t, g, a, l) <=> a < b
  BY Target
<1>2. s \in PrefixedIn(t, b, l)
  OBVIOUS
<1> HIDE DEF b
<1>3. s \in 1 .. Len(t) /\ t[s].form # "block" /\ t[s].label = l /\ HomeBlock(t, s) = b
  BY <1>2 DEF PrefixedIn
<1> HIDE DEF l
<1>4. b \in Around(t, t[s].parent) /\ b \in 1 .. s - 1
  BY <1>3, HomeBlockIs
<1>5. l # NoLabel
  BY <1>1 DEF BlocksRight
<1>6. CASE s \in Around(t, g)
  <2>1. ~Hidden(t, g, s, l)
    BY <1>3, <1>4, <1>1, <1>6
  <2>2. \A m \in PrefixedIn(t, b, l) : m = s
    <3>1. IsFiniteSet(PrefixedIn(t, b, l))
      <4>1. IsFiniteSet(1 .. Len(t)) /\ PrefixedIn(t, b, l) \subseteq 1 .. Len(t)
        <5>1. 1 \in Int /\ Len(t) \in Int
          BY SequentialMeans DEF IsTree
        <5>2. IsFiniteSet(1 .. Len(t))
          BY <5>1, FS_Interval
        <5>3. QED BY <5>2 DEF PrefixedIn
      <4>2. QED BY <4>1, FS_Subset
    <3>2. Cardinality(PrefixedIn(t, b, l)) = 1
      BY <1>1 DEF LabelsRight
    <3>3. PICK x : PrefixedIn(t, b, l) = {x}
      BY <3>1, <3>2, FS_Singleton
    <3>4. QED BY <1>2, <3>3
  <2>3. s <= s
    BY <1>3
  <2>4. First(t, s)
    BY <1>1, <1>3, <1>5, <2>2, <2>3 DEF First
  <2>5. Reaches(t, <<>>, s, l)
    BY <1>3, <2>4 DEF Reaches
  <2>6. QED BY <1>6, <2>1, <2>5 DEF Seen, l
<1>7. CASE t[s].inSequence /\ t[s].parent \in Around(t, t[g].parent)
  <2> DEFINE a == t[s].parent
  <2>1. /\ a \in 0 .. Len(t) /\ Len(t) \in Nat /\ Around(t, g) = {g} \cup Around(t, t[g].parent)
    BY <1>3, Unfold
  <2>2. a \in Around(t, g)
    BY <1>7, <2>1
  <2>3. b \in 1 .. a
    BY <1>4, <2>1, Lines DEF Line
  <2> HIDE DEF a
  <2>4. ~(a < b)
    BY <2>1, <2>3
  <2>5. ~Hidden(t, g, a, l)
    BY <1>1, <2>2, <2>4
  <2>6. Reaches(t, <<>>, a, l)
    BY <1>3, <1>5, <1>7 DEF Reaches, Among, Stands, a
  <2>7. QED BY <2>2, <2>5, <2>6 DEF Seen, l
<1>8. QED BY <1>6, <1>7

(* The nodes, blocks and labels that the rules speak of.                   *)
LEMMA RulesMean ==
    ASSUME IsTree(tree)
    PROVE  /\ Nodes = 1 .. Len(tree)
           /\ \A n \in 1 .. Len(tree) :
                 /\ Above[n] = Around(tree, tree[n].parent)
                 /\ Blocks \cap Above[n] = BlocksAround(tree, n)
                 /\ BlockOf(n) = HomeBlock(tree, n)
           /\ \A b, l : Prefixed(b, l) = PrefixedIn(tree, b, l)
<1>1. Nodes = 1 .. Len(tree) /\ Len(tree) \in Nat
  BY SequentialMeans DEF IsTree, Nodes
<1>2. Above = AboveIn(tree)
  BY DEF Above, AboveIn, Nodes
<1>3. ASSUME NEW n \in 1 .. Len(tree) PROVE Above[n] = Around(tree, tree[n].parent)
  BY <1>2, Ancestry DEF Around
<1>4. ASSUME NEW n \in 1 .. Len(tree) PROVE Blocks \cap Above[n] = BlocksAround(tree, n)
  <2>1. Above[n] \subseteq Nodes
    BY <1>1, <1>2, Ancestry
  <2>2. QED BY <1>3, <2>1 DEF Blocks, BlocksAround, Is
<1>5. \A n \in 1 .. Len(tree) : BlockOf(n) = HomeBlock(tree, n)
  BY <1>4 DEF BlockOf, HomeBlock
<1>6. ASSUME NEW b, NEW l PROVE Prefixed(b, l) = PrefixedIn(tree, b, l)
  BY <1>1, <1>5 DEF Prefixed, PrefixedIn, Blocks, Is
<1>7. QED BY <1>1, <1>3, <1>4, <1>5, <1>6

LEMMA GotosMean ==
    ASSUME Right, Labelling
    PROVE  GotosAreExact
<1> SUFFICES ASSUME tasks = <<>>, LabelsAreRight
             PROVE  With("DISALLOWED_GOTO_TARGET")
                       = {g \in Gotos : ~LegalGoto(g) /\ g \notin With("UNDEFINED_LABEL")}
  BY DEF GotosAreExact
<1>1. /\ IsTree(tree) /\ BlocksRight(tree) /\ GotosRight(tree, tasks, errors) /\ ErrorsRight
  BY DEF Right, Coherence, Coherent, Labelling
<1>2. /\ Nodes = 1 .. Len(tree)
      /\ \A n \in 1 .. Len(tree) :
            /\ Above[n] = Around(tree, tree[n].parent)
            /\ Blocks \cap Above[n] = BlocksAround(tree, n)
            /\ BlockOf(n) = HomeBlock(tree, n)
      /\ \A b, l : Prefixed(b, l) = PrefixedIn(tree, b, l)
  BY <1>1, RulesMean
<1>3. LabelsRight(tree)
  BY <1>2 DEF Blocks, Is, LabelsAreRight, LabelsRight
<1>4. \A code, n : n \in With(code) <=> Reported(errors, code, n)
  BY DEF With, Reported
<1>5. \A n : Reported(errors, "DISALLOWED_GOTO_TARGET", n) => n \in 1 .. Len(tree)
  BY <1>1 DEF ErrorsRight, Reported
<1>6. \A g : g \in Gotos <=> g \in 1 .. Len(tree) /\ tree[g].form = "goto"
  BY <1>2 DEF Gotos, Is
<1>7. ASSUME NEW g \in 1 .. Len(tree), tree[g].form = "goto"
      PROVE  LegalGoto(g) <=> Targets(tree, g) # {} /\ Seen(tree, <<>>, g, tree[g].arg)
  <2> DEFINE l == tree[g].arg
             S == Targets(tree, g)
             D == {b \in Blocks \cap Above[g] : l \in tree[b].labels}
             Reached == \E s \in PrefixedIn(tree, Innermost(S), l) :
                            s \in Around(tree, g) \/ (tree[s].inSequence /\ tree[s].parent \in Around(tree, tree[g].parent))
  <2>1. D = S
    BY <1>2 DEF Targets
  <2>2. Around(tree, g) = Above[g] \cup {g}
    BY <1>1, <1>2, Unfold
  <2>3. LegalGoto(g) <=>
           /\ D # {}
           /\ \E s \in Prefixed(Innermost(D), l) :
                 s \in Above[g] \cup {g} \/ (tree[s].inSequence /\ tree[s].parent \in Above[g])
    BY DEF LegalGoto
  <2> HIDE DEF D
  <2>4. LegalGoto(g) <=> S # {} /\ Reached
    BY <1>2, <2>1, <2>2, <2>3
  <2>5. S # {} => (Reached <=> Seen(tree, <<>>, g, l))
    BY <1>1, <1>3, <1>7, SeenTarget, TargetSeen
  <2>6. QED BY <2>4, <2>5
<1>8. ASSUME NEW g \in 1 .. Len(tree), tree[g].form = "goto"
      PROVE  Reported(errors, "UNDEFINED_LABEL", g) <=> Targets(tree, g) = {}
  BY <1>3, <1>8, <1>1 DEF LabelsRight, Undeclared, GotosRight
<1>9. \A g \in 1 .. Len(tree) : Reported(errors, "DISALLOWED_GOTO_TARGET", g) <=>
         tree[g].form = "goto" /\ Targets(tree, g) # {} /\ ~Seen(tree, <<>>, g, tree[g].arg)
  BY <1>1 DEF GotosRight
<1>10. \A g : Reported(errors, "DISALLOWED_GOTO_TARGET", g) <=>
          g \in Gotos /\ ~LegalGoto(g) /\ ~Reported(errors, "UNDEFINED_LABEL", g)
  BY <1>5, <1>6, <1>7, <1>8, <1>9
<1> DEFINE B == With("DISALLOWED_GOTO_TARGET")
           C == {g \in Gotos : ~LegalGoto(g) /\ g \notin With("UNDEFINED_LABEL")}
<1>11. \A g : g \in B <=> g \in C
  BY <1>4, <1>10
<1>12. B = C
  <2>1. \A g \in B : g \in C
    BY <1>11
  <2>2. \A g \in C : g \in B
    BY <1>11
  <2> HIDE DEF B, C
  <2>3. QED BY <2>1, <2>2
<1>13. QED BY <1>12

(* The one pass over the statements, with the sets of allowed targets that *)
(* StatementBuilder hands down and the labels each block hides, reports    *)
(* exactly the goto statements that ISO 7185 disallows, in every program   *)
(* whose labels are right.                                                 *)
THEOREM StatementGotos == Spec => []GotosAreExact
<1>1. Right /\ Labelling => GotosAreExact
  BY GotosMean
<1>2. QED BY <1>1, LabellingAlways, PTL

-----------------------------------------------------------------------------
(* References.                                                             *)

DeclaresIn(t, m, x) ==
    IF t[m].form = "block" THEN t[m].names[x] # "none"
    ELSE t[m].form = "with" /\ t[m].fine /\ \E k \in DOMAIN t[m].arg : x \in t[m].arg[k]
DeclaringIn(t, n, x) == {m \in Around(t, n) : DeclaresIn(t, m, x)}
LabellingIn(t, n, l) == {m \in Around(t, n) : t[m].form = "block" /\ l \in t[m].labels}
AfterIn(t, m, x) ==
    IF t[m].form = "block" THEN 0
    ELSE Len(t[m].arg) - Innermost({j \in DOMAIN t[m].arg : x \in t[m].arg[j]})

(* From inside node n, scope index k leads to the declaration of x, or to  *)
(* the block that declares the label l.                                    *)
LeadsTo(t, n, k, x) ==
    LET m == Innermost(DeclaringIn(t, n, x))
    IN  DeclaringIn(t, n, x) # {} /\ k = (Deep(t, n) - Deep(t, m)) + AfterIn(t, m, x)
LeadsToLabel(t, n, k, l) ==
    LET m == Innermost(LabellingIn(t, n, l))
    IN  LabellingIn(t, n, l) # {} /\ k = Deep(t, n) - Deep(t, m)

(* What node n refers to is where it leads.                                *)
RefersHome(t, n) ==
    /\ t[n].form \in Accessing => \A k \in t[n].refers : LeadsTo(t, t[n].parent, k, t[n].arg)
    /\ t[n].form = "goto" => \A k \in t[n].refers : LeadsToLabel(t, t[n].parent, k, t[n].arg)
Referring(t) == \A n \in 1 .. Len(t) : RefersHome(t, n)

(* Whatever is around a node with something inside has something inside.   *)
LEMMA AroundInhabited ==
    ASSUME NEW t, IsTree(t), NEW n \in 1 .. Len(t), Inhabited(t, n), NEW m \in Around(t, n)
    PROVE  Inhabited(t, m)
<1> DEFINE P == {i \in 1 .. Len(t) : \A j \in Around(t, i) : j # i => Inhabited(t, j)}
<1>1. Len(t) \in Nat
  BY SequentialMeans DEF IsTree
<1>2. ASSUME NEW i \in 1 .. Len(t), \A k \in 1 .. i - 1 : k \in P PROVE i \in P
  <2>1. /\ t[i].parent \in 0 .. i - 1 /\ t[i].parent \in 0 .. Len(t)
        /\ Around(t, i) = {i} \cup Around(t, t[i].parent)
    BY Unfold
  <2>2. CASE t[i].parent = 0
    BY <2>1, <2>2, Root
  <2>3. CASE t[i].parent # 0
    BY <2>1, <2>3, <1>2 DEF IsTree, IsNode
  <2>4. QED BY <2>2, <2>3
<1>3. 1 .. Len(t) \subseteq P
  <2> HIDE DEF P
  <2>1. QED BY <1>1, <1>2, Induction
<1>4. QED BY <1>3

(* The scopes of two nodes around a third are in the order of the nodes.   *)
LEMMA PlacesOrdered ==
    ASSUME NEW t, IsTree(t), NEW n \in 0 .. Len(t), NEW m \in Around(t, n), NEW k \in Around(t, n),
           NEW i \in 1 .. OpensIn(t, m), NEW j \in 1 .. OpensIn(t, k), Place(t, k, j) <= Place(t, m, i)
    PROVE  k <= m
<1>1. m \in 1 .. Len(t) /\ k \in 1 .. Len(t)
  BY Placed
<1>2. /\ Deep(t, m) = OpensIn(t, m) + Deep(t, t[m].parent)
      /\ OpensIn(t, m) \in Nat /\ Deep(t, t[m].parent) \in Nat /\ m \in Nat
  BY <1>1, Unfold
<1>3. OpensIn(t, k) \in Nat /\ Deep(t, t[k].parent) \in Nat /\ k \in Nat
  BY <1>1, Unfold
<1>4. CASE m < k
  BY <1>4, Ordered, <1>2, <1>3 DEF Place
<1>5. QED BY <1>2, <1>3, <1>4

(* Scope::lookup() leads to the innermost declaration.                     *)
LEMMA Meant ==
    ASSUME Coherence, tasks # <<>>, Home(Task) # 0, Inhabited(tree, Home(Task)),
           NEW x \in Names, Declaring(x) # {}
    PROVE  /\ LeadsTo(tree, Home(Task), Least(Declaring(x)), x)
           /\ scopes[At(Least(Declaring(x)))].node = Innermost(DeclaringIn(tree, Home(Task), x))
<1> DEFINE h == Home(Task)
           k == Least(Declaring(x))
           p == At(k)
           D == DeclaringIn(tree, h, x)
<1>1. /\ IsTree(tree) /\ h \in 0 .. Len(tree) /\ Len(scopes) = Deep(tree, h) /\ Len(scopes) \in Nat
      /\ Stacked(Names, tree, scopes, h) /\ Len(tree) \in Nat
  BY Here
<1>2. \A i \in Declaring(x) : i \in Indices /\ Parent(i).names[x] # "none"
  BY DEF Declaring
<1>3. k \in Declaring(x) /\ \A i \in Declaring(x) : k <= i
  <2>1. Declaring(x) \subseteq Nat
    BY <1>1 DEF Declaring, Indices
  <2>2. QED BY <2>1, LeastOf
<1>4. p \in 1 .. Len(scopes) /\ scopes[p].names[x] # "none" /\ p = Len(scopes) - k /\ k \in Nat
  BY <1>2, <1>3, Index DEF At
<1> HIDE DEF k
<1>5. ASSUME NEW q \in 1 .. Len(scopes), scopes[q].names[x] # "none" PROVE q <= p
  <2> DEFINE i == Len(scopes) - q
  <2>1. i \in Indices /\ Parent(i) = scopes[q]
    BY Position
  <2>2. i \in Declaring(x)
    BY <1>5, <2>1 DEF Declaring
  <2> HIDE DEF i
  <2>3. k <= i
    BY <1>3, <2>2
  <2>4. QED BY <1>1, <1>4, <2>3 DEF i
<1> HIDE DEF h, p
<1>6. \E m \in Around(tree, h) : \E j \in 1 .. OpensIn(tree, m) :
         p = Place(tree, m, j) /\ ScopeOf(Names, tree, scopes[p], m, j)
  BY <1>4, Alive DEF h
<1>7. PICK m \in Around(tree, h) : \E j \in 1 .. OpensIn(tree, m) :
         p = Place(tree, m, j) /\ ScopeOf(Names, tree, scopes[p], m, j)
  BY <1>6
<1>8. PICK j \in 1 .. OpensIn(tree, m) : p = Place(tree, m, j) /\ ScopeOf(Names, tree, scopes[p], m, j)
  BY <1>7
<1>9. \A n \in Around(tree, h) : n \in 1 .. Len(tree) /\ n \in 1 .. h /\ Inhabited(tree, n)
  BY <1>1, Lines, AroundInhabited DEF Line, h
<1>10. \A n \in Around(tree, h) : tree[n].form = "with" =>
          tree[n].fine /\ OpensIn(tree, n) = Len(tree[n].arg) /\ DOMAIN tree[n].arg = 1 .. Len(tree[n].arg)
  <2>1. ASSUME NEW n \in Around(tree, h), tree[n].form = "with"
        PROVE  tree[n].fine /\ OpensIn(tree, n) = Len(tree[n].arg) /\ DOMAIN tree[n].arg = 1 .. Len(tree[n].arg)
    BY <1>1, <1>9, <2>1, SequentialMeans DEF IsTree, IsNode, Inhabited, OpensIn
  <2>2. QED BY <2>1
<1>11. m \in D
  <2>1. CASE tree[m].form = "block"
    BY <1>4, <1>8, <2>1 DEF DeclaringIn, DeclaresIn, ScopeOf
  <2>2. CASE tree[m].form # "block"
    BY <1>8, <2>2, <1>4, <1>10 DEF OpensIn, ScopeOf, DeclaringIn, DeclaresIn
  <2>3. QED BY <2>1, <2>2
<1>12. ASSUME NEW n \in Around(tree, h), NEW i \in 1 .. OpensIn(tree, n),
              tree[n].form = "block" => tree[n].names[x] # "none",
              tree[n].form # "block" => x \in tree[n].arg[i]
       PROVE  Place(tree, n, i) <= p
  <2> DEFINE q == Place(tree, n, i)
  <2>1. q \in 1 .. Len(scopes)
    BY <1>1, Placed
  <2>2. ScopeOf(Names, tree, scopes[q], n, i)
    BY <1>1 DEF Stacked
  <2> HIDE DEF q
  <2>3. scopes[q].names[x] # "none"
    BY <1>12, <2>2 DEF ScopeOf
  <2>4. q <= p
    BY <1>5, <2>1, <2>3
  <2>5. QED BY <2>4 DEF q
<1>13. ASSUME NEW n \in D PROVE n <= m
  <2>1. n \in Around(tree, h) /\ DeclaresIn(tree, n, x)
    BY DEF DeclaringIn
  <2>2. \E i \in 1 .. OpensIn(tree, n) : Place(tree, n, i) <= p
    <3>1. CASE tree[n].form = "block"
      BY <3>1, <1>12, <2>1 DEF OpensIn, DeclaresIn
    <3>2. CASE tree[n].form # "block"
      <4>1. tree[n].form = "with" /\ \E i \in DOMAIN tree[n].arg : x \in tree[n].arg[i]
        BY <2>1, <3>2 DEF DeclaresIn
      <4>2. PICK i \in DOMAIN tree[n].arg : x \in tree[n].arg[i]
        BY <4>1
      <4>3. i \in 1 .. OpensIn(tree, n)
        BY <1>10, <2>1, <4>1
      <4>4. QED BY <1>12, <2>1, <3>2, <4>2, <4>3
    <3>3. QED BY <3>1, <3>2
  <2>3. QED BY <1>1, <1>7, <1>8, <2>1, <2>2, PlacesOrdered
<1>14. m = Innermost(D)
  <2>1. D \subseteq 0 .. h /\ h \in Nat /\ D # {} /\ m \in Nat
    BY <1>1, <1>9, <1>11 DEF DeclaringIn
  <2> HIDE DEF D
  <2> DEFINE z == Innermost(D)
  <2>2. z \in D /\ m <= z
    BY <1>11, <2>1, InnermostOf
  <2> HIDE DEF z
  <2>3. z <= m
    BY <1>13, <2>2
  <2>4. z \in Nat
    BY <2>1, <2>2
  <2>5. z = m
    BY <2>1, <2>2, <2>3, <2>4
  <2>6. QED BY <2>5 DEF z
<1>15. /\ Deep(tree, m) = OpensIn(tree, m) + Deep(tree, tree[m].parent)
       /\ OpensIn(tree, m) \in Nat /\ Deep(tree, tree[m].parent) \in Nat
  BY <1>1, <1>9, Unfold
<1>16. AfterIn(tree, m, x) = OpensIn(tree, m) - j
  <2>1. CASE tree[m].form = "block"
    BY <2>1 DEF OpensIn, AfterIn
  <2>2. CASE tree[m].form # "block"
    <3> DEFINE J == {i \in DOMAIN tree[m].arg : x \in tree[m].arg[i]}
    <3>1. tree[m].form = "with"
      BY <1>8, <2>2 DEF OpensIn
    <3>2. OpensIn(tree, m) = Len(tree[m].arg) /\ DOMAIN tree[m].arg = 1 .. Len(tree[m].arg)
      BY <1>10, <3>1
    <3>3. j \in J
      BY <1>4, <1>8, <2>2, <3>2 DEF ScopeOf
    <3>4. ASSUME NEW i \in J PROVE i <= j
      BY <3>2, <1>12, <2>2, <1>8, <1>15 DEF Place
    <3>5. J \subseteq 0 .. OpensIn(tree, m)
      BY <1>15, <3>2
    <3>6. AfterIn(tree, m, x) = OpensIn(tree, m) - Innermost(J)
      BY <2>2, <3>2 DEF AfterIn
    <3> HIDE DEF J
    <3> DEFINE z == Innermost(J)
    <3>7. z \in J /\ j <= z
      BY <1>15, <3>3, <3>5, InnermostOf
    <3> HIDE DEF z
    <3>8. z <= j
      BY <3>4, <3>7
    <3>9. z \in Nat /\ j \in Nat
      BY <1>15, <3>3, <3>5, <3>7
    <3>10. z = j
      BY <3>7, <3>8, <3>9
    <3>11. QED BY <3>6, <3>10 DEF z
  <2>3. QED BY <2>1, <2>2
<1>17. k = (Deep(tree, h) - Deep(tree, m)) + AfterIn(tree, m, x)
  <2>1. p = Deep(tree, tree[m].parent) + j /\ p = Deep(tree, h) - k
    BY <1>1, <1>4, <1>8 DEF Place
  <2>2. Deep(tree, h) \in Nat /\ j \in Nat
    BY <1>1, <1>15
  <2>3. k \in Int
    BY <1>4
  <2>4. QED BY ONLY <1>15, <1>16, <2>1, <2>2, <2>3
<1>18. LeadsTo(tree, h, k, x)
  BY <1>11, <1>14, <1>17 DEF LeadsTo
<1>19. scopes[p].node = Innermost(D)
  BY <1>8, <1>14 DEF ScopeOf
<1>20. QED BY <1>18, <1>19 DEF h, k, p

(* And so does the way to a label.                                         *)
LEMMA MeantLabel ==
    ASSUME Coherence, tasks # <<>>, NEW l, LabelledBlocks(l) # {}
    PROVE  LeadsToLabel(tree, Home(Task), Least(LabelledBlocks(l)), l)
<1> DEFINE h == Home(Task)
           k == Least(LabelledBlocks(l))
           p == At(k)
           b == scopes[p].node
           D == LabellingIn(tree, h, l)
<1>1. /\ IsTree(tree) /\ h \in 0 .. Len(tree) /\ Len(scopes) = Deep(tree, h) /\ Len(scopes) \in Nat
      /\ Stacked(Names, tree, scopes, h) /\ Len(tree) \in Nat
  BY Here
<1>2. \A i \in LabelledBlocks(l) : i \in Indices /\ Parent(i).kind = "block" /\ l \in DOMAIN Parent(i).labels
  BY DEF LabelledBlocks, BlockIndices
<1>3. k \in LabelledBlocks(l) /\ \A i \in LabelledBlocks(l) : k <= i
  <2>1. LabelledBlocks(l) \subseteq Nat
    BY <1>1 DEF LabelledBlocks, BlockIndices, Indices
  <2>2. QED BY <2>1, LeastOf
<1>4. /\ p \in 1 .. Len(scopes) /\ scopes[p].kind = "block" /\ l \in DOMAIN scopes[p].labels
      /\ p = Len(scopes) - k /\ k \in Nat
  BY <1>2, <1>3, Index DEF At
<1> HIDE DEF k
<1>5. /\ b \in Around(tree, h) /\ b \in 1 .. Len(tree) /\ tree[b].form = "block"
      /\ p = Place(tree, b, 1) /\ l \in tree[b].labels
  BY <1>4, Alive
<1> HIDE DEF h, b, p
<1>6. p = Deep(tree, b) /\ 1 \in 1 .. OpensIn(tree, b)
  BY <1>1, <1>5, BlockPlace
<1>7. b \in D
  BY <1>5 DEF LabellingIn
<1>8. ASSUME NEW c \in D PROVE c <= b
  <2> DEFINE q == Place(tree, c, 1)
             i == Len(scopes) - q
  <2>1. c \in Around(tree, h) /\ tree[c].form = "block" /\ l \in tree[c].labels
    BY DEF LabellingIn
  <2>2. q \in 1 .. Len(scopes) /\ 1 \in 1 .. OpensIn(tree, c)
    BY <1>1, <2>1, BlockPlace
  <2>3. ScopeOf(Names, tree, scopes[q], c, 1)
    BY <1>1, <2>1, <2>2 DEF Stacked
  <2> HIDE DEF q
  <2>4. i \in Indices /\ Parent(i) = scopes[q]
    BY <2>2, Position
  <2>5. i \in LabelledBlocks(l)
    BY <2>1, <2>3, <2>4 DEF LabelledBlocks, BlockIndices, ScopeOf
  <2> HIDE DEF i
  <2>6. k <= i
    BY <1>3, <2>5
  <2>7. q <= p
    BY <1>1, <1>4, <2>2, <2>6 DEF i
  <2>8. Place(tree, c, 1) <= Place(tree, b, 1)
    BY <1>5, <2>7 DEF q
  <2>9. QED BY <1>1, <1>5, <1>6, <2>1, <2>2, <2>8, PlacesOrdered
<1>9. b = Innermost(D)
  <2>1. D \subseteq 0 .. h /\ h \in Nat /\ b \in Nat
    BY <1>1, <1>5, Lines DEF LabellingIn, Line
  <2> HIDE DEF D
  <2> DEFINE z == Innermost(D)
  <2>2. z \in D /\ b <= z
    BY <1>7, <2>1, InnermostOf
  <2> HIDE DEF z
  <2>3. z <= b
    BY <1>8, <2>2
  <2>4. z \in Nat
    BY <2>1, <2>2
  <2>5. z = b
    BY <2>1, <2>2, <2>3, <2>4
  <2>6. QED BY <2>5 DEF z
<1>10. k = Deep(tree, h) - Deep(tree, b)
  BY <1>1, <1>4, <1>6
<1>11. LeadsToLabel(tree, h, k, l)
  BY <1>7, <1>9, <1>10 DEF LeadsToLabel
<1>12. QED BY <1>11 DEF h, k

(* A longer tree changes none of this.                                     *)
LEMMA LeadsStable ==
    ASSUME NEW t, NEW u, Grows(t, u), NEW p \in 0 .. Len(t), NEW x
    PROVE  /\ DeclaringIn(u, p, x) = DeclaringIn(t, p, x)
           /\ LabellingIn(u, p, x) = LabellingIn(t, p, x)
           /\ \A k : LeadsTo(u, p, k, x) <=> LeadsTo(t, p, k, x)
           /\ \A k : LeadsToLabel(u, p, k, x) <=> LeadsToLabel(t, p, k, x)
<1>1. /\ Around(u, p) = Around(t, p) /\ Deep(u, p) = Deep(t, p)
      /\ IsTree(t) /\ Len(t) \in Nat /\ p \in Nat
  BY Stable, SequentialMeans DEF Grows, IsTree
<1>2. Around(t, p) \subseteq 1 .. p
  BY <1>1, Lines DEF Line
<1>3. ASSUME NEW m \in Around(t, p)
      PROVE  m \in 0 .. p /\ u[m] = t[m] /\ Deep(u, m) = Deep(t, m)
  BY <1>2, <1>1, Stable
<1> DEFINE D == DeclaringIn(t, p, x)
           L == LabellingIn(t, p, x)
<1>4. DeclaringIn(u, p, x) = D
  BY <1>3, <1>1 DEF DeclaresIn, DeclaringIn
<1>5. LabellingIn(u, p, x) = L
  BY <1>1, <1>3 DEF LabellingIn
<1>6. ASSUME NEW S \in {D, L}, S # {}
      PROVE  /\ Deep(u, Innermost(S)) = Deep(t, Innermost(S))
             /\ u[Innermost(S)] = t[Innermost(S)]
  BY <1>3, <1>1, <1>6, InnermostOf DEF DeclaringIn, LabellingIn
<1>7. D # {} => AfterIn(u, Innermost(D), x) = AfterIn(t, Innermost(D), x)
  BY <1>6 DEF AfterIn
<1> HIDE DEF D, L
<1>8. ASSUME NEW k PROVE LeadsTo(u, p, k, x) <=> LeadsTo(t, p, k, x)
  BY <1>4, <1>1, <1>6, <1>7 DEF LeadsTo, D
<1>9. ASSUME NEW k PROVE LeadsToLabel(u, p, k, x) <=> LeadsToLabel(t, p, k, x)
  BY <1>5, <1>1, <1>6 DEF LeadsToLabel, L
<1>10. QED BY <1>4, <1>5, <1>8, <1>9 DEF D, L

LEMMA ReferringStable ==
    ASSUME NEW t, NEW u, Grows(t, u), Referring(t)
    PROVE  \A n \in 1 .. Len(t) : RefersHome(u, n)
<1>1. IsTree(t) /\ Len(t) \in Nat
  BY SequentialMeans DEF Grows, IsTree
<1>2. ASSUME NEW n \in 1 .. Len(t) PROVE RefersHome(u, n)
  BY <1>1, Unfold, LeadsStable DEF Grows, Referring, RefersHome
<1>3. QED BY <1>2

(* What a statement refers to is found from where it stands.               *)
LEMMA StatementRefers ==
    ASSUME Coherence, IsVocabulary(vocabulary), StatementAction, Referring(tree)
    PROVE  Referring(tree')
<1>1. Doing("statement") /\ StatementStep
  BY StatementSteps
<1>2. PICK form, arg, refers, fine, errs, ns, inside :
         /\ Resolve(form, arg, refers, fine, errs, ns, inside)
         /\ Resolved(form, arg, refers, fine, errs, ns, inside)
  BY <1>1 DEF StatementStep
<1> DEFINE u == tree'
           h == Task.parent
<1>3. /\ Grows(tree, u) /\ Id = Len(tree) + 1 /\ Id \in Nat /\ Len(u) = Id
      /\ u[Id].form = form /\ u[Id].parent = h /\ u[Id].arg = arg /\ u[Id].refers = refers
      /\ h \in 1 .. Len(tree) /\ Inhabited(tree, h)
  BY <1>1, <1>2, StatementNode
<1>4. tasks # <<>> /\ Home(Task) = h /\ Len(tree) \in Nat
  BY <1>1, Prefixing, Here DEF Doing
<1>5. h # 0 /\ h \in 0 .. Len(tree)
  BY <1>3, <1>4
<1> HIDE DEF u, h
<1>6. form \in Accessing => \A k \in refers : LeadsTo(tree, h, k, arg)
  <2>1. ASSUME form \in Accessing, NEW k \in refers PROVE LeadsTo(tree, h, k, arg)
    <3>1. Ordinary(form, arg, refers, fine, errs, ns, inside)
      <4>1. form # "goto" /\ form # "with"
        BY <2>1 DEF Accessing
      <4>2. ~Going(form, arg, refers, fine, errs, ns, inside)
        BY <4>1 DEF Going
      <4>3. ~Opening(form, arg, refers, fine, errs, ns, inside)
        BY <4>1, Zenon DEF Opening
      <4>4. QED BY <1>2, <4>2, <4>3 DEF Resolved
    <3>2. arg \in Names /\ Declaring(arg) # {} /\ k = Least(Declaring(arg))
      BY <2>1, <3>1 DEF Ordinary
    <3>3. LeadsTo(tree, Home(Task), Least(Declaring(arg)), arg)
      BY <1>3, <1>4, <1>5, <3>2, Meant
    <3>4. QED BY <1>4, <3>2, <3>3
  <2>2. QED BY <2>1
<1>7. form = "goto" => \A k \in refers : LeadsToLabel(tree, h, k, arg)
  <2>1. ASSUME form = "goto", NEW k \in refers PROVE LeadsToLabel(tree, h, k, arg)
    <3>1. Going(form, arg, refers, fine, errs, ns, inside)
      <4>1. ~Ordinary(form, arg, refers, fine, errs, ns, inside)
        BY <2>1 DEF Ordinary
      <4>2. ~Opening(form, arg, refers, fine, errs, ns, inside)
        BY <2>1, Zenon DEF Opening
      <4>3. QED BY <1>2, <4>1, <4>2 DEF Resolved
    <3>2. LabelledBlocks(arg) # {} /\ k = Least(LabelledBlocks(arg))
      BY <2>1, <3>1 DEF Going
    <3>3. LeadsToLabel(tree, Home(Task), Least(LabelledBlocks(arg)), arg)
      BY <1>4, <3>2, MeantLabel
    <3>4. QED BY <1>4, <3>2, <3>3
  <2>2. QED BY <2>1
<1>8. \A k : /\ LeadsTo(u, h, k, arg) <=> LeadsTo(tree, h, k, arg)
             /\ LeadsToLabel(u, h, k, arg) <=> LeadsToLabel(tree, h, k, arg)
  BY <1>3, <1>5, LeadsStable
<1>9. RefersHome(u, Id)
  BY <1>3, <1>6, <1>7, <1>8 DEF RefersHome
<1>10. \A n \in 1 .. Len(tree) : RefersHome(u, n)
  BY <1>3, ReferringStable
<1>11. \A n \in 1 .. Len(u) : n \in 1 .. Len(tree) \/ n = Id
  BY <1>3, <1>4
<1>12. Referring(u)
  BY <1>9, <1>10, <1>11 DEF Referring
<1>13. QED BY <1>12 DEF u

LEMMA BlockRefers ==
    ASSUME Coherence, IsVocabulary(vocabulary), BuildBlock, Referring(tree)
    PROVE  Referring(tree')
<1>1. Doing("block") /\ BlockStep
  BY BlockSteps
<1>2. PICK uses, labels, repeated, body, e : Building(uses, labels, repeated, body, e)
  BY <1>1 DEF BlockStep
<1>3. /\ Grows(tree, tree') /\ Id = Len(tree) + 1 /\ Id \in Nat /\ Len(tree') = Id
      /\ tree'[Id] = e /\ BlockNode(e, uses, labels, repeated)
  BY <1>1, <1>2, BlockTree
<1>4. RefersHome(tree', Id)
  BY <1>3 DEF BlockNode, RefersHome, Accessing
<1>5. \A n \in 1 .. Len(tree) : RefersHome(tree', n)
  BY <1>3, ReferringStable
<1>6. Len(tree) \in Nat
  BY <1>1, Here DEF Doing
<1>7. \A n \in 1 .. Len(tree') : n \in 1 .. Len(tree) \/ n = Id
  BY <1>3, <1>6
<1>8. QED BY <1>4, <1>5, <1>7 DEF Referring

LEMMA ReferringAlways == Spec => [](Right /\ Referring(tree))
<1>1. Init => Referring(tree)
  BY EmptySequence DEF Init, Referring
<1>2. Right /\ Referring(tree) /\ [Next]_vars => Referring(tree)'
  <2> SUFFICES ASSUME Right, Referring(tree), [Next]_vars PROVE Referring(tree')
    OBVIOUS
  <2>1. Coherence /\ IsVocabulary(vocabulary)
    BY VocabulariesAssumption DEF Right
  <2>2. CASE StatementAction
    BY <2>1, <2>2, StatementRefers
  <2>3. CASE BuildBlock
    BY <2>1, <2>3, BlockRefers
  <2>4. CASE LeaveWith \/ LeaveBlock \/ DeclareSubroutine
    BY <2>4 DEF LeaveWith, LeaveBlock, DeclareSubroutine
  <2>5. CASE UNCHANGED vars \/ Done
    BY <2>5 DEF vars, Done, analysis
  <2>6. QED BY <2>2, <2>3, <2>4, <2>5 DEF Next, StatementAction
<1>3. QED BY <1>1, <1>2, RightAlways, PTL DEF Spec

(* In the words of the rules.                                              *)
LEMMA ReferencesMean ==
    ASSUME Right, Referring(tree)
    PROVE  ReferencesLeadHome
<1>1. IsTree(tree)
  BY DEF Right, Coherence, Coherent
<1>2. /\ Nodes = 1 .. Len(tree)
      /\ \A n \in 1 .. Len(tree) : Above[n] = Around(tree, tree[n].parent)
      /\ \A n \in 1 .. Len(tree) : Blocks \cap Above[n] = BlocksAround(tree, n)
  BY <1>1, RulesMean
<1>3. Depth = DepthIn(tree)
  BY DEF Depth, DepthIn, Opens, OpensIn, Nodes, Is
<1>4. ASSUME NEW n \in 1 .. Len(tree), NEW p \in Around(tree, tree[n].parent)
      PROVE  /\ p \in 1 .. Len(tree) /\ p \in 0 .. Len(tree)
             /\ tree[n].parent # 0
             /\ Distance(n, p) = Deep(tree, tree[n].parent) - Deep(tree, p)
  BY <1>1, Unfold, SequentialMeans, Lines, <1>3 DEF IsTree, Line, Distance, Deep
<1>5. ASSUME NEW n \in 1 .. Len(tree), NEW x
      PROVE  DeclaringNodes(n, x) = DeclaringIn(tree, tree[n].parent, x)
  BY <1>2 DEF Declares, DeclaresIn, Is, DeclaringNodes, DeclaringIn
<1>6. ASSUME NEW m, NEW x PROVE After(m, x) = AfterIn(tree, m, x)
  BY DEF After, AfterIn, Is
<1>7. ASSUME NEW n \in Accesses, NEW k \in tree[n].refers
      PROVE  k = Distance(n, Meaning(n, tree[n].arg)) + After(Meaning(n, tree[n].arg), tree[n].arg)
  <2> DEFINE x == tree[n].arg
             D == DeclaringIn(tree, tree[n].parent, x)
             m == Innermost(D)
  <2>1. n \in 1 .. Len(tree) /\ tree[n].form \in Accessing
    BY <1>2 DEF Accesses, Accessing
  <2>2. D # {} /\ k = (Deep(tree, tree[n].parent) - Deep(tree, m)) + AfterIn(tree, m, x)
    BY <1>7, <2>1 DEF Referring, RefersHome, LeadsTo
  <2>3. Meaning(n, x) = m
    BY <1>5, <2>1, <2>2 DEF Meaning
  <2>4. m \in Around(tree, tree[n].parent)
    <3>1. D \subseteq Around(tree, tree[n].parent)
      BY DEF DeclaringIn
    <3>2. tree[n].parent \in 0 .. Len(tree)
      BY <1>1, <2>1, Unfold
    <3>3. D \subseteq 0 .. tree[n].parent /\ tree[n].parent \in Nat
      BY <1>1, <3>1, <3>2, Lines, SequentialMeans DEF Line, IsTree
    <3> HIDE DEF D
    <3>4. QED BY <2>2, <3>1, <3>3, InnermostOf
  <2> HIDE DEF m, x
  <2>5. Distance(n, m) = Deep(tree, tree[n].parent) - Deep(tree, m)
    BY <1>4, <2>1, <2>4
  <2>6. After(m, x) = AfterIn(tree, m, x)
    BY <1>6
  <2>7. QED BY <2>2, <2>3, <2>5, <2>6 DEF x
<1>8. ASSUME NEW n \in Gotos, NEW k \in tree[n].refers
      PROVE  k = Distance(n, Innermost({b \in Blocks \cap Above[n] : tree[n].arg \in tree[b].labels}))
  <2> DEFINE l == tree[n].arg
             D == LabellingIn(tree, tree[n].parent, l)
             m == Innermost(D)
  <2>1. n \in 1 .. Len(tree) /\ tree[n].form = "goto"
    BY <1>2 DEF Gotos, Is
  <2>2. D # {} /\ k = Deep(tree, tree[n].parent) - Deep(tree, m)
    BY <1>8, <2>1 DEF Referring, RefersHome, LeadsToLabel
  <2>3. {b \in Blocks \cap Above[n] : l \in tree[b].labels} = D
    BY <1>2, <2>1 DEF BlocksAround, LabellingIn
  <2>4. m \in Around(tree, tree[n].parent)
    <3>1. D \subseteq Around(tree, tree[n].parent)
      BY DEF LabellingIn
    <3>2. tree[n].parent \in 0 .. Len(tree)
      BY <1>1, <2>1, Unfold
    <3>3. D \subseteq 0 .. tree[n].parent /\ tree[n].parent \in Nat
      BY <1>1, <3>1, <3>2, Lines, SequentialMeans DEF Line, IsTree
    <3> HIDE DEF D
    <3>4. QED BY <2>2, <3>1, <3>3, InnermostOf
  <2>5. Distance(n, m) = Deep(tree, tree[n].parent) - Deep(tree, m)
    BY <1>4, <2>1, <2>4
  <2>6. QED BY <2>2, <2>3, <2>5
<1>9. QED BY <1>7, <1>8 DEF ReferencesLeadHome

(* The scope index that resolveVariableOrFdIdentifier() or the resolution  *)
(* of a goto keeps leads, in every program, from the statement to the      *)
(* innermost block or with statement that declares the name or label.      *)
THEOREM StatementReferences == Spec => []ReferencesLeadHome
<1>1. Right /\ Referring(tree) => ReferencesLeadHome
  BY ReferencesMean
<1>2. QED BY <1>1, ReferringAlways, PTL

-----------------------------------------------------------------------------
(* What a statement says of names: the errors, the threats, the results    *)
(* assigned, and the control variables handed down.                        *)

Least1(x) == Least(Declaring(x))
OwnOrdinal(x) == Least1(x) = ClosestContainingBlock /\ UseOf(x) = "ordinal"

(* It may change a variable.                                               *)
Threatens(form, x) ==
    /\ form \in Accessing /\ IsVariable(UseOf(x))
    /\ form = "read" => tree[1].input
    /\ form = "for" => OwnOrdinal(x)
(* It assigns the result of a function.                                    *)
Assigns(form, x) == form = "assignment" /\ UseOf(x) = "function" /\ IsCurrentFunction(x, Least1(x))
(* It is right beside labels and threats.                                  *)
Fitting(form, x, fine) ==
    /\ fine
    /\ form \in {"read", "readln"} => tree[1].input
    /\ form = "for" => OwnOrdinal(x)
    /\ form \in Accessing \ {"for"} =>
          UseOf(x) \in {"ordinal", "other", "parameter", "field"} \/ Assigns(form, x)

Coded(errs, code) == \E e \in errs : e.code = code /\ e.at = Id
Threat == "THREATENED_CONTROL_VARIABLE"
Elsewhere == {Threat, "DISALLOWED_GOTO_TARGET", "UNDEFINED_LABEL"}
Flawed(errs) == \E e \in errs : e.code \notin Elsewhere /\ e.at = Id

Warns(form, x, errs) ==
    Coded(errs, Threat) <=>
        /\ Threatens(form, x) /\ Least1(x) = ClosestContainingBlock
        /\ x \in Task.used \/ (form = "for" /\ x \in Parent(ClosestContainingBlock).threats)
Notes(form, x, fine, ns) ==
    \A p \in 1 .. Len(scopes) :
        /\ \A y : y \in ns[p].threats <=>
              \/ y \in scopes[p].threats
              \/ /\ y = x /\ Threatens(form, x) /\ Least1(x) # ClosestContainingBlock
                 /\ p = At(Least1(x))
        /\ ns[p].assigned <=>
              scopes[p].assigned \/ (fine /\ Assigns(form, x) /\ p = At(Least1(x) - 1))
Handed(inside, used) ==
    /\ Sequential(inside)
    /\ \A i \in 1 .. Len(inside) :
          \/ inside[i].op = "statement" /\ inside[i].parent = Id /\ inside[i].used = used
          \/ inside[i].op = "leaveWith" /\ inside[i].node = Id
UsedIn(form, x) == IF form = "for" THEN UsedInside(x) ELSE Task.used

Says(form, x, fine, errs, ns, inside) ==
    /\ form # "block" /\ Warns(form, x, errs) /\ Notes(form, x, fine, ns)
    /\ Flawed(errs) <=> ~Fitting(form, x, fine)
    /\ Handed(inside, UsedIn(form, x))

SayingStep ==
    \E form, x, refers, fine, errs, ns, inside :
        /\ Resolve(form, x, refers, fine, errs, ns, inside)
        /\ Says(form, x, fine, errs, ns, inside)

LEMMA Saying ==
    ASSUME NEW form, NEW x, NEW refers, NEW fine, NEW errs, NEW ns, NEW inside,
           Resolve(form, x, refers, fine, errs, ns, inside),
           form # "block", Warns(form, x, errs), Notes(form, x, fine, ns),
           Flawed(errs) <=> ~Fitting(form, x, fine), Handed(inside, UsedIn(form, x))
    PROVE  SayingStep
BY DEF SayingStep, Says

LEMMA Codings ==
    /\ ~Coded({}, Threat) /\ ~Flawed({})
    /\ \A code : /\ Coded({Err(code)}, Threat) <=> code = Threat
                 /\ Flawed({Err(code)}) <=> code \notin Elsewhere
    /\ \A a, b : /\ Coded(a \cup b, Threat) <=> Coded(a, Threat) \/ Coded(b, Threat)
                 /\ Flawed(a \cup b) <=> Flawed(a) \/ Flawed(b)
    BY DEF Err, Coded, Flawed

LEMMA Conditional ==
    ASSUME NEW c \in BOOLEAN, NEW code
    PROVE  /\ Coded(ErrIf(c, code), Threat) <=> c /\ code = Threat
           /\ Flawed(ErrIf(c, code)) <=> c /\ code \notin Elsewhere
<1>1. CASE c
  BY <1>1, Codings DEF ErrIf
<1>2. CASE ~c
  BY <1>2, Codings DEF ErrIf
<1>3. QED BY <1>1, <1>2

LEMMA HandedNothing ==
    ASSUME NEW used PROVE Handed(<<>>, used)
    BY EmptySequence DEF Handed

LEMMA HandedSequence ==
    ASSUME IsVocabulary(vocabulary), NEW skeleton \in Skeletons, NEW base, NEW used
    PROVE  Handed(SequenceTasks(skeleton, Id, base, used), used)
<1> DEFINE s == SequenceTasks(skeleton, Id, base, used)
<1>1. Sequenced(s, base) /\ \A k \in 1 .. Len(s) : s[k].used = used
  BY SequenceMeans
<1> HIDE DEF s
<1>2. Handed(s, used)
  BY <1>1 DEF Sequenced, Handed
<1>3. QED BY <1>2 DEF s

LEMMA HandedBranches ==
    ASSUME NEW n \in Nat, NEW labels \in [1 .. n -> LabelChoices], NEW used
    PROVE  Handed(InnerTasks(labels, used), used)
<1> DEFINE s == InnerTasks(labels, used)
<1>1. DOMAIN labels = 1 .. n
  OBVIOUS
<1>2. s = [k \in 1 .. n |-> StatementTask(labels[k], Id, FALSE, Allowed, used)]
  BY <1>1 DEF InnerTasks
<1>3. Sequential(s)
  BY BranchesInside DEF Inner
<1>4. DOMAIN s = 1 .. n /\ DOMAIN s = 1 .. Len(s)
  <2>1. DOMAIN s = 1 .. n
    BY <1>2
  <2> HIDE DEF s
  <2>2. QED BY <1>3, <2>1, SequentialMeans
<1>5. ASSUME NEW k \in 1 .. Len(s)
      PROVE  s[k].op = "statement" /\ s[k].parent = Id /\ s[k].used = used
  <2>1. s[k] = StatementTask(labels[k], Id, FALSE, Allowed, used)
    BY <1>2, <1>4
  <2> HIDE DEF s
  <2>2. s[k].op = "statement" /\ s[k].parent = Id
    BY <2>1 DEF StatementTask
  <2>3. s[k].used = used
    BY <2>1 DEF StatementTask
  <2>4. QED BY <2>2, <2>3
<1> HIDE DEF s
<1>6. Handed(s, used)
  BY <1>3, <1>5 DEF Handed
<1>7. QED BY <1>6 DEF s

LEMMA HandedOne ==
    ASSUME NEW label \in LabelChoices, NEW used
    PROVE  Handed(InnerTasks(<<label>>, used), used)
<1>1. <<label>> \in [1 .. 1 -> LabelChoices]
  OBVIOUS
<1>2. 1 \in Nat
  OBVIOUS
<1> HIDE DEF LabelChoices
<1>3. QED BY <1>1, <1>2, HandedBranches

LEMMA HandedWith ==
    ASSUME NEW body, NEW used, Handed(body, used), NEW n
    PROVE  Handed(body \o <<LeaveTask("leaveWith", Id, "", n)>>, used)
<1> DEFINE leave == LeaveTask("leaveWith", Id, "", n)
           s == body \o <<leave>>
<1>1. leave.op = "leaveWith" /\ leave.node = Id
  BY Zenon DEF LeaveTask
<1> HIDE DEF leave
<1>2. Sequential(body) /\ Sequential(<<leave>>) /\ Len(<<leave>>) = 1 /\ <<leave>>[1] = leave
      /\ Len(body) \in Nat
  BY Single, SequentialMeans DEF Handed
<1>3. /\ Sequential(s) /\ Len(s) = Len(body) + 1
      /\ \A i \in 1 .. Len(body) : s[i] = body[i]
      /\ s[Len(body) + 1] = leave
  <2> DEFINE one == <<leave>>
  <2>1. Sequential(one) /\ Len(one) = 1 /\ one[1] = leave
    BY <1>2
  <2> HIDE DEF one
  <2>2. /\ Sequential(body \o one) /\ Len(body \o one) = Len(body) + Len(one)
        /\ \A i \in 1 .. Len(body) : (body \o one)[i] = body[i]
        /\ \A i \in Len(body) + 1 .. Len(body) + Len(one) : (body \o one)[i] = one[i - Len(body)]
    <3>1. Sequential(body) /\ Sequential(one)
      BY <1>2, <2>1
    <3>2. QED BY <3>1, Joined, ZenonT(40)
  <2>3. Len(body) + 1 \in Len(body) + 1 .. Len(body) + Len(one) /\ (Len(body) + 1) - Len(body) = 1
    BY <1>2, <2>1
  <2>4. (body \o one)[Len(body) + 1] = one[1]
    BY <2>2, <2>3
  <2>5. QED BY <2>1, <2>2, <2>4 DEF one
<1> HIDE DEF s
<1>4. \A i \in 1 .. Len(s) : i \in 1 .. Len(body) \/ i = Len(body) + 1
  BY <1>2, <1>3
<1>5. Handed(s, used)
  BY <1>1, <1>3, <1>4 DEF Handed
<1>6. QED BY <1>5 DEF s, leave

(* The label that prefixes a statement changes nothing of this.            *)
LEMMA NotedPrefixed ==
    ASSUME Coherence, Doing("statement"), NEW p \in 1 .. Len(scopes)
    PROVE  /\ PrefixedScopes[p].threats = scopes[p].threats
           /\ PrefixedScopes[p].assigned = scopes[p].assigned
<1> DEFINE q == At(ClosestContainingBlock)
           l == Task.label
<1>1. tasks # <<>> /\ Home(Task) # 0 /\ Sequential(scopes)
  BY Prefixing, Here
<1>2. q \in 1 .. Len(scopes) /\ DOMAIN scopes[q] = ScopeFields
  BY <1>1, Closest, Alive
<1> HIDE DEF l, q
<1>3. CASE ~FirstPrefix
  BY <1>3 DEF PrefixedScopes
<1>4. CASE FirstPrefix
  <2> DEFINE e == [scopes[q] EXCEPT !.labels = [scopes[q].labels EXCEPT ![l] = Id]]
             ns == [scopes EXCEPT ![q] = e]
  <2>1. PrefixedScopes = ns
    BY <1>4 DEF PrefixedScopes, q, l
  <2>2. ns[q] = e /\ (p # q => ns[p] = scopes[p])
    <3> HIDE DEF e
    <3>1. QED BY <1>1, <1>2, Updated
  <2>3. e.threats = scopes[q].threats /\ e.assigned = scopes[q].assigned
    BY <1>2 DEF ScopeFields
  <2> HIDE DEF e, ns
  <2>4. CASE p = q
    BY <2>1, <2>2, <2>3, <2>4
  <2>5. CASE p # q
    BY <2>1, <2>2, <2>5
  <2>6. QED BY <2>4, <2>5
<1>5. QED BY <1>3, <1>4

(* A statement that accesses nothing.                                      *)
LEMMA QuietStep ==
    ASSUME Coherence, Doing("statement"), NEW form, NEW x, NEW refers, NEW fine, NEW errs, NEW ns,
           NEW inside, Resolve(form, x, refers, fine, errs, ns, inside),
           form \notin Accessing \cup {"block"},
           ~Coded(errs, Threat), Flawed(errs) <=> ~Fitting(form, x, fine),
           Handed(inside, Task.used),
           \A p \in 1 .. Len(scopes) : ns[p] = PrefixedScopes[p]
    PROVE  SayingStep
<1>1. ~Threatens(form, x) /\ ~Assigns(form, x) /\ form # "for" /\ form # "block"
  BY DEF Threatens, Assigns, Accessing
<1>2. Warns(form, x, errs)
  BY <1>1 DEF Warns
<1>3. Notes(form, x, fine, ns)
  BY <1>1, NotedPrefixed DEF Notes
<1>4. Handed(inside, UsedIn(form, x))
  BY <1>1 DEF UsedIn
<1>5. QED BY <1>1, <1>2, <1>3, <1>4, Saying

(* An access that changes nothing.                                         *)
LEMMA HarmlessStep ==
    ASSUME Coherence, Doing("statement"), NEW form \in Accessing, NEW x, NEW refers, NEW fine,
           NEW errs, Resolve(form, x, refers, fine, errs, PrefixedScopes, <<>>),
           ~Threatens(form, x), ~Coded(errs, Threat), Flawed(errs) <=> ~Fitting(form, x, fine),
           ~(fine /\ Assigns(form, x))
    PROVE  SayingStep
    BY NotedPrefixed, HandedNothing, Saying DEF Warns, Notes, Accessing

LEMMA ThreatenNotes ==
    ASSUME Coherence, Doing("statement"), NEW form \in Accessing, NEW x \in Names, NEW fine,
           Threatens(form, x), NEW t, t = Threaten(x, Least1(x), PrefixedScopes)
    PROVE  Notes(form, x, fine, t.scopes) /\ (t.threatened <=> Least1(x) = ClosestContainingBlock /\ x \in Task.used)
<1> DEFINE ps == PrefixedScopes
           k == Least1(x)
           p == At(k)
           new == ps[p].threats \cup {x}
           e == [ps[p] EXCEPT !.threats = new]
           ns == [ps EXCEPT ![p] = e]
<1>1. ~Assigns(form, x)
  BY DEF Threatens, Assigns, IsVariable
<1>2. \A q \in 1 .. Len(scopes) :
         ps[q].threats = scopes[q].threats /\ ps[q].assigned = scopes[q].assigned
  BY NotedPrefixed
<1>3. CASE k = ClosestContainingBlock
  <2>1. t = [threatened |-> x \in Task.used, scopes |-> ps]
    BY <1>3 DEF Threaten
  <2>2. t.scopes = ps /\ (t.threatened = (x \in Task.used))
    BY <2>1
  <2> HIDE DEF ps
  <2>3. QED BY <1>1, <1>2, <1>3, <2>2 DEF Notes
<1>4. CASE k # ClosestContainingBlock
  <2>1. t = [threatened |-> FALSE, scopes |-> ns]
    BY <1>4 DEF Threaten
  <2>2. t.scopes = ns /\ ~t.threatened
    BY <2>1
  <2>3. Declaring(x) # {} /\ tasks # <<>>
    BY Prefixing DEF Threatens, IsVariable, UseOf
  <2>4. k \in Indices
    BY <2>3, Nearest DEF Least1
  <2>5. p \in 1 .. Len(scopes)
    BY <2>3, <2>4, Index
  <2>6. /\ Sequential(ps) /\ Len(ps) = Len(scopes) /\ DOMAIN ps[p] = ScopeFields
    BY <2>5, Prefixing
  <2> HIDE DEF ps, p, k
  <2>7. ns[p] = e /\ \A q \in 1 .. Len(scopes) : q # p => ns[q] = ps[q]
    <3> HIDE DEF e
    <3>1. QED BY <2>5, <2>6, Updated
  <2>8. e.threats = new /\ e.assigned = ps[p].assigned
    BY <2>6 DEF ScopeFields
  <2> HIDE DEF ns, e
  <2>9. Notes(form, x, fine, ns)
    BY <1>1, <1>2, <1>4, <2>5, <2>7, <2>8 DEF Notes, k, p
  <2>10. QED BY <1>4, <2>2, <2>9 DEF k
<1>5. QED BY <1>3, <1>4

LEMMA VariableSays ==
    ASSUME Coherence, Doing("statement"), NEW form \in Accessing \ {"for"}, NEW x \in Names,
           NEW fine \in BOOLEAN, NEW errs, AccessVariable(form, x, fine, errs),
           ~Coded(errs, Threat), Flawed(errs) <=> ~fine, form = "read" => tree[1].input
    PROVE  SayingStep
<1> DEFINE t == Threaten(x, Least1(x), PrefixedScopes)
           more == errs \cup ThreatErrors(t)
<1>1. IsVariable(UseOf(x)) /\ Resolve(form, x, {Least1(x)}, fine, more, t.scopes, <<>>)
  BY DEF AccessVariable, Least1
<1>2. Threatens(form, x)
  BY <1>1 DEF Threatens
<1>3. /\ Notes(form, x, fine, t.scopes)
      /\ t.threatened <=> Least1(x) = ClosestContainingBlock /\ x \in Task.used
  BY <1>2, ThreatenNotes
<1> HIDE DEF t
<1>4. /\ Coded(ThreatErrors(t), Threat) <=> t.threatened
      /\ ~Flawed(ThreatErrors(t))
  <2>1. CASE t.threatened
    BY <2>1, Codings DEF ThreatErrors, ErrIf, Threat, Elsewhere
  <2>2. CASE ~t.threatened
    BY <2>2, Codings DEF ThreatErrors, ErrIf
  <2>3. QED BY <2>1, <2>2
<1>5. Coded(more, Threat) <=> t.threatened
  BY <1>4, Codings
<1>6. Flawed(more) <=> ~fine
  BY <1>4, Codings
<1> HIDE DEF more
<1>7. Warns(form, x, more)
  BY <1>2, <1>3, <1>5 DEF Warns
<1>8. Fitting(form, x, fine) <=> fine
  BY <1>1 DEF IsVariable, Accessing, Fitting
<1>9. Handed(<<>>, UsedIn(form, x)) /\ form # "block"
  BY HandedNothing DEF Accessing
<1>10. QED BY <1>1, <1>3, <1>6, <1>7, <1>8, <1>9, Saying

LEMMA OtherSays ==
    ASSUME Coherence, Doing("statement"), NEW form \in Accessing \ {"for"}, NEW x \in Names,
           NEW illegal, illegal \subseteq {"function", "procedure"},
           form = "assignment" => "function" \notin illegal,
           NEW errs, AccessOther(form, x, illegal, errs),
           ~Coded(errs, Threat), Flawed(errs) <=> (form = "read" /\ ~tree[1].input)
    PROVE  SayingStep
<1>1. form \notin {"readln", "for"}
  BY DEF Accessing
<1>2. ASSUME NEW code \in {"UNDEFINED_IDENTIFIER", "WRONG_IDENTIFIER_KIND"},
             Resolve(form, x, {}, TRUE, {Err(code)}, PrefixedScopes, <<>>),
             ~Fitting(form, x, TRUE), ~Threatens(form, x), ~Assigns(form, x)
      PROVE  SayingStep
  BY Codings, <1>2, HarmlessStep DEF Elsewhere, Threat
<1>3. CASE /\ UseOf(x) = "undefined"
           /\ Resolve(form, x, {}, TRUE, {Err("UNDEFINED_IDENTIFIER")}, PrefixedScopes, <<>>)
  BY <1>1, <1>3, <1>2 DEF Fitting, Threatens, Assigns, IsVariable
<1>4. CASE /\ UseOf(x) \in illegal
           /\ Resolve(form, x, {}, TRUE, {Err("WRONG_IDENTIFIER_KIND")}, PrefixedScopes, <<>>)
  BY <1>1, <1>4, <1>2 DEF Fitting, Threatens, Assigns, IsVariable
<1>5. CASE /\ UseOf(x) \in {"parameter", "field"}
           /\ Resolve(form, x, {Least(Declaring(x))}, TRUE, errs, PrefixedScopes, <<>>)
  BY <1>5, <1>1, HarmlessStep DEF Threatens, Assigns, IsVariable, Fitting
<1>6. QED BY <1>3, <1>4, <1>5 DEF AccessOther

(* The statements that access nothing: their errors are their own.         *)
LEMMA OneFlaw ==
    ASSUME NEW c \in BOOLEAN, NEW code \in Codes \ Elsewhere
    PROVE  ~Coded(ErrIf(c, code), Threat) /\ (Flawed(ErrIf(c, code)) <=> c)
    BY Conditional DEF Elsewhere

LEMMA FlawCodes ==
    /\ {"NON_BOOLEAN_TYPE", "NON_ORDINAL_TYPE", "DUPLICATE_CASE", "NON_RECORD_TYPE", "TYPE_MISMATCH",
        "UNDEFINED_IDENTIFIER", "WRONG_IDENTIFIER_KIND"} \subseteq Codes \ Elsewhere
    /\ Threat \in Elsewhere /\ "DISALLOWED_GOTO_TARGET" \in Elsewhere
    /\ "UNDEFINED_LABEL" \in Elsewhere
BY DEF Codes, Elsewhere, Threat

LEMMA QuietForms ==
    \A form \in {"empty", "readln", "compound", "repeat", "if", "while", "case", "goto", "with"} :
        /\ form \notin Accessing \cup {"block"}
        /\ \A x, fine : Fitting(form, x, fine) <=> fine /\ (form = "readln" => tree[1].input)
BY DEF Accessing, Fitting

LEMMA SimpleSays ==
    ASSUME Coherence, EmptyStatement \/ ReadlnStatement
    PROVE  SayingStep
<1>1. Doing("statement")
  BY DEF EmptyStatement, ReadlnStatement, Resolving
<1>2. Handed(<<>>, Task.used) /\ \A p \in 1 .. Len(scopes) : PrefixedScopes[p] = PrefixedScopes[p]
  BY HandedNothing
<1>3. CASE EmptyStatement
  <2>1. Resolve("empty", "", {}, TRUE, {}, PrefixedScopes, <<>>)
    BY <1>3 DEF EmptyStatement
  <2> DEFINE x == ""
  <2> HIDE DEF x
  <2>2. Resolve("empty", x, {}, TRUE, {}, PrefixedScopes, <<>>)
    BY <2>1, Zenon DEF x
  <2>3. ~Coded({}, Threat) /\ (Flawed({}) <=> ~Fitting("empty", x, TRUE))
    BY Codings, QuietForms
  <2>4. QED BY <1>1, <1>2, <2>2, <2>3, QuietForms, QuietStep
<1>4. CASE ReadlnStatement
  <2>1. Resolve("readln", "", BuiltinFile, TRUE, FileErrors, PrefixedScopes, <<>>)
    BY <1>4 DEF ReadlnStatement
  <2> DEFINE x == ""
  <2> HIDE DEF x
  <2>2. Resolve("readln", x, BuiltinFile, TRUE, FileErrors, PrefixedScopes, <<>>)
    BY <2>1, Zenon DEF x
  <2>3. ~Coded(FileErrors, Threat) /\ (Flawed(FileErrors) <=> ~tree[1].input)
    <3> DEFINE c == ~tree[1].input
    <3>1. c \in BOOLEAN
      OBVIOUS
    <3> HIDE DEF c
    <3>2. ~Coded(ErrIf(c, "UNDEFINED_IDENTIFIER"), Threat)
          /\ (Flawed(ErrIf(c, "UNDEFINED_IDENTIFIER")) <=> c)
      BY <3>1, OneFlaw, FlawCodes
    <3>3. QED BY <3>2 DEF c, FileErrors
  <2>4. Flawed(FileErrors) <=> ~Fitting("readln", x, TRUE)
    BY <2>3, QuietForms
  <2>5. QED BY <1>1, <1>2, <2>2, <2>3, <2>4, QuietForms, QuietStep
<1>5. QED BY <1>3, <1>4

LEMMA SequenceSays ==
    ASSUME Coherence, IsVocabulary(vocabulary), CompoundStatement \/ RepeatStatement
    PROVE  SayingStep
<1>1. Doing("statement")
  BY DEF CompoundStatement, RepeatStatement, Resolving
<1> DEFINE x == ""
<1> HIDE DEF x
<1>2. CASE CompoundStatement
  <2>1. PICK skeleton \in Skeletons :
           Resolve("compound", "", {}, TRUE, {}, PrefixedScopes,
                   SequenceTasks(skeleton, Id, Allowed, Task.used))
    BY <1>2 DEF CompoundStatement
  <2> DEFINE inside == SequenceTasks(skeleton, Id, Allowed, Task.used)
  <2>2. Handed(inside, Task.used)
    BY HandedSequence
  <2> HIDE DEF inside
  <2>3. Resolve("compound", x, {}, TRUE, {}, PrefixedScopes, inside)
    BY <2>1, Zenon DEF x, inside
  <2>4. ~Coded({}, Threat) /\ (Flawed({}) <=> ~Fitting("compound", x, TRUE))
    BY Codings, QuietForms
  <2>5. QED BY <1>1, <2>2, <2>3, <2>4, QuietForms, QuietStep
<1>3. CASE RepeatStatement
  <2>1. PICK skeleton \in Skeletons, fine \in BOOLEAN :
           Resolve("repeat", "", {}, fine, ErrIf(~fine, "NON_BOOLEAN_TYPE"),
                   PrefixedScopes, SequenceTasks(skeleton, Id, Allowed, Task.used))
    BY <1>3 DEF RepeatStatement
  <2> DEFINE inside == SequenceTasks(skeleton, Id, Allowed, Task.used)
             errs == ErrIf(~fine, "NON_BOOLEAN_TYPE")
  <2>2. Handed(inside, Task.used)
    BY HandedSequence
  <2>3. ~Coded(errs, Threat) /\ (Flawed(errs) <=> ~fine)
    BY OneFlaw, FlawCodes
  <2> HIDE DEF inside, errs
  <2>4. Resolve("repeat", x, {}, fine, errs, PrefixedScopes, inside)
    BY <2>1, Zenon DEF x, inside, errs
  <2>5. Flawed(errs) <=> ~Fitting("repeat", x, fine)
    BY <2>3, QuietForms
  <2>6. QED BY <1>1, <2>2, <2>3, <2>4, <2>5, QuietForms, QuietStep
<1>4. QED BY <1>2, <1>3

LEMMA BranchSays ==
    ASSUME Coherence, IfOrWhileStatement \/ CaseStatement
    PROVE  SayingStep
<1>1. Doing("statement")
  BY DEF IfOrWhileStatement, CaseStatement, Resolving
<1> DEFINE x == ""
<1> HIDE DEF x
<1>2. CASE IfOrWhileStatement
  <2>1. PICK form \in {"if", "while"}, n \in {1, 2}, fine \in BOOLEAN :
           \E labels \in [1 .. n -> LabelChoices] :
              Resolve(form, "", {}, fine, ErrIf(~fine, "NON_BOOLEAN_TYPE"),
                      PrefixedScopes, InnerTasks(labels, Task.used))
    BY <1>2 DEF IfOrWhileStatement
  <2>2. PICK labels \in [1 .. n -> LabelChoices] :
           Resolve(form, "", {}, fine, ErrIf(~fine, "NON_BOOLEAN_TYPE"),
                   PrefixedScopes, InnerTasks(labels, Task.used))
    BY <2>1
  <2> DEFINE inside == InnerTasks(labels, Task.used)
             errs == ErrIf(~fine, "NON_BOOLEAN_TYPE")
  <2>3. Handed(inside, Task.used)
    BY HandedBranches
  <2>4. ~Coded(errs, Threat) /\ (Flawed(errs) <=> ~fine)
    BY OneFlaw, FlawCodes
  <2> HIDE DEF inside, errs
  <2>5. Resolve(form, x, {}, fine, errs, PrefixedScopes, inside)
    BY <2>2, Zenon DEF x, inside, errs
  <2>6. form \notin Accessing \cup {"block"} /\ (Flawed(errs) <=> ~Fitting(form, x, fine))
    BY <2>4, QuietForms
  <2>7. QED BY <1>1, <2>3, <2>4, <2>5, <2>6, QuietStep
<1>3. CASE CaseStatement
  <2>1. PICK n \in {1, 2}, flaw \in {"none", "index", "constant"} :
           \E labels \in [1 .. n -> LabelChoices] :
               Resolve("case", "", {}, flaw = "none",
                       ErrIf(flaw = "index", "NON_ORDINAL_TYPE")
                          \cup ErrIf(flaw = "constant", "DUPLICATE_CASE"),
                       PrefixedScopes,
                       IF flaw = "index" THEN <<>> ELSE InnerTasks(labels, Task.used))
    BY <1>3 DEF CaseStatement
  <2>2. PICK labels \in [1 .. n -> LabelChoices] :
               Resolve("case", "", {}, flaw = "none",
                       ErrIf(flaw = "index", "NON_ORDINAL_TYPE")
                          \cup ErrIf(flaw = "constant", "DUPLICATE_CASE"),
                       PrefixedScopes,
                       IF flaw = "index" THEN <<>> ELSE InnerTasks(labels, Task.used))
    BY <2>1
  <2> DEFINE inside == IF flaw = "index" THEN <<>> ELSE InnerTasks(labels, Task.used)
             one == ErrIf(flaw = "index", "NON_ORDINAL_TYPE")
             two == ErrIf(flaw = "constant", "DUPLICATE_CASE")
             errs == one \cup two
             fine == flaw = "none"
  <2>3. Handed(inside, Task.used)
    BY HandedBranches, HandedNothing
  <2>4. ~Coded(errs, Threat) /\ (Flawed(errs) <=> ~fine)
    <3>1. ~Coded(one, Threat) /\ (Flawed(one) <=> flaw = "index")
      BY OneFlaw, FlawCodes
    <3>2. ~Coded(two, Threat) /\ (Flawed(two) <=> flaw = "constant")
      BY OneFlaw, FlawCodes
    <3> HIDE DEF one, two
    <3>3. QED BY <3>1, <3>2, Codings
  <2>5. Resolve("case", "", {}, fine, errs, PrefixedScopes, inside)
    BY <2>2
  <2> HIDE DEF inside, errs, fine
  <2>6. Resolve("case", x, {}, fine, errs, PrefixedScopes, inside)
    BY <2>5, Zenon DEF x
  <2>7. Flawed(errs) <=> ~Fitting("case", x, fine)
    BY <2>4, QuietForms
  <2>8. QED BY <1>1, <2>3, <2>4, <2>6, <2>7, QuietForms, QuietStep
<1>4. QED BY <1>2, <1>3

LEMMA GotoSays ==
    ASSUME Coherence, GotoStatement
    PROVE  SayingStep
<1>1. Doing("statement")
  BY DEF GotoStatement, Resolving
<1>2. PICK l \in Labels :
         \/ Resolve("goto", l, {}, TRUE, {Err("UNDEFINED_LABEL")}, PrefixedScopes, <<>>)
         \/ Resolve("goto", l, {Least(LabelledBlocks(l))}, TRUE,
                    ErrIf(l \notin Allowed, "DISALLOWED_GOTO_TARGET"), PrefixedScopes, <<>>)
  BY DEF GotoStatement, LabelledBlocks
<1>3. ASSUME NEW refers, NEW errs, Resolve("goto", l, refers, TRUE, errs, PrefixedScopes, <<>>),
             ~Coded(errs, Threat), ~Flawed(errs)
      PROVE  SayingStep
  BY HandedNothing, <1>3, QuietForms, <1>1, QuietStep
<1>4. ~Coded({Err("UNDEFINED_LABEL")}, Threat) /\ ~Flawed({Err("UNDEFINED_LABEL")})
  BY Codings, FlawCodes DEF Threat
<1>5. ~Coded(ErrIf(l \notin Allowed, "DISALLOWED_GOTO_TARGET"), Threat)
      /\ ~Flawed(ErrIf(l \notin Allowed, "DISALLOWED_GOTO_TARGET"))
  <2> DEFINE c == l \notin Allowed
  <2>1. c \in BOOLEAN
    OBVIOUS
  <2> HIDE DEF c
  <2>2. ~Coded(ErrIf(c, "DISALLOWED_GOTO_TARGET"), Threat)
        /\ ~Flawed(ErrIf(c, "DISALLOWED_GOTO_TARGET"))
    BY <2>1, Conditional, FlawCodes DEF Threat
  <2>3. QED BY <2>2 DEF c
<1>6. QED BY <1>2, <1>3, <1>4, <1>5

LEMMA AssignmentSays ==
    ASSUME Coherence, AssignmentStatement
    PROVE  SayingStep
<1>1. Doing("statement") /\ tasks # <<>>
  BY DEF AssignmentStatement, Resolving, Doing
<1>2. PICK x \in Names, fine \in BOOLEAN :
           LET k == Least(Declaring(x))
               mismatch == ErrIf(~fine, "TYPE_MISMATCH")
               result == IF fine THEN [PrefixedScopes EXCEPT ![At(k - 1)].assigned = TRUE]
                                 ELSE PrefixedScopes
           IN  \/ AccessVariable("assignment", x, fine, mismatch)
               \/ fine /\ AccessOther("assignment", x, {"procedure"}, {})
               \/ /\ UseOf(x) = "function" /\ ~IsCurrentFunction(x, k) /\ fine
                  /\ Resolve("assignment", x, {}, TRUE, {Err("WRONG_IDENTIFIER_KIND")},
                             PrefixedScopes, <<>>)
               \/ /\ UseOf(x) = "function" /\ IsCurrentFunction(x, k)
                  /\ Resolve("assignment", x, {k}, fine, mismatch, result, <<>>)
  BY <1>1 DEF AssignmentStatement
<1> DEFINE k == Least(Declaring(x))
           mismatch == ErrIf(~fine, "TYPE_MISMATCH")
           assigned == [PrefixedScopes EXCEPT ![At(k - 1)].assigned = TRUE]
<1>3. "assignment" \in Accessing \ {"for"} /\ ~Coded(mismatch, Threat) /\ (Flawed(mismatch) <=> ~fine)
  BY OneFlaw, FlawCodes DEF Accessing
<1>4. \/ AccessVariable("assignment", x, fine, mismatch)
      \/ AccessOther("assignment", x, {"procedure"}, {})
      \/ /\ UseOf(x) = "function" /\ ~IsCurrentFunction(x, k)
         /\ Resolve("assignment", x, {}, TRUE, {Err("WRONG_IDENTIFIER_KIND")}, PrefixedScopes, <<>>)
      \/ /\ UseOf(x) = "function" /\ IsCurrentFunction(x, k)
         /\ Resolve("assignment", x, {k}, fine, mismatch,
                    IF fine THEN assigned ELSE PrefixedScopes, <<>>)
  BY <1>2
<1> HIDE DEF mismatch
<1>5. CASE AccessVariable("assignment", x, fine, mismatch)
  BY <1>1, <1>3, <1>5, VariableSays
<1>6. CASE AccessOther("assignment", x, {"procedure"}, {})
  BY <1>1, <1>3, <1>6, Codings, OtherSays
<1>7. CASE /\ UseOf(x) = "function" /\ ~IsCurrentFunction(x, k)
           /\ Resolve("assignment", x, {}, TRUE, {Err("WRONG_IDENTIFIER_KIND")}, PrefixedScopes, <<>>)
  <2>1. ~Threatens("assignment", x) /\ ~Assigns("assignment", x)
    BY <1>7 DEF Threatens, Assigns, IsVariable, Least1
  <2>2. ~Fitting("assignment", x, TRUE)
    BY <1>3, <1>7, <2>1 DEF Fitting
  <2>3. ~Coded({Err("WRONG_IDENTIFIER_KIND")}, Threat) /\ Flawed({Err("WRONG_IDENTIFIER_KIND")})
    BY Codings DEF Elsewhere, Threat
  <2>4. QED BY <1>1, <1>3, <1>7, <2>1, <2>2, <2>3, HarmlessStep
<1>8. CASE /\ UseOf(x) = "function" /\ IsCurrentFunction(x, k)
           /\ Resolve("assignment", x, {k}, fine, mismatch,
                      IF fine THEN assigned ELSE PrefixedScopes, <<>>)
  <2>1. Assigns("assignment", x) /\ ~Threatens("assignment", x) /\ (Fitting("assignment", x, fine) <=> fine)
    BY <1>8 DEF Threatens, Assigns, IsVariable, Least1, Fitting
  <2>2. k \in Indices
    BY <1>8, <1>1, Nearest DEF UseOf
  <2> DEFINE i == k - 1
             p == At(i)
             ps == PrefixedScopes
             ns == IF fine THEN assigned ELSE PrefixedScopes
  <2>3. p \in 1 .. Len(scopes)
    <3>1. k - 1 \in Indices
      BY <1>1, <1>8, <2>2, ResultOfFunction
    <3> HIDE DEF k
    <3>2. i \in Indices
      BY <3>1
    <3> HIDE DEF i
    <3>3. QED BY <1>1, <3>2, Index
  <2>4. /\ Sequential(ps) /\ Len(ps) = Len(scopes) /\ DOMAIN ps[p] = ScopeFields
    BY <1>1, <2>3, Prefixing
  <2>5. Notes("assignment", x, fine, ns)
    <3> DEFINE e == [ps[p] EXCEPT !.assigned = TRUE]
    <3>1. \A q \in 1 .. Len(scopes) :
             ps[q].threats = scopes[q].threats /\ ps[q].assigned = scopes[q].assigned
      BY <1>1, NotedPrefixed
    <3>2. CASE fine
      <4>1. ns = [ps EXCEPT ![p] = e]
        BY <3>2
      <4> HIDE DEF e, ps, p
      <4>2. ns[p] = e /\ \A q \in 1 .. Len(scopes) : q # p => ns[q] = ps[q]
        <5> HIDE DEF ns
        <5>1. QED BY <2>3, <2>4, <4>1, Updated
      <4>3. e.threats = ps[p].threats
        BY <2>4 DEF e, ScopeFields
      <4>4. e.assigned = TRUE
        BY <2>4 DEF e, ScopeFields
      <4>5. p = At(Least1(x) - 1)
        BY DEF p, Least1
      <4> HIDE DEF ns, e
      <4>6. QED BY <2>1, <2>3, <3>1, <3>2, <4>2, <4>3, <4>4, <4>5 DEF Notes
    <3>3. CASE ~fine
      <4>1. ns = ps
        BY <3>3
      <4> HIDE DEF ns, ps
      <4>2. QED BY <2>1, <3>1, <3>3, <4>1 DEF Notes
    <3>4. QED BY <3>2, <3>3
  <2>6. Resolve("assignment", x, {k}, fine, mismatch, ns, <<>>)
    BY <1>8
  <2> HIDE DEF ns
  <2>7. Warns("assignment", x, mismatch)
    BY <1>3, <2>1 DEF Warns
  <2>8. Handed(<<>>, UsedIn("assignment", x)) /\ (Flawed(mismatch) <=> ~Fitting("assignment", x, fine))
    BY <1>3, <2>1, HandedNothing
  <2>9. QED BY <2>5, <2>6, <2>7, <2>8, Saying
<1>9. QED BY <1>4, <1>5, <1>6, <1>7, <1>8

LEMMA CallSays ==
    ASSUME Coherence, ProcedureStatement \/ ReadStatement
    PROVE  SayingStep
<1>1. Doing("statement")
  BY DEF ProcedureStatement, ReadStatement, Resolving
<1>2. "procedure" \in Accessing \ {"for"} /\ "read" \in Accessing \ {"for"}
      /\ Callable \subseteq {"function", "procedure"}
  BY DEF Accessing, Callable
<1>3. ~Coded(FileErrors, Threat) /\ (Flawed(FileErrors) <=> ~tree[1].input)
  <2> DEFINE c == ~tree[1].input
  <2>1. c \in BOOLEAN
    OBVIOUS
  <2> HIDE DEF c
  <2>2. ~Coded(ErrIf(c, "UNDEFINED_IDENTIFIER"), Threat)
        /\ (Flawed(ErrIf(c, "UNDEFINED_IDENTIFIER")) <=> c)
    BY <2>1, OneFlaw, FlawCodes
  <2>3. QED BY <2>2 DEF c, FileErrors
<1>4. ~Coded({}, Threat) /\ ~Flawed({})
  BY Codings
<1>5. CASE ProcedureStatement
  <2>1. PICK x \in Names : \/ AccessVariable("procedure", x, TRUE, {})
                           \/ AccessOther("procedure", x, Callable, {})
    BY <1>5 DEF ProcedureStatement
  <2>2. CASE AccessVariable("procedure", x, TRUE, {})
    BY <1>1, <1>2, <1>4, <2>2, VariableSays
  <2>3. CASE AccessOther("procedure", x, Callable, {})
    BY <1>1, <1>2, <1>4, <2>3, OtherSays
  <2>4. QED BY <2>1, <2>2, <2>3
<1>6. CASE ReadStatement
  <2>1. PICK x \in Names :
           \/ tree[1].input /\ AccessVariable("read", x, TRUE, {})
           \/ /\ ~tree[1].input /\ IsVariable(UseOf(x))
              /\ Resolve("read", x, {Least(Declaring(x))}, TRUE, FileErrors, PrefixedScopes, <<>>)
           \/ AccessOther("read", x, Callable, FileErrors)
    BY <1>6 DEF ReadStatement
  <2>2. CASE tree[1].input /\ AccessVariable("read", x, TRUE, {})
    BY <1>1, <1>2, <1>4, <2>2, VariableSays
  <2>3. CASE AccessOther("read", x, Callable, FileErrors)
    BY <1>1, <1>2, <1>3, <2>3, OtherSays
  <2>4. CASE /\ ~tree[1].input /\ IsVariable(UseOf(x))
             /\ Resolve("read", x, {Least(Declaring(x))}, TRUE, FileErrors, PrefixedScopes, <<>>)
    BY <2>4, <1>1, <1>2, <1>3, HarmlessStep DEF Threatens, Assigns, Fitting
  <2>5. QED BY <2>1, <2>2, <2>3, <2>4
<1>7. QED BY <1>5, <1>6

(* What is declared nearest is declared in the closest block, or nearer.   *)
LEMMA NearestIsClosest ==
    ASSUME Coherence, tasks # <<>>, Home(Task) # 0, NEW x
    PROVE  Declaring(x) # {} /\ Least1(x) = ClosestContainingBlock <=>
             /\ ~\E j \in 0 .. ClosestContainingBlock - 1 : Parent(j).names[x] # "none"
             /\ Parent(ClosestContainingBlock).names[x] # "none"
<1> DEFINE k == ClosestContainingBlock
<1>1. k \in Indices /\ k \in Nat /\ k \in 0 .. Len(scopes) - 1 /\ Len(scopes) \in Nat
  <2>1. k \in Indices
    BY Closest DEF BlockIndices
  <2> HIDE DEF k
  <2>2. Len(scopes) \in Nat
    BY Here
  <2>3. QED BY <2>1, <2>2 DEF Indices
<1> HIDE DEF k
<1>2. ASSUME Declaring(x) # {}, Least1(x) = k
      PROVE  (~\E j \in 0 .. k - 1 : Parent(j).names[x] # "none") /\ Parent(k).names[x] # "none"
  <2>1. k \in Declaring(x) /\ \A j \in Declaring(x) : k <= j
    BY <1>2, Nearest DEF Least1
  <2>2. ASSUME NEW j \in 0 .. k - 1, Parent(j).names[x] # "none" PROVE FALSE
    BY <1>1, <2>2, <2>1 DEF Declaring, Indices
  <2>3. QED BY <2>1, <2>2 DEF Declaring
<1>3. ASSUME ~\E j \in 0 .. k - 1 : Parent(j).names[x] # "none", Parent(k).names[x] # "none"
      PROVE  Declaring(x) # {} /\ Least1(x) = k
  <2>1. k \in Declaring(x)
    BY <1>1, <1>3 DEF Declaring
  <2> DEFINE j == Least1(x)
  <2>2. j \in Declaring(x) /\ j \in Indices /\ j <= k
    BY <2>1, Nearest DEF Least1
  <2>3. j \in Nat /\ Parent(j).names[x] # "none"
    BY <2>2, Index DEF Declaring
  <2> HIDE DEF j
  <2>4. ASSUME j < k PROVE FALSE
    BY <1>1, <2>3, <2>4, <1>3
  <2>5. j = k
    BY <1>1, <2>2, <2>3, <2>4
  <2>6. QED BY <2>1, <2>5 DEF j
<1>4. QED BY <1>2, <1>3 DEF k

LEMMA ForSays ==
    ASSUME Coherence, ForStatement
    PROVE  SayingStep
<1>1. Doing("statement") /\ tasks # <<>> /\ Home(Task) # 0
  BY Prefixing DEF ForStatement, Resolving
<1> DEFINE k == ClosestContainingBlock
<1>2. "for" \in Accessing
  BY DEF Accessing
<1>3. PICK x \in Names, label \in LabelChoices :
           LET use == Parent(k).names[x]
               hidden == \E j \in 0 .. k - 1 : Parent(j).names[x] # "none"
               t == Threaten(x, k, PrefixedScopes)
               errs == ThreatErrors(t) \cup
                       ErrIf(x \in Parent(k).threats, "THREATENED_CONTROL_VARIABLE")
               Stop(code) == Resolve("for", x, {}, TRUE, {Err(code)}, PrefixedScopes, <<>>)
           IN  \/ hidden /\ Stop("WRONG_IDENTIFIER_KIND")
               \/ ~hidden /\ ~IsVariable(use) /\ Stop("UNDEFINED_IDENTIFIER")
               \/ ~hidden /\ use = "other" /\ Stop("NON_ORDINAL_TYPE")
               \/ /\ ~hidden /\ use = "ordinal"
                  /\ \/ Resolve("for", x, {k}, FALSE, errs \cup {Err("TYPE_MISMATCH")}, t.scopes, <<>>)
                     \/ Resolve("for", x, {k}, TRUE, errs, t.scopes,
                                InnerTasks(<<label>>, UsedInside(x)))
  BY DEF ForStatement
<1> DEFINE hidden == \E j \in 0 .. k - 1 : Parent(j).names[x] # "none"
           t == Threaten(x, k, PrefixedScopes)
           one == ThreatErrors(t)
           two == ErrIf(x \in Parent(k).threats, "THREATENED_CONTROL_VARIABLE")
           errs == one \cup two
<1>4. \/ /\ hidden \/ Parent(k).names[x] # "ordinal"
         /\ \E code \in {"WRONG_IDENTIFIER_KIND", "UNDEFINED_IDENTIFIER", "NON_ORDINAL_TYPE"} :
               Resolve("for", x, {}, TRUE, {Err(code)}, PrefixedScopes, <<>>)
      \/ /\ ~hidden /\ Parent(k).names[x] = "ordinal"
         /\ \/ Resolve("for", x, {k}, FALSE, errs \cup {Err("TYPE_MISMATCH")}, t.scopes, <<>>)
            \/ Resolve("for", x, {k}, TRUE, errs, t.scopes, InnerTasks(<<label>>, UsedInside(x)))
  BY <1>3 DEF IsVariable
<1>5. OwnOrdinal(x) <=> ~hidden /\ Parent(k).names[x] = "ordinal"
  <2>1. Declaring(x) # {} /\ Least1(x) = k <=> ~hidden /\ Parent(k).names[x] # "none"
    BY <1>1, NearestIsClosest
  <2>2. Declaring(x) # {} /\ Least1(x) = k => UseOf(x) = Parent(k).names[x]
    BY DEF UseOf, Least1
  <2>3. OwnOrdinal(x) => Declaring(x) # {} /\ Least1(x) = k /\ UseOf(x) = "ordinal"
    BY DEF OwnOrdinal, UseOf
  <2>4. Declaring(x) # {} /\ Least1(x) = k /\ UseOf(x) = "ordinal" => OwnOrdinal(x)
    BY DEF OwnOrdinal
  <2> HIDE DEF k, hidden
  <2>5. QED BY <2>1, <2>2, <2>3, <2>4
<1>6. ASSUME ~OwnOrdinal(x),
             NEW code \in {"WRONG_IDENTIFIER_KIND", "UNDEFINED_IDENTIFIER", "NON_ORDINAL_TYPE"},
             Resolve("for", x, {}, TRUE, {Err(code)}, PrefixedScopes, <<>>)
      PROVE  SayingStep
  BY <1>6, Codings, FlawCodes, <1>1, <1>2, HarmlessStep DEF Threatens, Assigns, Fitting, Threat
<1>7. CASE /\ OwnOrdinal(x)
           /\ \/ Resolve("for", x, {k}, FALSE, errs \cup {Err("TYPE_MISMATCH")}, t.scopes, <<>>)
              \/ Resolve("for", x, {k}, TRUE, errs, t.scopes, InnerTasks(<<label>>, UsedInside(x)))
  <2>1. Least1(x) = k /\ UseOf(x) = "ordinal" /\ Threatens("for", x) /\ ~Assigns("for", x)
    BY <1>2, <1>7 DEF OwnOrdinal, Threatens, Assigns, IsVariable
  <2>2. /\ \A fine : Notes("for", x, fine, t.scopes)
        /\ t.threatened <=> x \in Task.used
    <3>1. t = Threaten(x, Least1(x), PrefixedScopes)
      BY <2>1
    <3> HIDE DEF t
    <3>2. QED BY <1>1, <1>2, <2>1, <3>1, ThreatenNotes
  <2>3. /\ Coded(one, Threat) <=> x \in Task.used
        /\ ~Flawed(one)
    <3> HIDE DEF t
    <3>1. CASE t.threatened
      BY <3>1, <2>2, Codings DEF ThreatErrors, ErrIf, Threat, Elsewhere
    <3>2. CASE ~t.threatened
      BY <3>2, <2>2, Codings DEF ThreatErrors, ErrIf
    <3>3. QED BY <3>1, <3>2
  <2>4. /\ Coded(two, Threat) <=> x \in Parent(k).threats
        /\ ~Flawed(two)
    <3> DEFINE c == x \in Parent(k).threats
    <3>1. c \in BOOLEAN
      OBVIOUS
    <3> HIDE DEF c
    <3>2. /\ Coded(ErrIf(c, Threat), Threat) <=> c
          /\ ~Flawed(ErrIf(c, Threat))
      BY <3>1, Conditional, FlawCodes
    <3>3. QED BY <3>2 DEF c, Threat
  <2>5. Handed(<<>>, UsedIn("for", x))
    BY HandedNothing
  <2>6. Handed(InnerTasks(<<label>>, UsedInside(x)), UsedIn("for", x))
    BY HandedOne DEF UsedIn
  <2> HIDE DEF t, one, two
  <2>7. (Coded(errs, Threat) <=> x \in Task.used \/ x \in Parent(k).threats) /\ ~Flawed(errs)
    BY <2>3, <2>4, Codings
  <2> DEFINE ns == t.scopes
             more == errs \cup {Err("TYPE_MISMATCH")}
  <2>8. (Coded(more, Threat) <=> x \in Task.used \/ x \in Parent(k).threats) /\ Flawed(more)
    <3>1. ~Coded({Err("TYPE_MISMATCH")}, Threat) /\ Flawed({Err("TYPE_MISMATCH")})
      BY Codings, FlawCodes DEF Threat
    <3> HIDE DEF errs
    <3>2. QED BY <2>7, <3>1, Codings
  <2>9. Warns("for", x, errs) /\ Warns("for", x, more)
    <3> HIDE DEF errs, more
    <3>1. QED BY <2>1, <2>7, <2>8 DEF Warns
  <2>10. (Fitting("for", x, TRUE)) /\ ~Fitting("for", x, FALSE)
    BY <1>7 DEF Fitting
  <2> HIDE DEF errs, more, ns, k
  <2>11. CASE Resolve("for", x, {k}, FALSE, more, ns, <<>>)
    BY <2>2, <2>5, <2>8, <2>9, <2>10, <2>11, Saying DEF ns
  <2>12. CASE Resolve("for", x, {k}, TRUE, errs, ns, InnerTasks(<<label>>, UsedInside(x)))
    BY <2>2, <2>6, <2>7, <2>9, <2>10, <2>12, Saying DEF ns
  <2>13. QED BY <1>7, <2>11, <2>12 DEF more, ns
<1> HIDE DEF t, errs, hidden, k
<1>8. QED BY <1>4, <1>5, <1>6, <1>7

LEMMA WithSays ==
    ASSUME Coherence, IsVocabulary(vocabulary), WithStatement
    PROVE  SayingStep
<1>1. Doing("statement")
  BY DEF WithStatement, Resolving
<1>2. PICK fields \in FieldLists, label \in LabelChoices :
           \/ Resolve("with", fields, {}, TRUE, {},
                      PrefixedScopes \o [k \in DOMAIN fields |-> WithScope(Id, fields[k])],
                      InnerTasks(<<label>>, Task.used)
                         \o <<LeaveTask("leaveWith", Id, "", Len(fields))>>)
           \/ Resolve("with", fields, {}, FALSE, {Err("NON_RECORD_TYPE")}, PrefixedScopes, <<>>)
  BY DEF WithStatement
<1> DEFINE body == InnerTasks(<<label>>, Task.used)
           inside == body \o <<LeaveTask("leaveWith", Id, "", Len(fields))>>
           ns == PrefixedScopes \o [k \in DOMAIN fields |-> WithScope(Id, fields[k])]
<1>3. CASE Resolve("with", fields, {}, TRUE, {}, ns, inside)
  <2>1. Handed(inside, Task.used)
    <3>1. Handed(body, Task.used)
      BY HandedOne
    <3> HIDE DEF body
    <3>2. QED BY <3>1, HandedWith
  <2>2. Sequential(fields)
    BY InSeq DEF IsVocabulary, FieldLists, Names
  <2>3. \A p \in 1 .. Len(scopes) : ns[p] = PrefixedScopes[p]
    BY <1>1, <2>2, OpeningScopes DEF Opened
  <2>4. ~Coded({}, Threat) /\ (Flawed({}) <=> ~Fitting("with", fields, TRUE))
    BY Codings, QuietForms
  <2> HIDE DEF ns, inside
  <2>5. QED BY <1>1, <1>3, <2>1, <2>3, <2>4, QuietForms, QuietStep
<1>4. CASE Resolve("with", fields, {}, FALSE, {Err("NON_RECORD_TYPE")}, PrefixedScopes, <<>>)
  <2>1. ~Coded({Err("NON_RECORD_TYPE")}, Threat) /\ Flawed({Err("NON_RECORD_TYPE")})
    BY Codings, FlawCodes DEF Threat
  <2>2. Flawed({Err("NON_RECORD_TYPE")}) <=> ~Fitting("with", fields, FALSE)
    BY <2>1, QuietForms
  <2>3. Handed(<<>>, Task.used)
    BY HandedNothing
  <2>4. QED BY <1>1, <1>4, <2>1, <2>2, <2>3, QuietForms, QuietStep
<1>5. QED BY <1>2, <1>3, <1>4

(* Every statement says this.                                              *)
LEMMA SayingSteps ==
    ASSUME Coherence, IsVocabulary(vocabulary), StatementAction
    PROVE  SayingStep
BY SimpleSays, SequenceSays, BranchSays, GotoSays, AssignmentSays, CallSays, ForSays, WithSays
   DEF StatementAction

-----------------------------------------------------------------------------
(* Variables that loops control, told from the tree.                       *)

Found(t, n) == DeclaringIn(t, t[n].parent, t[n].arg)
MeantBy(t, n) == Innermost(Found(t, n))
UseFor(t, n) ==
    IF Found(t, n) = {} THEN "undefined"
    ELSE IF t[MeantBy(t, n)].form = "block" THEN t[MeantBy(t, n)].names[t[n].arg] ELSE "field"
OwnFor(t, n) == MeantBy(t, n) = HomeBlock(t, n) /\ UseFor(t, n) = "ordinal"

(* The node may change the variable that it means.                         *)
Changes(t, n) ==
    /\ t[n].form \in Accessing /\ IsVariable(UseFor(t, n))
    /\ t[n].form = "read" => t[1].input
    /\ t[n].form = "for" => OwnFor(t, n)

(* The innermost block around what is in node p.                           *)
InBlock(t, p) == Innermost({b \in Around(t, p) : t[b].form = "block"})

LEMMA InBlockIs ==
    ASSUME NEW t, IsTree(t), NEW p \in 1 .. Len(t)
    PROVE  /\ InBlock(t, p) \in Around(t, p) /\ t[InBlock(t, p)].form = "block"
           /\ InBlock(t, p) \in 1 .. p /\ InBlock(t, p) \in 1 .. Len(t)
           /\ \A b \in Around(t, p) : t[b].form = "block" => b <= InBlock(t, p)
<1> DEFINE S == {b \in Around(t, p) : t[b].form = "block"}
<1>1. Around(t, p) \subseteq 1 .. p /\ p \in Nat /\ Len(t) \in Nat
  BY Lines, Unfold DEF Line
<1>2. 1 \in Around(t, p) /\ t[1].form = "block"
  BY Program
<1>3. S \subseteq 0 .. p /\ S # {}
  BY <1>1, <1>2
<1> HIDE DEF S
<1>4. Innermost(S) \in S /\ \A m \in S : m <= Innermost(S)
  BY <1>1, <1>3, InnermostOf
<1> DEFINE z == Innermost(S)
<1> HIDE DEF z
<1>5. z \in S /\ \A m \in S : m <= z
  BY <1>4 DEF z
<1>6. z \in Around(t, p) /\ t[z].form = "block" /\ \A b \in Around(t, p) : t[b].form = "block" => b <= z
  BY <1>5 DEF S
<1>7. z \in 1 .. p /\ z \in 1 .. Len(t)
  BY <1>1, <1>6
<1>8. InBlock(t, p) = z
  BY DEF InBlock, z, S
<1>9. QED BY <1>6, <1>7, <1>8

LEMMA HomeIsInBlock ==
    ASSUME NEW t, NEW n
    PROVE  HomeBlock(t, n) = InBlock(t, t[n].parent)
BY DEF HomeBlock, BlocksAround, InBlock

(* Around a block there are only blocks.                                   *)
LEMMA BlocksInBlocks ==
    ASSUME NEW t, IsTree(t), NEW b \in 1 .. Len(t), t[b].form = "block"
    PROVE  \A m \in Around(t, b) : t[m].form = "block"
<1> DEFINE P == {n \in 1 .. Len(t) : t[n].form = "block" => \A m \in Around(t, n) : t[m].form = "block"}
<1>1. Len(t) \in Nat
  BY SequentialMeans DEF IsTree
<1>2. ASSUME NEW n \in 1 .. Len(t), \A k \in 1 .. n - 1 : k \in P
      PROVE  n \in P
  <2>1. ASSUME t[n].form = "block", NEW m \in Around(t, n) PROVE t[m].form = "block"
    <3> DEFINE a == t[n].parent
    <3>1. a \in 0 .. n - 1 /\ Around(t, n) = {n} \cup Around(t, a) /\ n \in Nat
      BY Unfold
    <3>2. a # 0 => t[a].form = "block"
      BY <2>1 DEF IsTree, IsNode
    <3> HIDE DEF a
    <3>3. CASE m = n
      BY <2>1, <3>3
    <3>4. CASE m \in Around(t, a)
      BY <3>4, Root, <3>1, <1>2, <3>2
    <3>5. QED BY <2>1, <3>1, <3>3, <3>4
  <2>2. QED BY <2>1
<1> HIDE DEF P
<1>3. 1 .. Len(t) \subseteq P
  BY <1>2, <1>1, Induction
<1>4. QED BY <1>3 DEF P

(* A statement is in the same block as what is in it, blocks aside.        *)
LEMMA SameBlock ==
    ASSUME NEW t, IsTree(t), NEW p \in 1 .. Len(t), NEW f \in Around(t, p), t[f].form # "block"
    PROVE  InBlock(t, p) = HomeBlock(t, f) /\ f \in 1 .. Len(t)
<1> DEFINE z == InBlock(t, p)
           y == HomeBlock(t, f)
<1>1. /\ Around(t, p) \subseteq 1 .. p /\ p \in Nat
      /\ \A m \in Around(t, p) : /\ Around(t, m) \subseteq Around(t, p)
                                 /\ \A k \in Around(t, p) : m <= k => m \in Around(t, k)
  BY Lines, Unfold DEF Line
<1>2. f \in 1 .. Len(t) /\ f \in Nat
  BY <1>1
<1>3. Around(t, f) = {f} \cup Around(t, t[f].parent)
  BY <1>2, Unfold
<1>4. /\ y \in Around(t, t[f].parent) /\ t[y].form = "block"
      /\ \A b \in Around(t, t[f].parent) : t[b].form = "block" => b <= y
  BY <1>2, HomeBlockIs
<1>5. /\ z \in Around(t, p) /\ t[z].form = "block" /\ z \in 1 .. Len(t)
      /\ \A b \in Around(t, p) : t[b].form = "block" => b <= z
  BY InBlockIs
<1> HIDE DEF y, z
<1>6. y \in Around(t, p) /\ y \in Nat /\ z \in Nat
  BY <1>1, <1>3, <1>4, <1>5
<1>7. y <= z
  BY <1>4, <1>5, <1>6
<1>8. z <= y
  <2>1. CASE z <= f
    BY <1>1, <1>5, <2>1, <1>3, <1>4
  <2>2. CASE f <= z
    BY <1>1, <1>5, <2>2, BlocksInBlocks
  <2>3. QED BY <1>2, <1>6, <2>1, <2>2
<1>9. y = z
  BY <1>6, <1>7, <1>8
<1>10. QED BY <1>2, <1>9 DEF y, z

LEMMA FoundStable ==
    ASSUME NEW t, NEW u, Grows(t, u), NEW n \in 1 .. Len(t)
    PROVE  /\ u[n] = t[n] /\ Found(u, n) = Found(t, n) /\ HomeBlock(u, n) = HomeBlock(t, n)
           /\ MeantBy(u, n) = MeantBy(t, n) /\ UseFor(u, n) = UseFor(t, n)
           /\ Changes(u, n) <=> Changes(t, n)
           /\ Found(t, n) # {} => MeantBy(t, n) \in Around(t, t[n].parent) /\ MeantBy(t, n) \in 1 .. Len(t)
           /\ n \in 1 .. Len(u)
<1>1. IsTree(t) /\ Len(t) \in Nat /\ u[n] = t[n] /\ HomeBlock(u, n) = HomeBlock(t, n) /\ n \in 1 .. Len(u)
  BY HomeBlockStable, SequentialMeans DEF Grows, IsTree
<1>2. t[n].parent \in 0 .. Len(t)
  BY <1>1, Unfold
<1> DEFINE D == Found(t, n)
           m == MeantBy(t, n)
<1>3. Found(u, n) = D
  BY <1>1, <1>2, LeadsStable DEF Found
<1>4. MeantBy(u, n) = m
  BY <1>3 DEF MeantBy
<1>5. D # {} => m \in Around(t, t[n].parent) /\ m \in 1 .. Len(t)
  <2> SUFFICES ASSUME D # {} PROVE m \in Around(t, t[n].parent) /\ m \in 1 .. Len(t)
    OBVIOUS
  <2> DEFINE a == t[n].parent
  <2>1. D \subseteq Around(t, a)
    BY DEF Found, DeclaringIn
  <2>2. a \in 0 .. Len(t) /\ a \in Nat
    BY <1>1, <1>2
  <2> HIDE DEF a
  <2>3. Around(t, a) \subseteq 1 .. a
    BY <1>1, <2>2, Lines DEF Line
  <2> HIDE DEF D
  <2>4. D \subseteq 0 .. a
    BY <2>1, <2>3
  <2>5. Innermost(D) \in D
    BY <2>2, <2>4, InnermostOf
  <2>6. m \in D
    BY <2>5 DEF m, MeantBy, D
  <2> HIDE DEF m
  <2>7. m \in Around(t, a) /\ m \in 1 .. a
    BY <2>1, <2>3, <2>6
  <2>8. m \in 1 .. Len(t)
    BY <1>1, <2>2, <2>7
  <2>9. QED BY <2>7, <2>8 DEF a
<1> HIDE DEF D, m
<1>6. D # {} => u[m] = t[m]
  BY <1>5 DEF Grows
<1>7. UseFor(u, n) = UseFor(t, n)
  <2>1. CASE D = {}
    BY <1>3, <2>1 DEF UseFor, D
  <2>2. CASE D # {}
    BY <1>1, <1>3, <1>4, <1>6, <2>2 DEF UseFor, D, m
  <2>3. QED BY <2>1, <2>2
<1>8. u[1] = t[1]
  BY <1>1 DEF Grows
<1>9. Changes(u, n) <=> Changes(t, n)
  BY <1>1, <1>4, <1>7, <1>8 DEF Changes, OwnFor, m
<1>10. QED BY <1>1, <1>3, <1>4, <1>5, <1>7, <1>9 DEF D, m

(* What the tree declares, a scope that is alive declares.                 *)
LEMMA DeclaredAlive ==
    ASSUME Coherence, tasks # <<>>, NEW x \in Names, DeclaringIn(tree, Home(Task), x) # {}
    PROVE  Declaring(x) # {}
<1> DEFINE h == Home(Task)
<1>1. /\ IsTree(tree) /\ h \in 0 .. Len(tree) /\ Len(scopes) = Deep(tree, h)
      /\ Stacked(Names, tree, scopes, h)
  BY Here
<1> HIDE DEF h
<1>2. PICK m \in Around(tree, h) : DeclaresIn(tree, m, x)
  BY DEF DeclaringIn, h
<1>3. m \in 1 .. Len(tree)
  BY <1>1, Lines, Here, <1>2 DEF Line
<1>4. \E i \in 1 .. OpensIn(tree, m) :
         \A s : ScopeOf(Names, tree, s, m, i) => s.names[x] # "none"
  <2>1. CASE tree[m].form = "block"
    BY <2>1, <1>2 DEF OpensIn, ScopeOf, DeclaresIn
  <2>2. CASE tree[m].form # "block"
    <3>1. tree[m].form = "with" /\ \E i \in DOMAIN tree[m].arg : x \in tree[m].arg[i]
      BY <1>2, <2>2 DEF DeclaresIn
    <3>2. PICK i \in DOMAIN tree[m].arg : x \in tree[m].arg[i]
      BY <3>1
    <3>3. Sequential(tree[m].arg)
      BY <1>1, <1>3, <3>1 DEF IsTree, IsNode
    <3>4. i \in 1 .. OpensIn(tree, m)
      BY <3>1, <3>2, <3>3, SequentialMeans DEF OpensIn
    <3>5. \A s : ScopeOf(Names, tree, s, m, i) => s.names[x] = "field"
      BY <2>2, <3>2 DEF ScopeOf
    <3>6. \A s : ScopeOf(Names, tree, s, m, i) => s.names[x] # "none"
      BY <3>5
    <3>7. QED BY <3>4, <3>6
  <2>3. QED BY <2>1, <2>2
<1>5. PICK i \in 1 .. OpensIn(tree, m) : \A s : ScopeOf(Names, tree, s, m, i) => s.names[x] # "none"
  BY <1>4
<1> DEFINE q == Place(tree, m, i)
<1>6. q \in 1 .. Len(scopes)
  BY <1>1, Placed
<1>7. ScopeOf(Names, tree, scopes[q], m, i)
  BY <1>1 DEF Stacked
<1> HIDE DEF q
<1>8. scopes[q].names[x] # "none"
  BY <1>5, <1>7
<1>9. Len(scopes) - q \in Indices /\ Parent(Len(scopes) - q) = scopes[q]
  BY <1>6, Position
<1> DEFINE j == Len(scopes) - q
<1> HIDE DEF j
<1>10. j \in Indices /\ Parent(j).names[x] # "none"
  BY <1>8, <1>9 DEF j
<1>11. QED BY <1>10 DEF Declaring

(* What the step reads off the scopes is what the tree says of the node.   *)
LEMMA Bridged ==
    ASSUME Coherence, Doing("statement"), NEW u, Grows(tree, u), Id = Len(u),
           u[Id].parent = Task.parent, Inhabited(tree, Task.parent), u[Id].arg \in Names
    PROVE  LET x == u[Id].arg
               p == At(Least1(x))
           IN  /\ scopes[At(ClosestContainingBlock)].node = HomeBlock(u, Id)
               /\ UseFor(u, Id) = UseOf(x)
               /\ Declaring(x) # {} =>
                     /\ p \in 1 .. Len(scopes) /\ scopes[p].node = MeantBy(u, Id)
                     /\ Least1(x) = ClosestContainingBlock <=> MeantBy(u, Id) = HomeBlock(u, Id)
<1> DEFINE x == u[Id].arg
           k == Least1(x)
           c == ClosestContainingBlock
           p == At(k)
           q == At(c)
           h == Home(Task)
           b == scopes[q].node
           m == MeantBy(u, Id)
           D == DeclaringIn(tree, h, x)
<1>1. /\ IsTree(tree) /\ h \in 0 .. Len(tree) /\ Len(scopes) \in Nat /\ tasks # <<>>
      /\ h = Task.parent /\ h # 0 /\ Len(tree) \in Nat
  BY Prefixing, Here
<1>2. /\ c \in BlockIndices /\ q \in 1 .. Len(scopes) /\ scopes[q].kind = "block"
      /\ q = Place(tree, b, 1) /\ b \in Around(tree, h) /\ b \in 1 .. Len(tree)
      /\ tree[b].form = "block" /\ \A n \in Around(tree, h) : tree[n].form = "block" => n <= b
  BY <1>1, Closest
<1>3. c \in Indices /\ c \in Nat
  BY <1>1, <1>2, Index DEF BlockIndices
<1>4. h \in 1 .. Len(tree)
  <2> HIDE DEF h
  <2>1. QED BY <1>1
<1>5. HomeBlock(u, Id) = b
  <2>1. HomeBlock(u, Id) = InBlock(u, h)
    BY <1>1, HomeIsInBlock
  <2> HIDE DEF h, b
  <2>2. IsTree(u) /\ h \in 1 .. Len(u) /\ Around(u, h) = Around(tree, h)
    BY <1>4, Stable DEF Grows
  <2> DEFINE z == InBlock(u, h)
  <2>3. /\ z \in Around(u, h) /\ u[z].form = "block" /\ z \in Nat
        /\ \A n \in Around(u, h) : u[n].form = "block" => n <= z
    BY <2>2, InBlockIs
  <2> HIDE DEF z
  <2>4. \A n \in Around(tree, h) : u[n] = tree[n] /\ n \in Nat
    <3>1. Around(tree, h) \subseteq 1 .. h
      BY <1>1, <1>4, Lines DEF Line
    <3>2. \A n \in Around(tree, h) : n \in 1 .. Len(tree)
      BY <1>1, <1>4, <3>1
    <3>3. QED BY <3>2 DEF Grows
  <2>5. z <= b /\ b <= z /\ b \in Nat
    BY <1>2, <2>2, <2>3, <2>4
  <2>6. z = b
    BY <2>3, <2>5
  <2>7. QED BY <2>1, <2>6 DEF z
<1>6. Found(u, Id) = D
  <2> HIDE DEF h
  <2>1. Found(u, Id) = DeclaringIn(u, h, x)
    BY <1>1 DEF Found
  <2>2. DeclaringIn(u, h, x) = DeclaringIn(tree, h, x)
    BY <1>1, LeadsStable
  <2>3. QED BY <2>1, <2>2
<1>7. D = {} <=> Declaring(x) = {}
  BY <1>1, DeclaredAlive, Meant DEF LeadsTo
<1>8. ASSUME Declaring(x) # {}
      PROVE  /\ p \in 1 .. Len(scopes) /\ scopes[p].node = m
             /\ k = c <=> m = HomeBlock(u, Id)
             /\ UseFor(u, Id) = UseOf(x)
  <2>1. k \in Indices /\ k \in Declaring(x) /\ UseOf(x) = Parent(k).names[x]
    BY <1>1, <1>8, Nearest DEF Least1
  <2>2. p \in 1 .. Len(scopes) /\ Parent(k) = scopes[p] /\ k \in Nat
    BY <1>1, <2>1, Index
  <2>3. scopes[p].node = Innermost(D)
    BY <1>1, <1>8, Meant DEF Least1
  <2>4. m = Innermost(D)
    BY <1>6 DEF MeantBy
  <2>5. /\ scopes[p].node \in 1 .. Len(tree) /\ scopes[p].kind = tree[scopes[p].node].form
        /\ scopes[p].kind = "block" => p = Place(tree, scopes[p].node, 1)
        /\ scopes[p].kind = "block" => scopes[p].names = tree[scopes[p].node].names
        /\ \E n \in Around(tree, h) : \E j \in 1 .. OpensIn(tree, n) :
                 p = Place(tree, n, j) /\ ScopeOf(Names, tree, scopes[p], n, j)
    BY <1>1, <2>2, Alive
  <2> HIDE DEF D, h, p, b, q
  <2>6. scopes[p].node = m /\ m \in 1 .. Len(tree) /\ u[m] = tree[m]
    BY <2>3, <2>4, <2>5 DEF Grows
  <2> HIDE DEF m
  <2>7. k = c => m = b
    BY <2>6 DEF p, q, b
  <2>8. m = b => k = c
    <3> SUFFICES ASSUME m = b PROVE k = c
      OBVIOUS
    <3>1. p = Place(tree, b, 1)
      BY <1>2, <2>5, <2>6
    <3>2. p = q
      BY <1>2, <3>1
    <3>3. p = Len(scopes) - k /\ q = Len(scopes) - c
      BY DEF p, q, At
    <3> DEFINE n == Len(scopes)
    <3>4. n \in Nat /\ k \in Nat /\ c \in Nat
      BY <1>1, <1>3, <2>2
    <3>5. n - k = n - c
      BY <3>2, <3>3
    <3> HIDE DEF k, c, n
    <3>6. QED BY <3>4, <3>5
  <2>9. UseFor(u, Id) = UseOf(x)
    <3>1. UseFor(u, Id) = IF tree[m].form = "block" THEN tree[m].names[x] ELSE "field"
      BY <1>6, <1>7, <1>8, <2>6 DEF UseFor, m
    <3>2. CASE tree[m].form = "block"
      BY <2>1, <2>2, <2>5, <2>6, <3>1, <3>2
    <3>3. CASE tree[m].form # "block"
      <4>1. scopes[p].names[x] # "none"
        BY <2>1, <2>2 DEF Declaring
      <4>2. PICK n \in Around(tree, h) : \E j \in 1 .. OpensIn(tree, n) : ScopeOf(Names, tree, scopes[p], n, j)
        BY <2>5
      <4>3. PICK j \in 1 .. OpensIn(tree, n) : ScopeOf(Names, tree, scopes[p], n, j)
        BY <4>2
      <4>4. tree[n].form # "block"
        BY <2>5, <2>6, <3>3, <4>3 DEF ScopeOf
      <4>5. scopes[p].names[x] = "field"
        BY <4>1, <4>3, <4>4 DEF ScopeOf
      <4>6. QED BY <2>1, <2>2, <3>1, <3>3, <4>5
    <3>4. QED BY <3>2, <3>3
  <2>10. QED BY <1>5, <2>2, <2>6, <2>7, <2>8, <2>9
<1>9. Declaring(x) = {} => UseFor(u, Id) = UseOf(x)
  BY <1>6, <1>7 DEF UseFor, UseOf
<1> HIDE DEF k, c, x, m
<1>10. QED BY <1>5, <1>8, <1>9 DEF b, p, q, k, c, x, m

-----------------------------------------------------------------------------
(* Threats to control variables.                                           *)

(* A loop with x as its control variable is around what is in node p.      *)
Loops(t, p, x) == \E f \in Around(t, p) : t[f].form = "for" /\ t[f].arg = x

(* Node n may change the variable x of block b from a subroutine of b, and *)
(* one of the first n nodes does.                                          *)
Far(t, n, x, b) == Changes(t, n) /\ t[n].arg = x /\ MeantBy(t, n) = b /\ HomeBlock(t, n) # b
FarUpTo(t, n, x, b) == \E m \in 1 .. n : Far(t, m, x, b)

Warned(t, n) ==
    /\ Changes(t, n) /\ MeantBy(t, n) = HomeBlock(t, n)
    /\ \/ Loops(t, t[n].parent, t[n].arg)
       \/ t[n].form = "for" /\ FarUpTo(t, n - 1, t[n].arg, HomeBlock(t, n))

(* The task leads to statements in the blocks that block b declares.       *)
Into(t, task, b) ==
    /\ task.op \notin LeaveOps /\ b \in Around(t, task.parent)
    /\ task.op = "statement" => InBlock(t, task.parent) # b

(* The statements of the blocks that a block declares come before its own. *)
NodesOrdered(t) ==
    \A n, m \in 1 .. Len(t) :
        /\ t[n].form # "block" /\ t[m].form # "block"
        /\ HomeBlock(t, n) \in Around(t, t[m].parent) /\ HomeBlock(t, m) # HomeBlock(t, n)
        => m < n
TasksOrdered(t, ts) ==
    /\ \A n \in 1 .. Len(t), k \in 1 .. Len(ts) :
          t[n].form # "block" => ~Into(t, ts[k], HomeBlock(t, n))
    /\ \A j, k \in 1 .. Len(ts) :
          j < k /\ ts[j].op = "statement" => ~Into(t, ts[k], InBlock(t, ts[j].parent))

ThreatsRight(t, ss) ==
    \A p \in 1 .. Len(ss) : \A x : x \in ss[p].threats <=> FarUpTo(t, Len(t), x, ss[p].node)
UsedRight(t, ts) ==
    \A k \in 1 .. Len(ts) : ts[k].op = "statement" =>
        \A x : x \in ts[k].used <=> Loops(t, ts[k].parent, x)
WarnsRight(t, es) == \A n \in 1 .. Len(t) : Reported(es, Threat, n) <=> Warned(t, n)

ThreateningOf(t, ts, ss, es) ==
    /\ ThreatsRight(t, ss) /\ UsedRight(t, ts) /\ WarnsRight(t, es)
    /\ NodesOrdered(t) /\ TasksOrdered(t, ts)
Threatening == ThreateningOf(tree, tasks, scopes, errors)

(* What may be changed is a variable of a block around.                    *)
LEMMA ChangesMean ==
    ASSUME NEW t, IsTree(t), NEW n \in 1 .. Len(t), Changes(t, n)
    PROVE  /\ Found(t, n) # {} /\ MeantBy(t, n) \in Around(t, t[n].parent)
           /\ MeantBy(t, n) \in 1 .. n - 1 /\ t[MeantBy(t, n)].form = "block"
<1> DEFINE D == Found(t, n)
           m == MeantBy(t, n)
           a == t[n].parent
<1>1. IsVariable(UseFor(t, n))
  BY DEF Changes
<1>2. D # {} /\ t[m].form = "block"
  BY <1>1 DEF IsVariable, UseFor
<1>3. a \in 0 .. n - 1 /\ a \in 0 .. Len(t) /\ n \in Nat
  BY Unfold
<1>4. Around(t, a) \subseteq 1 .. a
  <2> HIDE DEF a
  <2>1. QED BY <1>3, Lines DEF Line
<1>5. D \subseteq Around(t, a)
  BY DEF Found, DeclaringIn
<1>6. m \in D
  <2> HIDE DEF a, D
  <2>1. D \subseteq 0 .. a /\ a \in Nat
    BY <1>3, <1>4, <1>5
  <2>2. Innermost(D) \in D
    BY <1>2, <2>1, InnermostOf
  <2>3. QED BY <2>2 DEF MeantBy, D
<1> HIDE DEF a, D, m
<1>7. m \in Around(t, a) /\ m \in 1 .. n - 1
  BY <1>3, <1>4, <1>5, <1>6
<1>8. QED BY <1>2, <1>7 DEF a, D, m

LEMMA FarStable ==
    ASSUME NEW t, NEW u, Grows(t, u)
    PROVE  /\ \A n \in 1 .. Len(t) : \A x, b : Far(u, n, x, b) <=> Far(t, n, x, b)
           /\ \A p \in 0 .. Len(t) : \A x : Loops(u, p, x) <=> Loops(t, p, x)
           /\ \A x, b : FarUpTo(u, Len(t), x, b) <=> FarUpTo(t, Len(t), x, b)
           /\ \A x, b : FarUpTo(u, Len(u), x, b) <=>
                 FarUpTo(t, Len(t), x, b) \/ Far(u, Len(u), x, b)
           /\ \A n \in 1 .. Len(t) : Warned(u, n) <=> Warned(t, n)
<1>1. IsTree(t) /\ Len(t) \in Nat /\ Len(u) = Len(t) + 1
  BY SequentialMeans DEF Grows, IsTree
<1>2. ASSUME NEW n \in 1 .. Len(t), NEW x, NEW b
      PROVE  Far(u, n, x, b) <=> Far(t, n, x, b)
  BY FoundStable DEF Far
<1>3. ASSUME NEW p \in 0 .. Len(t), NEW x
      PROVE  Loops(u, p, x) <=> Loops(t, p, x)
  <2>1. Around(u, p) = Around(t, p)
    BY Stable
  <2>2. \A f \in Around(t, p) : f \in 1 .. Len(t)
    BY <1>1, Lines DEF Line
  <2>3. \A f \in Around(t, p) : u[f] = t[f]
    BY <2>2 DEF Grows
  <2>4. QED BY <2>1, <2>3 DEF Loops
<1>4. ASSUME NEW n \in 0 .. Len(t), NEW x, NEW b
      PROVE  FarUpTo(u, n, x, b) <=> FarUpTo(t, n, x, b)
  BY <1>1, <1>2 DEF FarUpTo
<1>5. Len(t) \in 0 .. Len(t)
  BY <1>1
<1>6. ASSUME NEW x, NEW b
      PROVE  FarUpTo(u, Len(u), x, b) <=> FarUpTo(t, Len(t), x, b) \/ Far(u, Len(u), x, b)
  BY <1>1, <1>2 DEF FarUpTo
<1>7. ASSUME NEW n \in 1 .. Len(t)
      PROVE  Warned(u, n) <=> Warned(t, n)
  <2>1. u[n] = t[n] /\ HomeBlock(u, n) = HomeBlock(t, n) /\ MeantBy(u, n) = MeantBy(t, n)
        /\ (Changes(u, n) <=> Changes(t, n))
    BY FoundStable
  <2>2. t[n].parent \in 0 .. Len(t)
    BY <1>1, Unfold
  <2>3. \A x : Loops(u, t[n].parent, x) <=> Loops(t, t[n].parent, x)
    BY <1>3, <2>2
  <2>4. n - 1 \in 0 .. Len(t)
    BY <1>1
  <2>5. \A x, b : FarUpTo(u, n - 1, x, b) <=> FarUpTo(t, n - 1, x, b)
    BY <1>4, <2>4
  <2>6. QED BY <2>1, <2>3, <2>5 DEF Warned
<1>8. QED BY <1>2, <1>3, <1>4, <1>5, <1>6, <1>7

LEMMA IntoStable ==
    ASSUME NEW t, NEW u, Grows(t, u), NEW task, TaskRight(t, task), task.op \notin LeaveOps
    PROVE  /\ InBlock(u, task.parent) = InBlock(t, task.parent)
           /\ \A b : Into(u, task, b) <=> Into(t, task, b)
           /\ ~Into(u, task, Len(u))
<1> DEFINE p == task.parent
<1>1. IsTree(t) /\ Len(t) \in Nat /\ Len(u) = Len(t) + 1
  BY SequentialMeans DEF Grows, IsTree
<1>2. p \in 0 .. Len(t)
  BY DEF TaskRight, Home, LeaveOps
<1> HIDE DEF p
<1>3. Around(u, p) = Around(t, p)
  BY <1>2, Stable
<1>4. \A b \in Around(t, p) : b \in 1 .. Len(t)
  BY <1>1, <1>2, Lines DEF Line
<1>5. \A b \in Around(t, p) : u[b] = t[b]
  BY <1>4 DEF Grows
<1>6. {b \in Around(u, p) : u[b].form = "block"} = {b \in Around(t, p) : t[b].form = "block"}
  BY <1>3, <1>5
<1>7. InBlock(u, p) = InBlock(t, p)
  BY <1>6 DEF InBlock
<1>8. Len(u) \notin Around(t, p)
  BY <1>1, <1>4
<1>9. QED BY <1>3, <1>7, <1>8 DEF Into, p

(* The tasks when these come in place of the first.                        *)
InPlace(new, r, s) ==
    \A k \in 1 .. Len(new) :
        \/ k \in 1 .. Len(r) /\ new[k] = r[k]
        \/ \E i \in 2 .. Len(s) : k = Len(r) + i - 1 /\ new[k] = s[i]

LEMMA ReplacedPlaces ==
    ASSUME NEW s, Sequential(s), s # <<>>, NEW r, Sequential(r)
    PROVE  InPlace(r \o Tail(s), r, s)
<1> DEFINE new == r \o Tail(s)
<1>1. /\ Len(new) = Len(r) + Len(s) - 1
      /\ \A k \in 1 .. Len(r) : new[k] = r[k]
      /\ \A k \in 2 .. Len(s) : new[Len(r) + k - 1] = s[k]
  BY Replaced
<1>2. Len(r) \in Nat /\ Len(s) \in Nat
  BY SequentialMeans
<1> HIDE DEF new
<1>3. ASSUME NEW k \in 1 .. Len(new), k \notin 1 .. Len(r)
      PROVE  \E i \in 2 .. Len(s) : k = Len(r) + i - 1 /\ new[k] = s[i]
  <2> DEFINE i == k - Len(r) + 1
  <2>1. i \in 2 .. Len(s) /\ k = Len(r) + i - 1
    BY <1>1, <1>2, <1>3
  <2> HIDE DEF i
  <2>2. QED BY <1>1, <2>1
<1>4. InPlace(new, r, s)
  BY <1>3, <1>1 DEF InPlace
<1>5. QED BY <1>4 DEF new

(* What comes in place of a task for a statement or a block is inside its  *)
(* node: the statements last, and of a statement nothing else.             *)
Deeper(inside, n, statement) ==
    /\ Sequential(inside)
    /\ \A k \in 1 .. Len(inside) : inside[k].op \notin LeaveOps =>
          inside[k].parent = n /\ (statement => inside[k].op = "statement")
    /\ \A j, k \in 1 .. Len(inside) :
          j < k /\ inside[j].op = "statement" /\ inside[k].op \notin LeaveOps =>
              inside[k].op = "statement"

(* The node last added, and the task that it was for.                      *)
Visited(t, ts, u) ==
    /\ Grows(t, u) /\ TasksRight(t, ts) /\ ts # <<>> /\ u[Len(u)].parent = ts[1].parent
    /\ ts[1].op = IF u[Len(u)].form = "block" THEN "block" ELSE "statement"

LEMMA VisitedMeans ==
    ASSUME NEW t, NEW ts, NEW u, Visited(t, ts, u)
    PROVE  /\ IsTree(t) /\ IsTree(u) /\ Len(t) \in Nat /\ Len(u) = Len(t) + 1
           /\ Len(u) \in 1 .. Len(u) /\ Len(ts) \in Nat /\ 1 \in 1 .. Len(ts)
           /\ ts[1].parent \in 0 .. Len(t) /\ ts[1].op \notin LeaveOps /\ TaskRight(t, ts[1])
           /\ \A n : n \in 1 .. Len(u) <=> n \in 1 .. Len(t) \/ n = Len(u)
           /\ u[Len(u)].form # "block" =>
                 /\ HomeBlock(u, Len(u)) = InBlock(t, ts[1].parent)
                 /\ InBlock(u, Len(u)) = InBlock(t, ts[1].parent)
           /\ u[Len(u)].form = "block" => InBlock(u, Len(u)) = Len(u)
           /\ Around(u, Len(u)) = {Len(u)} \cup Around(t, ts[1].parent)
<1> DEFINE n == Len(u)
           p == ts[1].parent
<1>1. IsTree(t) /\ IsTree(u) /\ Len(t) \in Nat /\ n = Len(t) + 1 /\ n \in 1 .. n
  BY SequentialMeans DEF Visited, Grows, IsTree
<1>2. Sequential(ts) /\ Len(ts) \in Nat /\ 1 \in 1 .. Len(ts)
  BY EmptySequence, SequentialMeans DEF Visited, TasksRight
<1>3. ts[1].op \notin LeaveOps /\ TaskRight(t, ts[1])
  BY <1>2 DEF Visited, LeaveOps, TasksRight
<1>4. p \in 0 .. Len(t)
  BY <1>3 DEF TaskRight, Home, LeaveOps
<1> HIDE DEF n, p
<1>5. u[n].parent = p
  BY DEF Visited, n, p
<1>6. Around(u, n) = {n} \cup Around(t, p)
  <2>1. Around(u, n) = {n} \cup Around(u, u[n].parent)
    BY <1>1, Unfold DEF n
  <2>2. Around(u, p) = Around(t, p)
    BY <1>4, Stable DEF Visited
  <2>3. QED BY <1>5, <2>1, <2>2
<1>7. ASSUME u[n].form # "block"
      PROVE  HomeBlock(u, n) = InBlock(t, p) /\ InBlock(u, n) = InBlock(t, p)
  <2>1. HomeBlock(u, n) = InBlock(u, p)
    BY <1>5, HomeIsInBlock
  <2>2. InBlock(u, p) = InBlock(t, p)
    BY <1>3, IntoStable DEF p, Visited
  <2>3. n \in Around(u, n)
    BY <1>6
  <2>4. InBlock(u, n) = HomeBlock(u, n)
    BY <1>1, <1>7, <2>3, SameBlock DEF n
  <2>5. QED BY <2>1, <2>2, <2>4
<1>8. ASSUME u[n].form = "block"
      PROVE  InBlock(u, n) = n
  <2> DEFINE b == InBlock(u, n)
  <2>1. b \in 1 .. n /\ \A c \in Around(u, n) : u[c].form = "block" => c <= b
    BY <1>1, InBlockIs DEF n
  <2>2. n \in Around(u, n)
    BY <1>6
  <2> HIDE DEF b
  <2>3. n <= b
    BY <1>8, <2>1, <2>2
  <2>4. b = n
    BY <1>1, <2>1, <2>3
  <2>5. QED BY <2>4 DEF b
<1>9. \A m : m \in 1 .. n <=> m \in 1 .. Len(t) \/ m = n
  BY <1>1
<1>10. QED BY <1>1, <1>2, <1>3, <1>4, <1>6, <1>7, <1>8, <1>9 DEF n, p

LEMMA NodesGrow ==
    ASSUME NEW t, NEW ts, NEW u, Visited(t, ts, u), NodesOrdered(t), TasksOrdered(t, ts)
    PROVE  NodesOrdered(u)
<1> DEFINE i == Len(u)
           p == ts[1].parent
<1>1. /\ IsTree(t) /\ IsTree(u) /\ Len(t) \in Nat /\ i = Len(t) + 1 /\ 1 \in 1 .. Len(ts)
      /\ p \in 0 .. Len(t) /\ ts[1].op \notin LeaveOps
      /\ \A n : n \in 1 .. Len(u) <=> n \in 1 .. Len(t) \/ n = i
      /\ u[i].form # "block" => HomeBlock(u, i) = InBlock(t, p)
  BY VisitedMeans
<1>2. u[i].parent = p /\ (u[i].form # "block" => ts[1].op = "statement") /\ Grows(t, u)
  BY DEF Visited
<1> HIDE DEF i, p
<1>3. ASSUME NEW n \in 1 .. Len(t)
      PROVE  /\ u[n] = t[n] /\ HomeBlock(u, n) = HomeBlock(t, n)
             /\ Around(u, u[n].parent) = Around(t, t[n].parent)
  <2>1. u[n] = t[n] /\ HomeBlock(u, n) = HomeBlock(t, n)
    BY <1>2, HomeBlockStable
  <2>2. t[n].parent \in 0 .. Len(t)
    BY <1>1, Unfold
  <2>3. QED BY <1>2, <2>1, <2>2, Stable
<1>4. Around(u, p) = Around(t, p)
  BY <1>1, <1>2, Stable
<1>5. ASSUME NEW n \in 1 .. Len(u), NEW m \in 1 .. Len(u),
             u[n].form # "block", u[m].form # "block",
             HomeBlock(u, n) \in Around(u, u[m].parent), HomeBlock(u, m) # HomeBlock(u, n)
      PROVE  m < n
  <2>1. CASE n \in 1 .. Len(t) /\ m \in 1 .. Len(t)
    BY <1>3, <1>5, <2>1 DEF NodesOrdered
  <2>2. CASE n = i /\ m \in 1 .. Len(t)
    BY <1>1, <2>2
  <2>3. CASE n \in 1 .. Len(t) /\ m = i
    BY <1>1, <1>2, <1>3, <1>4, <1>5, <2>3 DEF Into, p, TasksOrdered
  <2>4. CASE n = i /\ m = i
    BY <1>5, <2>4
  <2>5. QED BY <1>1, <2>1, <2>2, <2>3, <2>4
<1>6. QED BY <1>5 DEF NodesOrdered

LEMMA OrderedNode ==
    ASSUME NEW t, NEW ts, NEW u, Visited(t, ts, u), TasksOrdered(t, ts),
           NEW inside, Deeper(inside, Len(u), u[Len(u)].form # "block")
    PROVE  TasksOrdered(u, inside \o Tail(ts))
<1> DEFINE i == Len(u)
           p == ts[1].parent
           us == inside \o Tail(ts)
<1>1. /\ IsTree(t) /\ IsTree(u) /\ Len(t) \in Nat /\ i = Len(t) + 1 /\ 1 \in 1 .. Len(ts)
      /\ p \in 0 .. Len(t) /\ ts[1].op \notin LeaveOps /\ Len(ts) \in Nat
      /\ \A n : n \in 1 .. Len(u) <=> n \in 1 .. Len(t) \/ n = i
      /\ u[i].form # "block" => HomeBlock(u, i) = InBlock(t, p) /\ InBlock(u, i) = InBlock(t, p)
      /\ u[i].form = "block" => InBlock(u, i) = i
      /\ Around(u, i) = {i} \cup Around(t, p)
  BY VisitedMeans
<1>2. /\ Grows(t, u) /\ Sequential(ts) /\ ts # <<>> /\ TasksRight(t, ts)
      /\ ts[1].op = IF u[i].form = "block" THEN "block" ELSE "statement"
  BY DEF Visited, TasksRight
<1>3. Sequential(inside) /\ Len(inside) \in Nat
  BY SequentialMeans DEF Deeper
<1>4. InPlace(us, inside, ts)
  BY <1>2, <1>3, ReplacedPlaces
<1> HIDE DEF us, p
<1> USE DEF InPlace
<1>5. ASSUME NEW k \in 1 .. Len(inside), inside[k].op \notin LeaveOps
      PROVE  /\ inside[k].parent = i
             /\ u[i].form # "block" => inside[k].op = "statement"
  BY <1>5 DEF Deeper
<1> HIDE DEF i
(* Nothing inside leads into a block that statements are in already.       *)
<1>6. ASSUME NEW n \in 1 .. Len(u), u[n].form # "block", NEW k \in 1 .. Len(inside)
      PROVE  ~Into(u, inside[k], HomeBlock(u, n))
  <2> SUFFICES ASSUME Into(u, inside[k], HomeBlock(u, n)) PROVE FALSE
    OBVIOUS
  <2> DEFINE b == HomeBlock(u, n)
  <2>1. inside[k].op \notin LeaveOps /\ b \in Around(u, i)
        /\ (inside[k].op = "statement" => InBlock(u, i) # b)
    BY <1>5 DEF Into
  <2>2. b \in 1 .. n - 1
    BY <1>1, <1>6, HomeBlockIs
  <2>3. CASE n = i
    BY <1>1, <1>5, <1>6, <2>1, <2>3
  <2>4. CASE n \in 1 .. Len(t)
    <3>1. t[n].form # "block" /\ b = HomeBlock(t, n)
      BY <1>2, <1>6, <2>4, HomeBlockStable
    <3> HIDE DEF b
    <3>2. b # i
      BY <1>1, <2>2, <2>4
    <3>3. b \in Around(t, p)
      BY <1>1, <2>1, <3>2
    <3>4. ts[1].op = "statement" => InBlock(t, p) # b
      BY <1>1, <1>2, <1>5, <2>1
    <3>5. Into(t, ts[1], b)
      BY <1>1, <3>3, <3>4 DEF Into, p
    <3>6. QED BY <1>1, <2>4, <3>1, <3>5 DEF TasksOrdered
  <2>5. QED BY <1>1, <2>3, <2>4
<1>7. ASSUME NEW j \in 2 .. Len(ts)
      PROVE  /\ j \in 1 .. Len(ts) /\ 1 < j
             /\ \A b : Into(u, ts[j], b) <=> Into(t, ts[j], b)
             /\ ts[j].op = "statement" => InBlock(u, ts[j].parent) = InBlock(t, ts[j].parent)
             /\ ~Into(u, ts[j], i)
  <2>1. j \in 1 .. Len(ts) /\ 1 < j
    BY <1>1
  <2>2. TaskRight(t, ts[j])
    BY <1>2, <2>1 DEF TasksRight
  <2>3. CASE ts[j].op \in LeaveOps
    BY <2>1, <2>3 DEF Into, LeaveOps
  <2>4. CASE ts[j].op \notin LeaveOps
    BY <1>2, <2>1, <2>2, <2>4, IntoStable DEF i
  <2>5. QED BY <2>3, <2>4
<1>8. ASSUME NEW n \in 1 .. Len(u), u[n].form # "block", NEW j \in 2 .. Len(ts)
      PROVE  ~Into(u, ts[j], HomeBlock(u, n))
  <2>1. CASE n = i
    <3>1. ts[1].op = "statement" /\ HomeBlock(u, n) = InBlock(t, ts[1].parent)
      BY <1>1, <1>2, <1>8, <2>1 DEF p
    <3>2. ~Into(t, ts[j], InBlock(t, ts[1].parent))
      BY <1>1, <1>7, <3>1 DEF TasksOrdered
    <3>3. QED BY <1>7, <3>1, <3>2
  <2>2. CASE n \in 1 .. Len(t)
    <3>1. t[n].form # "block" /\ HomeBlock(u, n) = HomeBlock(t, n)
      BY <1>2, <1>8, <2>2, HomeBlockStable
    <3>2. QED BY <1>7, <2>2, <3>1 DEF TasksOrdered
  <2>3. QED BY <1>1, <2>1, <2>2
<1>9. ASSUME NEW n \in 1 .. Len(u), NEW k \in 1 .. Len(us), u[n].form # "block"
      PROVE  ~Into(u, us[k], HomeBlock(u, n))
  BY <1>4, <1>6, <1>8, <1>9
<1>10. ASSUME NEW j \in 1 .. Len(us), NEW k \in 1 .. Len(us), j < k, us[j].op = "statement"
       PROVE  ~Into(u, us[k], InBlock(u, us[j].parent))
  <2>1. CASE j \in 1 .. Len(inside) /\ us[j] = inside[j]
    <3>1. us[j].parent = i
      BY <1>5, <1>10, <2>1 DEF LeaveOps
    <3>2. CASE k \in 1 .. Len(inside) /\ us[k] = inside[k]
      BY <1>5, <1>10, <2>1, <3>2, <3>1 DEF Deeper, Into
    <3>3. ASSUME NEW m \in 2 .. Len(ts), us[k] = ts[m]
          PROVE  ~Into(u, us[k], InBlock(u, us[j].parent))
      <4>1. CASE u[i].form = "block"
        BY <1>1, <1>7, <3>1, <3>3, <4>1
      <4>2. CASE u[i].form # "block"
        BY <1>1, <1>2, <3>1, <4>2, <1>7, <3>3 DEF p, TasksOrdered
      <4>3. QED BY <4>1, <4>2
    <3>4. QED BY <1>4, <3>2, <3>3
  <2>2. ASSUME NEW l \in 2 .. Len(ts), j = Len(inside) + l - 1, us[j] = ts[l]
        PROVE  ~Into(u, us[k], InBlock(u, us[j].parent))
    <3>1. k \notin 1 .. Len(inside)
      BY <1>1, <1>3, <1>10, <2>2
    <3>2. PICK m \in 2 .. Len(ts) : k = Len(inside) + m - 1 /\ us[k] = ts[m]
      BY <1>4, <3>1
    <3>3. l < m
      BY <1>1, <1>3, <1>10, <2>2, <3>2
    <3>4. ~Into(t, ts[m], InBlock(t, ts[l].parent))
      BY <1>7, <1>10, <2>2, <3>3 DEF TasksOrdered
    <3>5. QED BY <1>7, <1>10, <2>2, <3>2, <3>4
  <2>3. QED BY <1>4, <2>1, <2>2
<1>11. QED BY <1>9, <1>10 DEF TasksOrdered, us

(* A step that adds no node: what comes for a task is in the same place.   *)
LEMMA OrderedSame ==
    ASSUME NEW t, NEW ts, Sequential(ts), ts # <<>>, TasksOrdered(t, ts),
           NEW inside, Sequential(inside),
           \A k \in 1 .. Len(inside) :
               /\ inside[k].op # "statement" /\ inside[k].parent = ts[1].parent
               /\ ts[1].op \notin LeaveOps \cup {"statement"}
    PROVE  TasksOrdered(t, inside \o Tail(ts))
<1> DEFINE us == inside \o Tail(ts)
<1>1. Len(inside) \in Nat /\ Len(ts) \in Nat /\ 1 \in 1 .. Len(ts)
  BY SequentialMeans, EmptySequence
<1>2. InPlace(us, inside, ts)
  BY ReplacedPlaces
<1> HIDE DEF us
<1> USE DEF InPlace
<1>3. \A j \in 2 .. Len(ts) : j \in 1 .. Len(ts)
  BY <1>1
<1>4. ASSUME NEW k \in 1 .. Len(inside), NEW b, Into(t, inside[k], b)
      PROVE  Into(t, ts[1], b)
  BY <1>4 DEF Into
<1>5. ASSUME NEW n \in 1 .. Len(t), NEW k \in 1 .. Len(us), t[n].form # "block"
      PROVE  ~Into(t, us[k], HomeBlock(t, n))
  <2>1. CASE k \in 1 .. Len(inside) /\ us[k] = inside[k]
    BY <1>1, <1>4, <1>5, <2>1 DEF TasksOrdered
  <2>2. QED BY <1>2, <1>3, <1>5, <2>1 DEF TasksOrdered
<1>6. ASSUME NEW j \in 1 .. Len(us), NEW k \in 1 .. Len(us), j < k, us[j].op = "statement"
      PROVE  ~Into(t, us[k], InBlock(t, us[j].parent))
  <2>1. PICK l \in 2 .. Len(ts) : j = Len(inside) + l - 1 /\ us[j] = ts[l]
    BY <1>2, <1>6
  <2>2. k \notin 1 .. Len(inside)
    BY <1>1, <1>6, <2>1
  <2>3. PICK m \in 2 .. Len(ts) : k = Len(inside) + m - 1 /\ us[k] = ts[m]
    BY <1>2, <2>2
  <2>4. l < m
    BY <1>1, <1>6, <2>1, <2>3
  <2>5. QED BY <1>3, <1>6, <2>1, <2>3, <2>4 DEF TasksOrdered
<1>7. QED BY <1>5, <1>6 DEF TasksOrdered, us

(* The scopes after a statement: those before, and those of its records,   *)
(* of which nothing is known yet.                                          *)
LEMMA ScopesAfter ==
    ASSUME Coherence, IsVocabulary(vocabulary), Doing("statement"),
           NEW form, NEW arg, NEW refers, NEW fine, NEW errs, NEW ns, NEW inside,
           Resolve(form, arg, refers, fine, errs, ns, inside),
           Resolved(form, arg, refers, fine, errs, ns, inside)
    PROVE  /\ \A p \in 1 .. Len(scopes) : p \in 1 .. Len(ns) /\ ns[p].node = scopes[p].node
           /\ \A p \in 1 .. Len(ns) : p \notin 1 .. Len(scopes) =>
                 ns[p].node = Id /\ ns[p].threats = {} /\ ~ns[p].assigned
<1>1. Len(scopes) \in Nat /\ tasks # <<>> /\ Len(PrefixedScopes) = Len(scopes)
  BY Prefixing, Here
<1>2. CASE Ordinary(form, arg, refers, fine, errs, ns, inside)
           \/ Going(form, arg, refers, fine, errs, ns, inside)
  <2>1. Touched(ns)
    BY <1>2, PrefixedTouched DEF Ordinary, Going
  <2>2. Len(ns) = Len(scopes) /\ Kept(Names, tree, Len(scopes), scopes, ns)
    BY <1>1, <2>1 DEF Touched, Alike
  <2>3. ASSUME NEW p \in 1 .. Len(scopes) PROVE ns[p].node = scopes[p].node
    <3>1. PICK m \in Around(tree, Home(Task)) : \E j \in 1 .. OpensIn(tree, m) :
                  p = Place(tree, m, j) /\ ScopeOf(Names, tree, scopes[p], m, j)
      BY <1>1, Alive
    <3>2. PICK j \in 1 .. OpensIn(tree, m) : ScopeOf(Names, tree, scopes[p], m, j)
      BY <3>1
    <3>3. m \in 1 .. Len(tree) /\ j \in Nat
      BY <1>1, Here, Placed
    <3>4. ScopeOf(Names, tree, ns[p], m, j)
      BY <2>2, <3>2, <3>3 DEF Kept
    <3>5. QED BY <3>2, <3>4 DEF ScopeOf
  <2>4. QED BY <2>2, <2>3
<1>3. CASE Opening(form, arg, refers, fine, errs, ns, inside)
  <2>1. form = "with" /\ ns = Opened(arg)
    BY <1>3, Zenon DEF Opening
  <2>2. Sequential(arg) /\ Len(arg) \in Nat /\ tree'[Id].form = "with" /\ tree'[Id].arg = arg
    BY <2>1, StatementNode, SequentialMeans
  <2>3. /\ Len(ns) = Len(scopes) + Len(arg)
        /\ \A p \in 1 .. Len(scopes) : ns[p] = PrefixedScopes[p]
        /\ \A j \in 1 .. Len(arg) : ns[Len(scopes) + j] = WithScope(Id, arg[j])
    BY <2>1, <2>2, OpeningScopes
  <2>4. \A p \in 1 .. Len(scopes) : p \in 1 .. Len(ns) /\ ns[p].node = scopes[p].node
    BY <1>1, <2>2, <2>3, FieldsPrefixed
  <2>5. ASSUME NEW p \in 1 .. Len(ns), p \notin 1 .. Len(scopes)
        PROVE  ns[p].node = Id /\ ns[p].threats = {} /\ ~ns[p].assigned
    <3> DEFINE j == p - Len(scopes)
               u == tree'
    <3>1. j \in 1 .. Len(arg) /\ Len(scopes) + j = p
      BY <1>1, <2>2, <2>3, <2>5
    <3> HIDE DEF j
    <3>2. ns[p] = WithScope(Id, u[Id].arg[j])
      BY <2>2, <2>3, <3>1
    <3>3. ScopeOf(Names, u, WithScope(Id, u[Id].arg[j]), Id, j) /\ u[Id].form # "block"
      BY <2>2, OpenedScope
    <3> HIDE DEF u
    <3>4. ScopeOf(Names, u, ns[p], Id, j)
      BY <3>2, <3>3
    <3>5. ns[p].node = Id /\ ~ns[p].assigned
      BY <3>3, <3>4 DEF ScopeOf
    <3>6. \A x \in Names : ns[p].names[x] \in {"field", "none"}
      BY <3>3, <3>4 DEF ScopeOf
    <3>7. \A x \in ns[p].threats : x \in Names /\ IsVariable(ns[p].names[x])
      BY <3>4 DEF ScopeOf
    <3>8. ns[p].threats = {}
      BY <3>6, <3>7 DEF IsVariable
    <3>9. QED BY <3>5, <3>8
  <2>6. QED BY <2>4, <2>5
<1>4. QED BY <1>2, <1>3 DEF Resolved

(* What a step resolves, the tree says.                                    *)
LEMMA ResolvedNode ==
    ASSUME Coherence, Doing("statement"),
           NEW form, NEW arg, NEW refers, NEW fine, NEW errs, NEW ns, NEW inside,
           Resolve(form, arg, refers, fine, errs, ns, inside)
    PROVE  /\ tree'[Id].form = form /\ tree'[Id].arg = arg /\ tree'[Id].fine = fine
           /\ tasks' = inside \o Tail(tasks) /\ scopes' = ns
           /\ errors' = errors \cup LabelErrors \cup errs
<1> DEFINE e == [form |-> form, label |-> Task.label, parent |-> Task.parent,
                 inSequence |-> Task.inSequence, arg |-> arg, refers |-> refers, fine |-> fine]
<1>1. Sequential(tree)
  BY Prefixing, Here DEF IsTree
<1>2. tree' = Append(tree, e)
  BY DEF Resolve
<1>3. e.form = form /\ e.arg = arg /\ e.fine = fine
  OBVIOUS
<1> HIDE DEF e
<1>4. tree'[Id] = e
  BY <1>1, <1>2, Appended DEF Id
<1>5. QED BY <1>3, <1>4 DEF Resolve

LEMMA ReportedAfter ==
    ASSUME Coherence, Doing("statement"), ErrorsRight, NEW errs, \A e \in errs : e.at = Id,
           NEW fs, fs = errors \cup LabelErrors \cup errs
    PROVE  \A n \in 1 .. Len(tree) : \A code : Reported(fs, code, n) <=> Reported(errors, code, n)
    BY Prefixing, Here, LabelErrorsHere DEF Id, Reported

LEMMA ThreatReported ==
    ASSUME Coherence, Doing("statement"), ErrorsRight, NEW errs,
           NEW fs, fs = errors \cup LabelErrors \cup errs
    PROVE  Reported(fs, Threat, Id) <=> Coded(errs, Threat)
    BY Prefixing, Here, LabelErrorsHere DEF Id, Threat, ErrorsRight, Reported, Coded

(* What the step may change, and the place of the variable.                *)
LEMMA NodeChanges ==
    ASSUME Coherence, Doing("statement"), NEW u, Grows(tree, u), Id = Len(u),
           u[Id].parent = Task.parent, Inhabited(tree, Task.parent), Task.parent \in 1 .. Len(tree),
           u[Id].form \in Accessing => u[Id].arg \in Names
    PROVE  LET x == u[Id].arg
               p == At(Least1(x))
           IN  /\ Threatens(u[Id].form, x) <=> Changes(u, Id)
               /\ Changes(u, Id) =>
                     /\ p \in 1 .. Len(scopes) /\ scopes[p].node = MeantBy(u, Id)
                     /\ Least1(x) = ClosestContainingBlock <=> MeantBy(u, Id) = HomeBlock(u, Id)
                     /\ scopes[At(ClosestContainingBlock)].node = HomeBlock(u, Id)
                     /\ scopes[p].kind = "block"
<1> DEFINE x == u[Id].arg
           form == u[Id].form
           p == At(Least1(x))
<1>1. CASE form \notin Accessing
  BY <1>1 DEF Threatens, Changes
<1>2. CASE form \in Accessing
  <2>1. /\ scopes[At(ClosestContainingBlock)].node = HomeBlock(u, Id)
        /\ UseFor(u, Id) = UseOf(x)
        /\ Declaring(x) # {} =>
              /\ p \in 1 .. Len(scopes) /\ scopes[p].node = MeantBy(u, Id)
              /\ Least1(x) = ClosestContainingBlock <=> MeantBy(u, Id) = HomeBlock(u, Id)
    BY <1>2, Bridged
  <2>2. IsVariable(UseOf(x)) => Declaring(x) # {}
    BY DEF UseOf, IsVariable
  <2>3. u[1] = tree[1]
    BY Prefixing, Here DEF Grows
  <2> HIDE DEF x, form, p
  <2>5. Threatens(form, x) <=> Changes(u, Id)
    BY <2>1, <2>2, <2>3 DEF Threatens, Changes, OwnOrdinal, OwnFor, form
  <2>6. ASSUME Changes(u, Id) PROVE scopes[p].kind = "block"
    <3>1. Declaring(x) # {}
      BY <2>1, <2>2, <2>6 DEF Changes
    <3>2. tree[scopes[p].node].form = scopes[p].kind /\ scopes[p].node \in 1 .. Len(tree)
      BY <2>1, <3>1, Prefixing, Alive
    <3>3. Id \in 1 .. Len(u) /\ IsTree(u)
      BY Prefixing, Here DEF Grows
    <3>4. u[MeantBy(u, Id)].form = "block"
      BY <2>6, <3>3, ChangesMean
    <3>5. u[MeantBy(u, Id)] = tree[MeantBy(u, Id)]
      BY <2>1, <3>1, <3>2 DEF Grows
    <3>6. QED BY <2>1, <3>1, <3>2, <3>4, <3>5
  <2>7. ASSUME Changes(u, Id) PROVE Declaring(x) # {}
    BY <2>1, <2>2, <2>7 DEF Changes
  <2>8. QED BY <2>1, <2>5, <2>6, <2>7 DEF x, form, p
<1>3. QED BY <1>1, <1>2

(* A statement reports the threats that it is, or suffers.                 *)
LEMMA WarnsStatement ==
    ASSUME Coherence, Doing("statement"), ErrorsRight,
           ThreatsRight(tree, scopes), UsedRight(tree, tasks), WarnsRight(tree, errors),
           NEW u, Grows(tree, u), Id = Len(u), Id = Len(tree) + 1,
           u[Id].parent = Task.parent, Inhabited(tree, Task.parent), Task.parent \in 1 .. Len(tree),
           u[Id].form \in Accessing => u[Id].arg \in Names,
           NEW errs, Warns(u[Id].form, u[Id].arg, errs), NEW fs,
           \A n \in 1 .. Len(tree) : \A code : Reported(fs, code, n) <=> Reported(errors, code, n),
           Reported(fs, Threat, Id) <=> Coded(errs, Threat)
    PROVE  WarnsRight(u, fs)
<1> DEFINE x == u[Id].arg
           form == u[Id].form
           q == At(ClosestContainingBlock)
           h == HomeBlock(u, Id)
<1>1. /\ Len(tree) \in Nat /\ Task = tasks[1] /\ tasks # <<>> /\ IsTree(tree)
      /\ 1 \in 1 .. Len(tasks) /\ Home(Task) # 0
  BY Here, Prefixing, EmptySequence DEF TasksRight
<1>2. /\ Threatens(form, x) <=> Changes(u, Id)
      /\ Changes(u, Id) =>
            /\ Least1(x) = ClosestContainingBlock <=> MeantBy(u, Id) = h
            /\ scopes[q].node = h
  BY NodeChanges
<1>3. x \in Task.used <=> Loops(u, u[Id].parent, x)
  BY <1>1, FarStable DEF UsedRight, Doing
<1>4. q \in 1 .. Len(scopes) /\ Parent(ClosestContainingBlock) = scopes[q]
  BY <1>1, Closest DEF Parent
<1>5. Changes(u, Id) =>
         (x \in Parent(ClosestContainingBlock).threats <=> FarUpTo(u, Id - 1, x, h))
  <2> SUFFICES ASSUME Changes(u, Id)
               PROVE  x \in Parent(ClosestContainingBlock).threats <=> FarUpTo(u, Id - 1, x, h)
    OBVIOUS
  <2>1. scopes[q].node = h
    BY <1>2
  <2> HIDE DEF q, x, h
  <2>2. x \in scopes[q].threats <=> FarUpTo(tree, Len(tree), x, scopes[q].node)
    BY <1>4 DEF ThreatsRight
  <2>3. Id - 1 = Len(tree)
    BY <1>1
  <2>4. QED BY <1>4, <2>1, <2>2, <2>3, FarStable
<1> HIDE DEF x, form, q, h
<1>6. Coded(errs, Threat) <=>
         /\ Threatens(form, x) /\ Least1(x) = ClosestContainingBlock
         /\ x \in Task.used \/ (form = "for" /\ x \in Parent(ClosestContainingBlock).threats)
  BY DEF Warns, x, form
<1>7. Reported(fs, Threat, Id) <=> Warned(u, Id)
  BY <1>2, <1>3, <1>5, <1>6 DEF Warned, x, form, h
<1>8. ASSUME NEW n \in 1 .. Len(tree)
      PROVE  Reported(fs, Threat, n) <=> Warned(u, n)
  BY FarStable DEF WarnsRight
<1>9. \A n \in 1 .. Len(u) : n \in 1 .. Len(tree) \/ n = Id
  BY <1>1
<1>10. QED BY <1>7, <1>8, <1>9 DEF WarnsRight

LEMMA ThreatsStatement ==
    ASSUME Coherence, Doing("statement"), ThreatsRight(tree, scopes),
           NEW u, Grows(tree, u), Id = Len(u), Id = Len(tree) + 1,
           u[Id].parent = Task.parent, Inhabited(tree, Task.parent), Task.parent \in 1 .. Len(tree),
           u[Id].form \in Accessing => u[Id].arg \in Names,
           NEW fine, NEW ns, Notes(u[Id].form, u[Id].arg, fine, ns),
           \A p \in 1 .. Len(scopes) : p \in 1 .. Len(ns) /\ ns[p].node = scopes[p].node,
           \A p \in 1 .. Len(ns) : p \notin 1 .. Len(scopes) => ns[p].node = Id /\ ns[p].threats = {}
    PROVE  ThreatsRight(u, ns)
<1> DEFINE x == u[Id].arg
           form == u[Id].form
           r == At(Least1(x))
<1>1. /\ Len(tree) \in Nat /\ tasks # <<>> /\ IsTree(tree) /\ IsTree(u)
      /\ \A n \in 1 .. Len(u) : n \in 1 .. Len(tree) \/ n = Id
  BY Here, Prefixing DEF Grows
<1>2. /\ Threatens(form, x) <=> Changes(u, Id)
      /\ Changes(u, Id) =>
            /\ r \in 1 .. Len(scopes) /\ scopes[r].node = MeantBy(u, Id) /\ scopes[r].kind = "block"
            /\ Least1(x) = ClosestContainingBlock <=> MeantBy(u, Id) = HomeBlock(u, Id)
  BY NodeChanges
<1>3. ASSUME NEW p \in 1 .. Len(scopes), NEW y
      PROVE  y \in ns[p].threats <=> FarUpTo(u, Len(u), y, ns[p].node)
  <2> DEFINE b == scopes[p].node
  <2>1. y \in scopes[p].threats <=> FarUpTo(tree, Len(tree), y, b)
    BY DEF ThreatsRight
  <2>2. FarUpTo(u, Len(u), y, b) <=> FarUpTo(tree, Len(tree), y, b) \/ Far(u, Id, y, b)
    <3> HIDE DEF b
    <3>1. FarUpTo(u, Len(u), y, b) <=> FarUpTo(tree, Len(tree), y, b) \/ Far(u, Len(u), y, b)
      BY FarStable
    <3>2. QED BY <3>1
  <2>3. y \in ns[p].threats <=>
           \/ y \in scopes[p].threats
           \/ y = x /\ Threatens(form, x) /\ Least1(x) # ClosestContainingBlock /\ p = r
    BY DEF Notes
  <2>4. Changes(u, Id) => (p = r <=> b = MeantBy(u, Id))
    <3> SUFFICES ASSUME Changes(u, Id), b = MeantBy(u, Id) PROVE p = r
      BY <1>2
    <3>1. r \in 1 .. Len(scopes) /\ scopes[r].node = b /\ scopes[r].kind = "block"
      BY <1>2
    <3> HIDE DEF r, b
    <3>2. r = Place(tree, b, 1) /\ tree[b].form = "block"
      BY <1>1, <3>1, Alive
    <3>3. p = Place(tree, b, 1)
      BY <1>1, <3>2, Alive DEF b
    <3>4. QED BY <3>2, <3>3
  <2> HIDE DEF b, r, x, form
  <2>5. Far(u, Id, y, b) <=>
           y = x /\ Changes(u, Id) /\ MeantBy(u, Id) # HomeBlock(u, Id) /\ b = MeantBy(u, Id)
    BY DEF Far, x
  <2>6. y \in ns[p].threats <=> FarUpTo(u, Len(u), y, b)
    BY <1>2, <2>1, <2>2, <2>3, <2>4, <2>5
  <2>7. QED BY <2>6 DEF b
<1>4. ASSUME NEW y PROVE ~FarUpTo(u, Len(u), y, Id)
  <2>1. ASSUME NEW n \in 1 .. Len(u), Far(u, n, y, Id) PROVE FALSE
    <3> DEFINE m == MeantBy(u, n)
    <3>1. m \in 1 .. n - 1 /\ m = Id
      BY <1>1, <2>1, ChangesMean DEF Far
    <3> HIDE DEF m
    <3>2. QED BY <1>1, <3>1
  <2>2. QED BY <2>1 DEF FarUpTo
<1>5. \A p \in 1 .. Len(ns) : \A y : y \in ns[p].threats <=> FarUpTo(u, Len(u), y, ns[p].node)
  BY <1>3, <1>4
<1>6. QED BY <1>5 DEF ThreatsRight

(* The tasks inside a statement know the loops around them.                *)
LEMMA UsedNode ==
    ASSUME NEW t, NEW ts, NEW u, Visited(t, ts, u), UsedRight(t, ts),
           NEW inside, Sequential(inside),
           \A k \in 1 .. Len(inside) : inside[k].op = "statement" =>
               inside[k].parent = Len(u) /\ \A x : x \in inside[k].used <=> Loops(u, Len(u), x)
    PROVE  UsedRight(u, inside \o Tail(ts))
<1> DEFINE us == inside \o Tail(ts)
<1>1. Sequential(ts) /\ ts # <<>> /\ TasksRight(t, ts) /\ Grows(t, u)
  BY DEF Visited, TasksRight
<1>2. InPlace(us, inside, ts)
  BY <1>1, ReplacedPlaces
<1> HIDE DEF us
<1> USE DEF InPlace
<1>3. \A j \in 2 .. Len(ts) : j \in 1 .. Len(ts)
  BY <1>1, SequentialMeans
<1>4. ASSUME NEW j \in 1 .. Len(ts), ts[j].op = "statement", NEW x
      PROVE  x \in ts[j].used <=> Loops(u, ts[j].parent, x)
  BY <1>1, <1>4, FarStable DEF TasksRight, TaskRight, Home, UsedRight
<1>5. ASSUME NEW k \in 1 .. Len(us), us[k].op = "statement", NEW x
      PROVE  x \in us[k].used <=> Loops(u, us[k].parent, x)
  BY <1>2, <1>3, <1>4, <1>5
<1>6. QED BY <1>5 DEF UsedRight, us

LEMMA StatementThreatens ==
    ASSUME Right, Threatening, IsVocabulary(vocabulary), StatementAction
    PROVE  ThreateningOf(tree', tasks', scopes', errors')
<1>1. /\ Coherence /\ Doing("statement") /\ StatementStep /\ SayingStep /\ ErrorsRight
      /\ ThreatsRight(tree, scopes) /\ UsedRight(tree, tasks) /\ WarnsRight(tree, errors)
      /\ NodesOrdered(tree) /\ TasksOrdered(tree, tasks)
  BY StatementSteps, SayingSteps DEF Right, Threatening, ThreateningOf
<1>2. PICK form, arg, refers, fine, errs, ns, inside :
         /\ Resolve(form, arg, refers, fine, errs, ns, inside)
         /\ Resolved(form, arg, refers, fine, errs, ns, inside)
  BY <1>1 DEF StatementStep
<1>3. PICK form2, x, refers2, fine2, errs2, ns2, inside2 :
         /\ Resolve(form2, x, refers2, fine2, errs2, ns2, inside2)
         /\ Says(form2, x, fine2, errs2, ns2, inside2)
  BY <1>1 DEF SayingStep
<1> DEFINE u == tree'
           ss == scopes'
           es == errors'
           us == inside2 \o Tail(tasks)
<1>4. /\ Grows(tree, u) /\ Id = Len(tree) + 1 /\ Id \in Nat /\ Len(u) = Id
      /\ u[Id].form = form /\ u[Id].parent = Task.parent /\ u[Id].arg = arg
      /\ Task.parent \in 1 .. Len(tree) /\ Inhabited(tree, Task.parent) /\ form # "block"
  BY <1>1, <1>2, StatementNode
<1>5. ss = ns /\ es = errors \cup LabelErrors \cup errs
  BY <1>1, <1>2, ResolvedNode
<1>6. /\ u[Id].form = form2 /\ u[Id].arg = x /\ u[Id].fine = fine2
      /\ tasks' = us /\ ss = ns2 /\ es = errors \cup LabelErrors \cup errs2
  BY <1>1, <1>3, ResolvedNode
<1>7. /\ \A p \in 1 .. Len(scopes) : p \in 1 .. Len(ns) /\ ns[p].node = scopes[p].node
      /\ \A p \in 1 .. Len(ns) : p \notin 1 .. Len(scopes) => ns[p].node = Id /\ ns[p].threats = {}
  BY <1>1, <1>2, ScopesAfter
<1>8. /\ Warns(u[Id].form, u[Id].arg, errs2) /\ Notes(u[Id].form, u[Id].arg, fine2, ss)
      /\ Handed(inside2, UsedIn(u[Id].form, u[Id].arg))
  <2> HIDE DEF u, ss
  <2>1. QED BY <1>3, <1>6 DEF Says
<1>9. u[Id].form \in Accessing => u[Id].arg \in Names
  <2>1. CASE Ordinary(form, arg, refers, fine, errs, ns, inside)
    BY <1>4, <2>1 DEF Ordinary
  <2>2. CASE Going(form, arg, refers, fine, errs, ns, inside)
    BY <1>4, <2>2 DEF Going, Accessing
  <2>3. CASE Opening(form, arg, refers, fine, errs, ns, inside)
    <3>1. form = "with"
      BY <2>3, Zenon DEF Opening
    <3>2. QED BY <1>4, <3>1 DEF Accessing
  <2>4. QED BY <1>2, <2>1, <2>2, <2>3 DEF Resolved
<1> HIDE DEF u, ss, es, us
<1>10. WarnsRight(u, es)
  <2>1. \A e \in errs : e.at = Id
    BY <1>2, NewErrors
  <2>2. \A n \in 1 .. Len(tree) : \A code : Reported(es, code, n) <=> Reported(errors, code, n)
    BY <1>1, <1>5, <2>1, ReportedAfter
  <2>3. Reported(es, Threat, Id) <=> Coded(errs2, Threat)
    BY <1>1, <1>6, ThreatReported
  <2>4. QED BY <1>1, <1>4, <1>8, <1>9, <2>2, <2>3, WarnsStatement
<1>11. ThreatsRight(u, ss)
  BY <1>1, <1>4, <1>5, <1>7, <1>8, <1>9, ThreatsStatement
<1>12. Visited(tree, tasks, u)
  BY <1>1, <1>4, Here DEF Visited, Doing
<1>13. NodesOrdered(u)
  BY <1>1, <1>12, NodesGrow
<1>14. Sequential(inside2)
  BY <1>8 DEF Handed
<1>15. TasksOrdered(u, us)
  BY <1>8, <1>4, <1>14, <1>1, <1>12, OrderedNode DEF Handed, LeaveOps, Deeper, us
<1>16. UsedRight(u, us)
  <2>1. IsTree(u) /\ Id \in 1 .. Len(u)
    BY <1>4 DEF Grows
  <2>2. ASSUME NEW y
        PROVE  Loops(u, Id, y) <=> y \in UsedIn(u[Id].form, u[Id].arg)
    <3>1. Around(u, Id) = {Id} \cup Around(u, Task.parent)
      <4>1. Around(u, Id) = {Id} \cup Around(u, u[Id].parent)
        BY <2>1, Unfold
      <4>2. QED BY <1>4, <4>1
    <3>2. Loops(u, Id, y) <=> (u[Id].form = "for" /\ u[Id].arg = y) \/ Loops(u, Task.parent, y)
      BY <3>1 DEF Loops
    <3>3. Loops(u, Task.parent, y) <=> Loops(tree, Task.parent, y)
      BY <1>4, FarStable
    <3>4. Loops(tree, Task.parent, y) <=> y \in Task.used
      BY <1>1, Here, EmptySequence DEF Doing, TasksRight, UsedRight
    <3>5. QED BY <3>2, <3>3, <3>4 DEF UsedIn, UsedInside
  <2>3. ASSUME NEW k \in 1 .. Len(inside2), inside2[k].op = "statement"
        PROVE  inside2[k].parent = Len(u) /\ \A y : y \in inside2[k].used <=> Loops(u, Len(u), y)
    BY <1>8, <2>3, <1>4, <2>2 DEF Handed
  <2>4. QED BY <1>1, <1>12, <1>14, <2>3, UsedNode DEF us
<1>17. ThreateningOf(u, us, ss, es)
  BY <1>10, <1>11, <1>13, <1>15, <1>16 DEF ThreateningOf
<1>18. QED BY <1>6, <1>17 DEF u, ss, es, us

(* The steps of buildBlock().                                              *)
LEMMA BlockThreatens ==
    ASSUME Right, Threatening, IsVocabulary(vocabulary), BuildBlock
    PROVE  ThreateningOf(tree', tasks', scopes', errors')
<1>1. /\ Coherence /\ Doing("block") /\ BlockStep /\ ErrorsRight
      /\ ThreatsRight(tree, scopes) /\ UsedRight(tree, tasks) /\ WarnsRight(tree, errors)
      /\ NodesOrdered(tree) /\ TasksOrdered(tree, tasks)
  BY BlockSteps DEF Right, Threatening, ThreateningOf
<1>2. PICK uses, labels, repeated, body, e : Building(uses, labels, repeated, body, e)
  BY <1>1 DEF BlockStep
<1> DEFINE leave == LeaveTask("leaveBlock", Id, Task.name, 1)
           inside == body \o <<leave>>
           u == tree'
           us == inside \o Tail(tasks)
           b == BlockScope(Id, uses, labels)
           ns == Append(scopes, b)
           es == errors'
<1>3. /\ tasks' = us /\ scopes' = ns /\ Body(body, labels)
      /\ es = errors \cup ErrIf(repeated # NoLabel, "DUPLICATE_LABEL")
  BY <1>2 DEF Building
<1>4. /\ Grows(tree, u) /\ Id = Len(tree) + 1 /\ Id \in Nat /\ Len(u) = Id
      /\ Id \in 1 .. Len(u) /\ u[Id] = e /\ BlockNode(e, uses, labels, repeated)
  BY <1>1, <1>2, BlockTree
<1>5. leave.op = "leaveBlock"
  BY DEF LeaveTask
<1>6. b.node = Id /\ b.threats = {}
  BY DEF BlockScope
<1> HIDE DEF u, es, leave, b
<1>7. u[Id].form = "block" /\ u[Id].parent = Task.parent
  BY <1>4 DEF BlockNode
<1>8. /\ tasks # <<>> /\ Task = tasks[1] /\ TasksRight(tree, tasks) /\ Task.op = "block"
      /\ Len(tree) \in Nat /\ Sequential(scopes) /\ IsTree(u) /\ Sequential(tasks)
  BY <1>1, <1>4, Here DEF Doing, Grows, TasksRight
<1>9. \A n : n \in 1 .. Len(u) <=> n \in 1 .. Len(tree) \/ n = Id
  BY <1>4, <1>8
<1>10. ~Changes(u, Id)
  BY <1>7 DEF Changes, Accessing
<1>11. WarnsRight(u, es)
  <2>1. Err("DUPLICATE_LABEL").code = "DUPLICATE_LABEL"
    BY DEF Err
  <2>2. \A n : Reported(es, Threat, n) <=> Reported(errors, Threat, n)
    BY <1>3, <2>1 DEF Reported, ErrIf, Threat
  <2>3. ~Reported(errors, Threat, Id)
    BY <1>1, <1>4, <1>8 DEF Reported, ErrorsRight
  <2>4. \A n \in 1 .. Len(tree) : Warned(u, n) <=> Warned(tree, n)
    BY <1>4, FarStable
  <2>5. QED BY <1>1, <1>9, <1>10, <2>2, <2>3, <2>4 DEF WarnsRight, Warned
<1>12. ThreatsRight(u, ns)
  <2>1. /\ Len(ns) = Len(scopes) + 1 /\ Len(scopes) \in Nat
        /\ \A p \in 1 .. Len(scopes) : ns[p] = scopes[p]
        /\ ns[Len(scopes) + 1] = b
    BY <1>8, Appended, SequentialMeans
  <2> HIDE DEF ns
  <2>2. ASSUME NEW y PROVE ~FarUpTo(u, Len(u), y, Id)
    <3>1. ASSUME NEW n \in 1 .. Len(u), Far(u, n, y, Id) PROVE FALSE
      <4> DEFINE m == MeantBy(u, n)
      <4>1. m \in 1 .. n - 1 /\ m = Id
        BY <1>8, <3>1, ChangesMean DEF Far
      <4> HIDE DEF m
      <4>2. QED BY <1>4, <4>1
    <3>2. QED BY <3>1 DEF FarUpTo
  <2>3. ASSUME NEW y, NEW c
        PROVE  FarUpTo(u, Len(u), y, c) <=> FarUpTo(tree, Len(tree), y, c)
    BY <1>4, FarStable, <1>10 DEF Far
  <2>4. ASSUME NEW p \in 1 .. Len(ns), NEW y
        PROVE  y \in ns[p].threats <=> FarUpTo(u, Len(u), y, ns[p].node)
    <3>1. CASE p \in 1 .. Len(scopes)
      BY <1>1, <2>1, <2>3, <3>1 DEF ThreatsRight
    <3>2. CASE p \notin 1 .. Len(scopes)
      BY <2>1, <3>2, <1>6, <2>2
    <3>3. QED BY <3>1, <3>2
  <2>5. QED BY <2>4 DEF ThreatsRight
<1> HIDE DEF ns
<1>13. /\ Sequential(body) /\ Len(body) \in Nat /\ Sequential(inside) /\ Len(inside) = Len(body) + 1
       /\ \A k \in 1 .. Len(body) : inside[k] = body[k]
       /\ inside[Len(body) + 1] = leave
  <2>1. Sequential(body) /\ Len(body) \in Nat
    BY <1>3, SequentialMeans DEF Body
  <2>2. Sequential(<<leave>>) /\ Len(<<leave>>) = 1 /\ <<leave>>[1] = leave
    BY Single
  <2>3. /\ Sequential(inside) /\ Len(inside) = Len(body) + Len(<<leave>>)
        /\ \A k \in 1 .. Len(body) : inside[k] = body[k]
        /\ \A k \in Len(body) + 1 .. Len(body) + Len(<<leave>>) : inside[k] = <<leave>>[k - Len(body)]
    BY <2>1, <2>2, Joined
  <2> HIDE DEF inside
  <2> DEFINE n == Len(body) + 1
  <2>4. n \in Len(body) + 1 .. Len(body) + Len(<<leave>>) /\ n - Len(body) = 1
    BY <2>1, <2>2
  <2> HIDE DEF n
  <2>5. inside[n] = leave
    BY <2>2, <2>3, <2>4
  <2>6. QED BY <2>1, <2>2, <2>3, <2>5 DEF n
<1> HIDE DEF inside
<1>14. ASSUME NEW k \in 1 .. Len(inside), inside[k].op \notin LeaveOps
       PROVE  k \in 1 .. Len(body) /\ inside[k] = body[k] /\ inside[k].parent = Id
  BY <1>5, <1>13, <1>14, <1>3 DEF LeaveOps, Body
<1>15. Visited(tree, tasks, u)
  BY <1>4, <1>7, <1>8 DEF Visited
<1>16. NodesOrdered(u)
  BY <1>1, <1>15, NodesGrow
<1>17. TasksOrdered(u, us)
  <2>1. ASSUME NEW j \in 1 .. Len(inside), NEW k \in 1 .. Len(inside), j < k,
               inside[j].op = "statement", inside[k].op \notin LeaveOps
        PROVE  inside[k].op = "statement"
    BY <1>14, <2>1, <1>3 DEF LeaveOps, Body
  <2>2. Deeper(inside, Len(u), u[Len(u)].form # "block")
    BY <1>14, <1>4, <1>7, <1>13, <2>1 DEF Deeper
  <2>3. QED BY <1>1, <1>15, <2>2, OrderedNode DEF us
<1>18. UsedRight(u, us)
  <2>1. ASSUME NEW k \in 1 .. Len(inside), inside[k].op = "statement"
        PROVE  inside[k].parent = Len(u) /\ \A x : x \in inside[k].used <=> Loops(u, Len(u), x)
    <3>1. k \in 1 .. Len(body) /\ inside[k] = body[k] /\ inside[k].parent = Id
      BY <1>14, <2>1 DEF LeaveOps
    <3>2. inside[k].used = {}
      BY <1>3, <2>1, <3>1 DEF Body
    <3>3. \A m \in Around(u, Id) : u[m].form = "block"
      BY <1>4, <1>7, <1>8, BlocksInBlocks
    <3>4. \A x : ~Loops(u, Id, x)
      BY <3>3 DEF Loops
    <3>5. QED BY <1>4, <3>1, <3>2, <3>4
  <2>2. QED BY <1>1, <1>13, <1>15, <2>1, UsedNode DEF us
<1>19. ThreateningOf(u, us, ns, es)
  BY <1>11, <1>12, <1>16, <1>17, <1>18 DEF ThreateningOf
<1>20. QED BY <1>3, <1>19 DEF u, us, ns, es, inside, leave, b

(* What comes in place of a task that is for no statement: in the same     *)
(* node, and no statement either.                                          *)
LEMMA SameThreatens ==
    ASSUME NEW t, NEW ts, Sequential(ts), ts # <<>>, TasksOrdered(t, ts), UsedRight(t, ts),
           NEW inside, Sequential(inside),
           \A k \in 1 .. Len(inside) :
               /\ inside[k].op # "statement" /\ inside[k].parent = ts[1].parent
               /\ ts[1].op \notin LeaveOps \cup {"statement"}
    PROVE  TasksOrdered(t, inside \o Tail(ts)) /\ UsedRight(t, inside \o Tail(ts))
<1> DEFINE us == inside \o Tail(ts)
<1>1. TasksOrdered(t, us)
  BY OrderedSame
<1>2. InPlace(us, inside, ts)
  BY ReplacedPlaces
<1> HIDE DEF us
<1> USE DEF InPlace
<1>3. \A j \in 2 .. Len(ts) : j \in 1 .. Len(ts)
  BY SequentialMeans
<1>4. ASSUME NEW k \in 1 .. Len(us), us[k].op = "statement", NEW x
      PROVE  x \in us[k].used <=> Loops(t, us[k].parent, x)
  <2>1. PICK j \in 2 .. Len(ts) : us[k] = ts[j]
    BY <1>2, <1>4
  <2>2. QED BY <1>3, <1>4, <2>1 DEF UsedRight
<1>5. QED BY <1>1, <1>4 DEF us, UsedRight

LEMMA DeclareThreatens ==
    ASSUME Right, Threatening, DeclareSubroutine
    PROVE  ThreateningOf(tree', tasks', scopes', errors')
<1>1. /\ Coherence /\ Doing("subroutines") /\ DeclareStep
      /\ ThreatsRight(tree, scopes) /\ UsedRight(tree, tasks) /\ WarnsRight(tree, errors)
      /\ NodesOrdered(tree) /\ TasksOrdered(tree, tasks)
  BY DeclareSteps DEF Right, Threatening, ThreateningOf
<1>2. PICK x, inside : Declaration(x, inside) /\ tasks' = inside \o Tail(tasks)
  BY <1>1 DEF DeclareStep
<1>3. tree' = tree /\ scopes' = scopes /\ errors' = errors
  BY <1>1 DEF DeclareStep
<1>4. tasks # <<>> /\ Task = tasks[1] /\ tasks[1].op = "subroutines" /\ Sequential(tasks)
  BY <1>1, Here DEF Doing, TasksRight
<1>5. ASSUME NEW k \in 1 .. Len(inside)
      PROVE  /\ inside[k].op # "statement" /\ inside[k].parent = tasks[1].parent
             /\ tasks[1].op \notin LeaveOps \cup {"statement"}
  BY <1>2, DeclaredTasks, <1>4 DEF LeaveOps
<1>6. Sequential(inside)
  BY <1>2 DEF Declaration
<1> DEFINE us == inside \o Tail(tasks)
<1>7. TasksOrdered(tree, us) /\ UsedRight(tree, us)
  BY <1>1, <1>4, <1>5, <1>6, SameThreatens
<1> HIDE DEF us
<1>8. ThreateningOf(tree, us, scopes, errors)
  BY <1>1, <1>7 DEF ThreateningOf
<1>9. QED BY <1>2, <1>3, <1>8 DEF us

LEMMA LeaveThreatens ==
    ASSUME Right, Threatening, LeaveWith \/ LeaveBlock
    PROVE  ThreateningOf(tree', tasks', scopes', errors')
<1>1. /\ Coherence
      /\ ThreatsRight(tree, scopes) /\ UsedRight(tree, tasks) /\ WarnsRight(tree, errors)
      /\ NodesOrdered(tree) /\ TasksOrdered(tree, tasks)
  BY DEF Right, Threatening, ThreateningOf
<1> DEFINE m == Len(scopes) - Task.count
           ns == SubSeq(scopes, 1, m)
           us == Tail(tasks)
           es == errors'
<1>2. /\ tasks # <<>> /\ Task.op \in LeaveOps /\ tasks' = us /\ tree' = tree /\ scopes' = ns
  BY DEF LeaveWith, LeaveBlock, Doing, LeaveOps
<1>3. m \in 0 .. Len(scopes) /\ Len(scopes) \in Nat /\ Sequential(scopes) /\ Sequential(tasks)
  BY <1>1, <1>2, LeftScopes
<1> HIDE DEF m, es
<1>4. ThreatsRight(tree, ns)
  <2>1. Len(ns) = m /\ \A p \in 1 .. m : ns[p] = scopes[p]
    BY <1>3, Shortened
  <2> HIDE DEF ns
  <2>2. \A p \in 1 .. Len(ns) : p \in 1 .. Len(scopes) /\ ns[p] = scopes[p]
    BY <1>3, <2>1
  <2>3. QED BY <1>1, <2>2 DEF ThreatsRight
<1> HIDE DEF ns
<1>5. TasksOrdered(tree, us) /\ UsedRight(tree, us)
  <2>1. Sequential(<<>>) /\ Len(<<>>) = 0 /\ 1 .. 0 = {}
    BY EmptySequence
  <2>2. \A k \in 1 .. Len(<<>>) :
               /\ <<>>[k].op # "statement" /\ <<>>[k].parent = tasks[1].parent
               /\ tasks[1].op \notin LeaveOps \cup {"statement"}
    BY <2>1
  <2>3. TasksOrdered(tree, <<>> \o us) /\ UsedRight(tree, <<>> \o us)
    BY <1>1, <1>2, <1>3, <2>1, <2>2, SameThreatens
  <2>4. <<>> \o us = us
    BY <1>2, <1>3, Tailed, Unjoined
  <2>5. QED BY <2>3, <2>4
<1> HIDE DEF us
<1>6. WarnsRight(tree, es)
  <2>1. errors \subseteq es
    BY DEF LeaveWith, LeaveBlock, es
  <2>2. \A f \in es : f \in errors \/ f.code \in {"UNUSED_LABEL", "MISSING_RESULT_ASSIGNMENT"}
    <3>1. CASE LeaveWith
      BY <3>1 DEF LeaveWith, es
    <3>2. CASE LeaveBlock
      BY <3>2 DEF LeaveBlock, es
    <3>3. QED BY <3>1, <3>2
  <2>3. \A n : Reported(es, Threat, n) <=> Reported(errors, Threat, n)
    BY <2>1, <2>2 DEF Reported, Threat
  <2>4. QED BY <1>1, <2>3 DEF WarnsRight
<1>7. ThreateningOf(tree, us, ns, es)
  BY <1>1, <1>4, <1>5, <1>6 DEF ThreateningOf
<1>8. QED BY <1>2, <1>7 DEF es

LEMMA ThreateningFirst ==
    ASSUME Init
    PROVE  Threatening
<1>1. Len(scopes) = 0 /\ Len(tree) = 0 /\ 1 .. 0 = {}
  BY EmptySequence DEF Init
<1> DEFINE first == BlockTask("program", "program", 0, {})
<1>2. first.op = "block"
  BY DEF BlockTask
<1>3. tasks = <<first>>
  BY DEF Init
<1> HIDE DEF first
<1>4. Len(tasks) = 1 /\ tasks[1] = first /\ \A k \in 1 .. 1 : k = 1
  BY <1>3, Single
<1>5. ThreatsRight(tree, scopes) /\ WarnsRight(tree, errors) /\ NodesOrdered(tree)
  BY <1>1 DEF ThreatsRight, WarnsRight, NodesOrdered
<1>6. UsedRight(tree, tasks)
  BY <1>2, <1>4 DEF UsedRight
<1>7. TasksOrdered(tree, tasks)
  BY <1>1, <1>2, <1>4 DEF TasksOrdered
<1>8. QED BY <1>5, <1>6, <1>7 DEF Threatening, ThreateningOf

LEMMA ThreateningKept ==
    ASSUME Right, Threatening, [Next]_vars
    PROVE  Threatening'
<1>1. CASE UNCHANGED vars \/ Done
  BY <1>1 DEF vars, Done, analysis, Threatening
<1>2. CASE Next /\ ~Done
  <2>1. IsVocabulary(vocabulary)
    BY VocabulariesAssumption DEF Right
  <2>2. ThreateningOf(tree', tasks', scopes', errors')
    <3>1. CASE StatementAction
      BY <2>1, <3>1, StatementThreatens
    <3>2. CASE BuildBlock
      BY <2>1, <3>2, BlockThreatens
    <3>3. CASE LeaveWith \/ LeaveBlock
      BY <3>3, LeaveThreatens
    <3>4. CASE DeclareSubroutine
      BY <3>4, DeclareThreatens
    <3>5. QED BY <1>2, <3>1, <3>2, <3>3, <3>4 DEF Next, StatementAction
  <2>3. QED BY <2>2 DEF Threatening
<1>3. QED BY <1>1, <1>2

LEMMA ThreateningAlways == Spec => [](Right /\ Threatening)
<1>1. Init => Threatening
  BY ThreateningFirst
<1>2. Right /\ Threatening /\ [Next]_vars => Threatening'
  BY ThreateningKept
<1>3. QED BY <1>1, <1>2, RightAlways, PTL DEF Spec

(* In the words of the rules: names.                                       *)
LEMMA MeaningMeans ==
    ASSUME IsTree(tree), NEW n \in 1 .. Len(tree)
    PROVE  LET x == tree[n].arg
               b == Meaning(n, x)
           IN  /\ n \in Accesses <=> tree[n].form \in Accessing
               /\ b # 0 <=> Found(tree, n) # {}
               /\ b # 0 => MeantBy(tree, n) = b /\ UseFor(tree, n) = UseIn(b, x)
               /\ b = 0 => UseFor(tree, n) = "undefined" /\ UseIn(b, x) = "none"
<1>1. Nodes = 1 .. Len(tree) /\ Above[n] = Around(tree, tree[n].parent)
  BY RulesMean
<1>2. /\ Meaning(n, tree[n].arg) = IF Found(tree, n) = {} THEN 0 ELSE MeantBy(tree, n)
      /\ n \in Accesses <=> tree[n].form \in Accessing
  BY <1>1 DEF Declares, DeclaresIn, Is, DeclaringNodes, DeclaringIn, Found, Meaning, MeantBy,
      Accesses, Accessing
<1>3. tree[n].parent \in 0 .. Len(tree) /\ Len(tree) \in Nat
  BY Unfold
<1>4. Found(tree, n) \subseteq 1 .. tree[n].parent
  BY <1>3, Lines DEF Line, Found, DeclaringIn
<1>5. Found(tree, n) # {} => MeantBy(tree, n) # 0
  <2>1. Found(tree, n) \subseteq 0 .. tree[n].parent /\ tree[n].parent \in Nat
    BY <1>3, <1>4
  <2>2. ASSUME Found(tree, n) # {} PROVE MeantBy(tree, n) \in Found(tree, n)
    BY <2>1, <2>2, InnermostOf DEF MeantBy
  <2>3. 0 \notin Found(tree, n)
    BY <1>3, <1>4
  <2>4. QED BY <2>2, <2>3
<1>6. QED BY <1>2, <1>5 DEF UseFor, UseIn, Is

(* In the words of the rules.                                              *)
LEMMA ThreatsMean ==
    ASSUME Right, Threatening
    PROVE  ThreatsAreExact
<1> DEFINE From == {f \in Fors : ThreatenedFrom(f) # {}}
           Inside == UNION {ThreatenedInside(f) : f \in Fors}
<1> SUFFICES ASSUME \A n \in Accesses : LegalAccess(n), NeedsInput = {} \/ tree[1].input
             PROVE  With("THREATENED_CONTROL_VARIABLE") = From \cup Inside
  BY DEF ThreatsAreExact
<1>1. IsTree(tree) /\ ErrorsRight /\ WarnsRight(tree, errors) /\ NodesOrdered(tree)
  BY DEF Right, Coherence, Coherent, Threatening, ThreateningOf
<1>2. /\ Nodes = 1 .. Len(tree)
      /\ \A n \in 1 .. Len(tree) :
            /\ Above[n] = Around(tree, tree[n].parent)
            /\ BlockOf(n) = HomeBlock(tree, n)
  BY <1>1, RulesMean
<1>3. ASSUME NEW n \in 1 .. Len(tree)
      PROVE  LET b == Meaning(n, tree[n].arg)
             IN  /\ n \in Accesses <=> tree[n].form \in Accessing
                 /\ b # 0 <=> Found(tree, n) # {}
                 /\ b # 0 => MeantBy(tree, n) = b /\ UseFor(tree, n) = UseIn(b, tree[n].arg)
  BY <1>1, MeaningMeans
<1>4. ASSUME NEW f \in Fors
      PROVE  /\ f \in 1 .. Len(tree) /\ Changes(tree, f) /\ MeantBy(tree, f) = HomeBlock(tree, f)
             /\ UseIn(HomeBlock(tree, f), tree[f].arg) = "ordinal"
             /\ HomeBlock(tree, f) # 0 /\ BlockOf(f) = HomeBlock(tree, f)
  <2>1. f \in 1 .. Len(tree) /\ tree[f].form = "for" /\ f \in Accesses
    BY <1>2 DEF Fors, Is, Accesses
  <2>2. Meaning(f, tree[f].arg) = BlockOf(f) /\ UseIn(BlockOf(f), tree[f].arg) = "ordinal"
    BY <2>1 DEF LegalAccess, Is
  <2>3. BlockOf(f) = HomeBlock(tree, f)
    BY <1>2, <2>1
  <2>4. BlockOf(f) # 0
    BY <2>2 DEF UseIn
  <2>5. MeantBy(tree, f) = HomeBlock(tree, f) /\ UseFor(tree, f) = "ordinal"
    BY <1>3, <2>1, <2>2, <2>3, <2>4
  <2>6. Changes(tree, f)
    BY <2>1, <2>5 DEF Changes, OwnFor, IsVariable, Accessing
  <2>7. QED BY <2>1, <2>2, <2>3, <2>4, <2>5, <2>6
<1>5. ASSUME NEW f \in Fors, NEW n
      PROVE  n \in Threats(BlockOf(f), tree[f].arg) <=>
                /\ n \in 1 .. Len(tree) /\ Changes(tree, n) /\ tree[n].arg = tree[f].arg
                /\ MeantBy(tree, n) = HomeBlock(tree, f)
  <2>1. CASE n \in Threats(BlockOf(f), tree[f].arg)
    <3>1. /\ n \in 1 .. Len(tree) /\ n \in Accesses /\ tree[n].form \in Accessing
          /\ tree[n].arg = tree[f].arg /\ Meaning(n, tree[n].arg) = HomeBlock(tree, f)
      BY <1>2, <1>3, <1>4, <2>1 DEF Threats, Accesses
    <3>2. MeantBy(tree, n) = HomeBlock(tree, f) /\ UseFor(tree, n) = "ordinal"
      BY <1>3, <1>4, <3>1
    <3>3. tree[n].form = "read" => tree[1].input
      BY <1>2, <3>1 DEF NeedsInput
    <3>4. tree[n].form = "for" => OwnFor(tree, n)
      <4>1. ASSUME tree[n].form = "for" PROVE n \in Fors
        BY <1>2, <3>1, <4>1 DEF Fors, Is
      <4>2. QED BY <1>4, <3>2, <4>1 DEF OwnFor
    <3>5. IsVariable(UseFor(tree, n))
      BY <3>2 DEF IsVariable
    <3>6. Changes(tree, n)
      BY <3>1, <3>3, <3>4, <3>5 DEF Changes
    <3>7. QED BY <2>1, <3>1, <3>2, <3>6
  <2>2. ASSUME n \in 1 .. Len(tree), Changes(tree, n), tree[n].arg = tree[f].arg,
               MeantBy(tree, n) = HomeBlock(tree, f)
        PROVE  n \in Threats(BlockOf(f), tree[f].arg)
    BY <1>1, <2>2, ChangesMean, <1>3, <1>4 DEF Changes, Threats
  <2>3. QED BY <2>1, <2>2
<1>6. ASSUME NEW f \in Fors
      PROVE  f \in From <=> FarUpTo(tree, f - 1, tree[f].arg, HomeBlock(tree, f))
  <2> DEFINE b == HomeBlock(tree, f)
  <2>1. ASSUME NEW n
        PROVE  n \in ThreatenedFrom(f) <=> n \in 1 .. Len(tree) /\ Far(tree, n, tree[f].arg, b)
    BY <1>2, <1>4, <1>5 DEF ThreatenedFrom, Far
  <2>2. f \in 1 .. Len(tree) /\ f \in Nat /\ Len(tree) \in Nat
    BY <1>1, <1>4, SequentialMeans DEF IsTree
  <2>3. ASSUME NEW n \in 1 .. Len(tree), Far(tree, n, tree[f].arg, b)
        PROVE  n \in 1 .. f - 1
    BY <2>3, <1>1, ChangesMean, <2>2 DEF Far, Changes, Accessing, Fors, Is, NodesOrdered
  <2>4. \A n \in 1 .. f - 1 : n \in 1 .. Len(tree)
    BY <2>2
  <2> HIDE DEF b
  <2>5. QED BY <2>1, <2>3, <2>4 DEF FarUpTo, b
<1>7. ASSUME NEW f \in Fors, NEW n \in ThreatenedInside(f)
      PROVE  n \in 1 .. Len(tree) /\ Warned(tree, n)
  <2>1. /\ n \in 1 .. Len(tree) /\ Changes(tree, n) /\ tree[n].arg = tree[f].arg
        /\ MeantBy(tree, n) = HomeBlock(tree, f) /\ f \in Above[n]
    BY <1>5 DEF ThreatenedInside
  <2>2. f \in Around(tree, tree[n].parent) /\ tree[f].form = "for"
    BY <1>2, <2>1 DEF Fors, Is
  <2>3. Loops(tree, tree[n].parent, tree[n].arg)
    BY <2>1, <2>2 DEF Loops
  <2>4. tree[n].parent \in 1 .. Len(tree)
    BY <1>1, <2>1, Unfold, SequentialMeans, <2>2, Root DEF IsTree
  <2>5. InBlock(tree, tree[n].parent) = HomeBlock(tree, f)
    BY <1>1, <2>2, <2>4, SameBlock
  <2>6. HomeBlock(tree, n) = HomeBlock(tree, f)
    BY <2>5, HomeIsInBlock
  <2>7. QED BY <2>1, <2>3, <2>6 DEF Warned
<1>8. ASSUME NEW n \in 1 .. Len(tree), Changes(tree, n), MeantBy(tree, n) = HomeBlock(tree, n),
             Loops(tree, tree[n].parent, tree[n].arg)
      PROVE  n \in Inside
  <2>1. PICK f \in Around(tree, tree[n].parent) : tree[f].form = "for" /\ tree[f].arg = tree[n].arg
    BY <1>8 DEF Loops
  <2>2. tree[n].parent \in 1 .. Len(tree)
    BY <1>1, Unfold, SequentialMeans, <2>1, Root DEF IsTree
  <2>3. InBlock(tree, tree[n].parent) = HomeBlock(tree, f) /\ f \in 1 .. Len(tree)
    BY <1>1, <2>1, <2>2, SameBlock
  <2>4. HomeBlock(tree, n) = HomeBlock(tree, f)
    BY <2>3, HomeIsInBlock
  <2>5. f \in Fors
    BY <1>2, <2>1, <2>3 DEF Fors, Is
  <2>6. f \in Above[n]
    BY <1>2, <2>1
  <2>7. n \in Threats(BlockOf(f), tree[f].arg)
    BY <1>5, <1>8, <2>1, <2>4, <2>5
  <2>8. QED BY <2>5, <2>6, <2>7 DEF ThreatenedInside
<1>9. \A n : n \in With("THREATENED_CONTROL_VARIABLE") <=> n \in 1 .. Len(tree) /\ Warned(tree, n)
  BY <1>1 DEF With, Reported, Threat, ErrorsRight, WarnsRight
<1> HIDE DEF From, Inside
<1>10. ASSUME NEW n
       PROVE  n \in From \cup Inside <=> n \in 1 .. Len(tree) /\ Warned(tree, n)
  <2>1. ASSUME n \in From PROVE n \in 1 .. Len(tree) /\ Warned(tree, n)
    BY <2>1, <1>4, <1>6 DEF From, Fors, Is, Warned
  <2>2. ASSUME n \in Inside PROVE n \in 1 .. Len(tree) /\ Warned(tree, n)
    BY <1>7, <2>2 DEF Inside
  <2>3. ASSUME n \in 1 .. Len(tree), Warned(tree, n) PROVE n \in From \cup Inside
    <3>1. Changes(tree, n) /\ MeantBy(tree, n) = HomeBlock(tree, n)
      BY <2>3 DEF Warned
    <3>2. CASE Loops(tree, tree[n].parent, tree[n].arg)
      BY <1>8, <2>3, <3>1, <3>2
    <3>3. CASE tree[n].form = "for" /\ FarUpTo(tree, n - 1, tree[n].arg, HomeBlock(tree, n))
      BY <1>2, <2>3, <3>3, <1>6 DEF Fors, Is
    <3>4. QED BY <2>3, <3>2, <3>3 DEF Warned
  <2>4. QED BY <2>1, <2>2, <2>3
<1>11. QED BY <1>9, <1>10

(* In every program whose accesses are legal, THREATENED_CONTROL_VARIABLE  *)
(* is reported for exactly the statements in a loop that threaten its      *)
(* variable and the for statements whose variable a procedure or function  *)
(* of the block threatens: threatenVariable() and the threats it keeps in  *)
(* the scopes see all of them and no other.                                *)
THEOREM StatementThreats == Spec => []ThreatsAreExact
<1>1. Right /\ Threatening => ThreatsAreExact
  BY ThreatsMean
<1>2. QED BY <1>1, ThreateningAlways, PTL
-----------------------------------------------------------------------------
(* What every node reports, and so whether a program is accepted.          *)

(* Node n assigns the result of f, which is around it.                     *)
Results(t, n, f) ==
    /\ t[n].form = "assignment" /\ f \in BlocksAround(t, n)
    /\ Found(t, n) # {} /\ MeantBy(t, n) = t[f].parent
    /\ t[f].arg = t[n].arg /\ t[f].use = "function"
Gives(t, f) == \E n \in 1 .. Len(t) : Results(t, n, f) /\ t[n].fine

(* Labels and threats aside, the statement is right.                       *)
Proper(t, n) ==
    /\ t[n].fine
    /\ t[n].form \in {"read", "readln"} => t[1].input
    /\ t[n].form = "for" => OwnFor(t, n)
    /\ t[n].form \in Accessing \ {"for"} =>
          \/ UseFor(t, n) \in {"ordinal", "other", "parameter", "field"}
          \/ \E f \in BlocksAround(t, n) : Results(t, n, f)
Faulty(es, n) == \E e \in es : e.at = n /\ e.code \notin Elsewhere
StatementJudged(t, es, n) ==
    /\ Reported(es, "UNDEFINED_LABEL", n) <=>
          Undeclared(t, n) \/ (t[n].form = "goto" /\ Targets(t, n) = {})
    /\ Faulty(es, n) <=> ~Proper(t, n) \/ Repeats(t, n)

(* What is missing in a block is reported when its scope is closed.        *)
Lacks(t, b) ==
    \/ \E l \in t[b].labels : PrefixedIn(t, b, l) = {}
    \/ t[b].use = "function" /\ ~Gives(t, b)
Closed(ss, b) == \A p \in 1 .. Len(ss) : ss[p].node # b
BlockJudged(t, ss, es, b) ==
    (\E e \in es : e.at = b) <=> t[b].repeated # NoLabel \/ (Closed(ss, b) /\ Lacks(t, b))

JudgingOf(t, ss, es) ==
    /\ \A n \in 1 .. Len(t) : t[n].form # "block" => StatementJudged(t, es, n)
    /\ \A b \in 1 .. Len(t) : t[b].form = "block" => BlockJudged(t, ss, es, b)
    /\ \A p \in 1 .. Len(ss) : ss[p].assigned <=> Gives(t, ss[p].node)
Judging == JudgingOf(tree, scopes, errors)

(* The function whose result the scopes say is assigned is the one that    *)
(* the tree says.                                                          *)
LEMMA Assigning ==
    ASSUME Coherence, Doing("statement"), NEW u, Grows(tree, u), Id = Len(u),
           u[Id].parent = Task.parent, Inhabited(tree, Task.parent), Task.parent \in 1 .. Len(tree),
           u[Id].form = "assignment", u[Id].arg \in Names
    PROVE  LET x == u[Id].arg
           IN  /\ \A p \in 1 .. Len(scopes) : Results(u, Id, scopes[p].node) <=>
                     Assigns("assignment", x) /\ p = At(Least1(x) - 1)
               /\ Assigns("assignment", x) <=> \E f \in BlocksAround(u, Id) : Results(u, Id, f)
               /\ \A f : Results(u, Id, f) => ~Closed(scopes, f)
<1> DEFINE x == u[Id].arg
           k == Least1(x)
           h == Task.parent
           q == At(k - 1)
<1>1. /\ IsTree(tree) /\ IsTree(u) /\ Len(scopes) \in Nat /\ tasks # <<>> /\ Home(Task) = h
      /\ Len(scopes) = Deep(tree, h) /\ Stacked(Names, tree, scopes, h) /\ Home(Task) # 0
      /\ h \in 0 .. Len(tree)
  BY Prefixing, Here DEF Grows
<1>2. /\ UseFor(u, Id) = UseOf(x)
      /\ Declaring(x) # {} => At(k) \in 1 .. Len(scopes) /\ scopes[At(k)].node = MeantBy(u, Id)
  BY Bridged
<1>3. BlocksAround(u, Id) = {f \in Around(tree, h) : tree[f].form = "block"}
      /\ \A f \in Around(tree, h) : u[f] = tree[f] /\ f \in 1 .. Len(tree)
  <2>1. Around(u, h) = Around(tree, h)
    BY Stable, <1>1
  <2>2. \A f \in Around(tree, h) : f \in 1 .. Len(tree)
    BY <1>1, Lines DEF Line
  <2>3. QED BY <2>1, <2>2 DEF BlocksAround, Grows
<1>4. Found(u, Id) # {} <=> Declaring(x) # {}
  <2>1. Found(u, Id) = DeclaringIn(tree, h, x)
    BY <1>1, LeadsStable DEF Found
  <2>2. QED BY <1>1, <2>1, DeclaredAlive, Meant DEF LeadsTo
<1> HIDE DEF x, k, h
<1>5. ASSUME Declaring(x) # {}
      PROVE  k \in Indices /\ UseOf(x) = Parent(k).names[x] /\ Parent(k) = scopes[At(k)] /\ k \in Nat
  BY <1>1, <1>5, Nearest, Index DEF k, Least1
<1>6. ASSUME Assigns("assignment", x)
      PROVE  q \in 1 .. Len(scopes) /\ Results(u, Id, scopes[q].node)
  <2>1. UseOf(x) = "function" /\ IsCurrentFunction(x, k)
    BY <1>6 DEF Assigns, k
  <2>2. Declaring(x) # {}
    BY <2>1 DEF UseOf
  <2> DEFINE f == scopes[q].node
  <2>3. /\ k - 1 \in Indices /\ Parent(k - 1).kind = "block"
        /\ tree[Parent(k - 1).node].use = "function"
        /\ tree[Parent(k - 1).node].parent = Parent(k).node
    BY <1>1, <1>5, <2>1, <2>2, ResultOfFunction DEF x
  <2>4. q \in 1 .. Len(scopes) /\ Parent(k - 1) = scopes[q]
    BY <1>1, <2>3, Index
  <2> HIDE DEF q
  <2>5. f \in Around(tree, h) /\ tree[f].form = "block"
    BY <1>1, <2>3, <2>4, Alive
  <2>6. tree[f].arg = x
    BY <2>1, <2>4 DEF IsCurrentFunction
  <2>7. QED BY <1>2, <1>3, <1>4, <1>5, <2>2, <2>3, <2>4, <2>5, <2>6 DEF Results, x
<1>7. ASSUME NEW f, Results(u, Id, f)
      PROVE  /\ Assigns("assignment", x) /\ q \in 1 .. Len(scopes) /\ scopes[q].node = f
             /\ f \in BlocksAround(u, Id)
             /\ \A p \in 1 .. Len(scopes) : scopes[p].node = f => p = q
  <2> DEFINE m == MeantBy(u, Id)
  <2>1. /\ f \in Around(tree, h) /\ f \in 1 .. Len(tree) /\ tree[f].form = "block" /\ m = tree[f].parent
        /\ tree[f].arg = x /\ tree[f].use = "function" /\ f \in BlocksAround(u, Id)
        /\ Declaring(x) # {}
    BY <1>3, <1>4, <1>7 DEF Results, x
  <2>2. At(k) \in 1 .. Len(scopes) /\ scopes[At(k)].node = m
    BY <1>2, <2>1
  <2>3. /\ m \in Around(tree, h) /\ m \in 1 .. Len(tree) /\ scopes[At(k)].kind = tree[m].form
        /\ scopes[At(k)].kind = "block" => At(k) = Place(tree, m, 1) /\ scopes[At(k)].names = tree[m].names
    BY <1>1, <2>2, Alive
  <2>4. tree[m].form = "block" /\ tree[m].names[x] = "function"
    <3>1. IsNode(tree, f)
      BY <1>1, <2>1 DEF IsTree
    <3>2. QED BY <2>1, <2>3, <3>1 DEF IsNode
  <2>5. Parent(k).names[x] = "function" /\ UseOf(x) = "function"
    BY <1>5, <2>1, <2>3, <2>4
  <2>6. /\ Place(tree, f, 1) \in 1 .. Len(scopes) /\ Place(tree, f, 1) = Deep(tree, m) + 1
        /\ 1 \in 1 .. OpensIn(tree, f) /\ At(k) = Deep(tree, m)
    <3>1. Place(tree, f, 1) = Deep(tree, m) + 1
      BY <2>1 DEF Place
    <3> HIDE DEF m
    <3>2. QED BY <1>1, <2>1, <2>3, <2>4, <3>1, BlockPlace
  <2>7. q = Place(tree, f, 1) /\ k > 0 /\ Parent(k - 1) = scopes[q]
    <3>1. At(k) = Len(scopes) - k /\ q = Len(scopes) - (k - 1)
      BY DEF At
    <3>2. k \in Nat
      BY <1>5, <2>1
    <3> DEFINE len == Len(scopes)
               r == At(k)
               place == Place(tree, f, 1)
    <3>3. /\ len \in Nat /\ r \in 1 .. len /\ r = len - k /\ q = len - (k - 1)
          /\ place \in 1 .. len /\ place = r + 1
      BY <1>1, <2>2, <2>6, <3>1
    <3> HIDE DEF len, r, q, place, k
    <3>4. q = place /\ k > 0
      BY <3>2, <3>3
    <3>5. QED BY <3>4 DEF Parent, q, place
  <2>8. ScopeOf(Names, tree, scopes[q], f, 1)
    BY <1>1, <2>1, <2>6, <2>7 DEF Stacked
  <2> HIDE DEF q
  <2>9. scopes[q].node = f /\ scopes[q].kind = "block"
    BY <2>1, <2>8 DEF ScopeOf
  <2>10. Assigns("assignment", x)
    BY <2>1, <2>5, <2>7, <2>9 DEF Assigns, IsCurrentFunction, k
  <2>11. \A p \in 1 .. Len(scopes) : scopes[p].node = f => p = q
    BY <1>1, <2>1, <2>7, Alive
  <2>12. QED BY <2>1, <2>6, <2>7, <2>9, <2>10, <2>11
<1> HIDE DEF q
<1>8. QED BY <1>6, <1>7, <1>3 DEF Closed, q, k, x, Results

(* A longer tree changes nothing of what is said of the nodes before.      *)
LEMMA JudgedStable ==
    ASSUME NEW t, NEW u, Grows(t, u)
    PROVE  /\ \A n \in 1 .. Len(t) : \A f : Results(u, n, f) <=> Results(t, n, f)
           /\ \A n \in 1 .. Len(t) : t[n].form # "block" => \A es : StatementJudged(u, es, n) <=> StatementJudged(t, es, n)
           /\ \A f : Gives(u, f) <=> Gives(t, f) \/ (Results(u, Len(u), f) /\ u[Len(u)].fine)
           /\ \A b \in 1 .. Len(t) :
                 /\ t[b].form = "block" /\ ~Results(u, Len(u), b)
                 /\ u[Len(u)].form = "block" \/ HomeBlock(u, Len(u)) # b
                 => (Lacks(u, b) <=> Lacks(t, b))
<1>1. /\ IsTree(t) /\ IsTree(u) /\ Len(t) \in Nat /\ Len(u) = Len(t) + 1
      /\ \A n \in 1 .. Len(t) : u[n] = t[n]
  BY SequentialMeans DEF Grows, IsTree
<1>2. ASSUME NEW n \in 1 .. Len(t)
      PROVE  /\ BlocksAround(u, n) = BlocksAround(t, n) /\ \A f \in BlocksAround(t, n) : u[f] = t[f]
             /\ u[n] = t[n] /\ u[1] = t[1]
  <2>1. t[n].parent \in 0 .. Len(t) /\ u[n] = t[n]
    BY <1>1, Unfold
  <2>2. Around(u, t[n].parent) = Around(t, t[n].parent)
    BY <2>1, Stable
  <2>3. Around(t, t[n].parent) \subseteq 1 .. t[n].parent
    BY <1>1, <2>1, Lines DEF Line
  <2>4. \A f \in Around(t, t[n].parent) : f \in 1 .. Len(t)
    BY <1>1, <2>1, <2>3
  <2>5. QED BY <1>1, <2>1, <2>2, <2>4 DEF BlocksAround
<1>3. \A n \in 1 .. Len(t) : \A f : Results(u, n, f) <=> Results(t, n, f)
  BY <1>2, FoundStable DEF Results
<1>4. ASSUME NEW n \in 1 .. Len(t), t[n].form # "block", NEW es
      PROVE  StatementJudged(u, es, n) <=> StatementJudged(t, es, n)
  <2>1. /\ HomeBlock(u, n) = HomeBlock(t, n) /\ u[HomeBlock(t, n)] = t[HomeBlock(t, n)]
        /\ First(u, n) <=> First(t, n)
        /\ Targets(u, n) = Targets(t, n) /\ UseFor(u, n) = UseFor(t, n)
        /\ MeantBy(u, n) = MeantBy(t, n)
    <3>1. HomeBlock(t, n) \in 1 .. Len(t)
      BY <1>1, <1>4, HomeBlockIs
    <3>2. QED BY <1>1, <3>1, FoundStable, FirstStable, TargetsStable
  <2>2. Proper(u, n) <=> Proper(t, n)
    BY <1>2, <1>3, <2>1 DEF Proper, OwnFor
  <2>3. QED BY <1>2, <2>1, <2>2 DEF StatementJudged, Undeclared, Repeats
<1>5. ASSUME NEW f
      PROVE  Gives(u, f) <=> Gives(t, f) \/ (Results(u, Len(u), f) /\ u[Len(u)].fine)
  <2>1. \A n : n \in 1 .. Len(u) <=> n \in 1 .. Len(t) \/ n = Len(u)
    BY <1>1
  <2>2. QED BY <1>1, <1>3, <2>1 DEF Gives
<1>6. ASSUME NEW b \in 1 .. Len(t), t[b].form = "block", ~Results(u, Len(u), b),
             u[Len(u)].form = "block" \/ HomeBlock(u, Len(u)) # b
      PROVE  Lacks(u, b) <=> Lacks(t, b)
  <2>1. \A l : PrefixedIn(u, b, l) = {} <=> PrefixedIn(t, b, l) = {}
    BY <1>6, PrefixedGrows
  <2>2. QED BY <1>1, <1>5, <1>6, <2>1 DEF Lacks
<1>7. QED BY <1>3, <1>4, <1>5, <1>6

(* What the step finds right is right.                                     *)
LEMMA ProperNode ==
    ASSUME Coherence, Doing("statement"), NEW u, Grows(tree, u), Id = Len(u),
           u[Id].parent = Task.parent, Inhabited(tree, Task.parent), Task.parent \in 1 .. Len(tree),
           u[Id].form \in Accessing => u[Id].arg \in Names
    PROVE  Fitting(u[Id].form, u[Id].arg, u[Id].fine) <=> Proper(u, Id)
<1> DEFINE x == u[Id].arg
           form == u[Id].form
<1>1. u[1] = tree[1]
  BY Prefixing, Here DEF Grows
<1>2. form \in Accessing =>
         /\ scopes[At(ClosestContainingBlock)].node = HomeBlock(u, Id)
         /\ UseFor(u, Id) = UseOf(x)
         /\ Declaring(x) # {} =>
               (Least1(x) = ClosestContainingBlock <=> MeantBy(u, Id) = HomeBlock(u, Id))
  BY Bridged
<1>3. UseOf(x) = "ordinal" => Declaring(x) # {}
  BY DEF UseOf
<1>4. form = "for" => (OwnOrdinal(x) <=> OwnFor(u, Id))
  BY <1>2, <1>3 DEF OwnOrdinal, OwnFor, Accessing
<1>5. form \in Accessing => (Assigns(form, x) <=> \E f \in BlocksAround(u, Id) : Results(u, Id, f))
  <2>1. CASE form = "assignment"
    BY <2>1, Assigning DEF Accessing
  <2>2. CASE form # "assignment"
    BY <2>2 DEF Assigns, Results
  <2>3. QED BY <2>1, <2>2
<1> HIDE DEF x, form
<1>6. QED BY <1>1, <1>2, <1>4, <1>5 DEF Fitting, Proper, x, form, Accessing

(* What a statement reports beside threats and disallowed targets.         *)
LEMMA JudgedNode ==
    ASSUME Right, Labelling, Doing("statement"),
           NEW form, NEW arg, NEW refers, NEW fine, NEW errs, NEW ns, NEW inside,
           Resolved(form, arg, refers, fine, errs, ns, inside),
           NEW u, Grows(tree, u), Id = Len(u), u[Id].form = form, form # "block", u[Id].arg = arg,
           u[Id].label = Task.label, u[Id].parent = Task.parent,
           Inhabited(tree, Task.parent), Task.parent \in 1 .. Len(tree),
           form \in Accessing => arg \in Names,
           NEW es, es = errors \cup LabelErrors \cup errs,
           NEW errs2, es = errors \cup LabelErrors \cup errs2,
           Flawed(errs2) <=> ~Fitting(form, arg, u[Id].fine)
    PROVE  StatementJudged(u, es, Id)
<1>1. Coherence /\ ErrorsRight /\ MarksRight(tree, scopes) /\ BlocksRight(tree)
  BY DEF Right, Labelling
<1>2. \A e \in errs : e.at = Id
  BY NewErrors
<1>3. /\ Reported(es, "UNDEFINED_LABEL", Id) <=>
            Undeclared(u, Id) \/ \E e \in errs : e.code = "UNDEFINED_LABEL"
      /\ Repeats(u, Id) <=> \E e \in LabelErrors : e.code = "AMBIGUOUS_LABEL"
  BY <1>1, <1>2, LabelReports
<1>4. (\E e \in errs : e.code = "UNDEFINED_LABEL") <=> form = "goto" /\ Targets(u, Id) = {}
  <2>1. CASE Ordinary(form, arg, refers, fine, errs, ns, inside)
    BY <2>1 DEF Ordinary, Minor, OtherCodes
  <2>2. CASE Opening(form, arg, refers, fine, errs, ns, inside)
    <3>1. form = "with" /\ errs = {}
      BY <2>2, Zenon DEF Opening
    <3>2. QED BY <3>1
  <2>3. CASE Going(form, arg, refers, fine, errs, ns, inside)
    <3>1. form = "goto"
      BY <2>3 DEF Going
    <3>2. GoesTo(arg, errs)
      BY <2>3 DEF GoesTo
    <3>3. QED BY <1>1, <3>1, <3>2, GoingReports
  <2>4. QED BY <2>1, <2>2, <2>3 DEF Resolved
<1>5. Faulty(es, Id) <=> ~Proper(u, Id) \/ Repeats(u, Id)
  <2>1. \A e \in errors : e.at # Id
    BY <1>1, Here DEF ErrorsRight, Doing, Grows
  <2>2. \A e \in LabelErrors : e.at = Id /\ (e.code \notin Elsewhere <=> e.code = "AMBIGUOUS_LABEL")
    BY LabelErrorsHere DEF Elsewhere, Threat
  <2>3. Faulty(es, Id) <=> Flawed(errs2) \/ Repeats(u, Id)
    BY <1>3, <2>1, <2>2 DEF Faulty, Flawed
  <2>4. QED BY <1>1, <2>3, ProperNode
<1>6. QED BY <1>3, <1>4, <1>5 DEF StatementJudged

(* The result that a statement may assign is noted where it belongs.       *)
LEMMA JudgedScopes ==
    ASSUME Coherence, Doing("statement"), Judging,
           NEW u, Grows(tree, u), Id = Len(u), u[Id].form # "block", u[Id].parent = Task.parent,
           Inhabited(tree, Task.parent), Task.parent \in 1 .. Len(tree),
           u[Id].form \in Accessing => u[Id].arg \in Names,
           NEW ns, Notes(u[Id].form, u[Id].arg, u[Id].fine, ns),
           \A p \in 1 .. Len(scopes) : p \in 1 .. Len(ns) /\ ns[p].node = scopes[p].node,
           \A p \in 1 .. Len(ns) : p \notin 1 .. Len(scopes) => ns[p].node = Id /\ ~ns[p].assigned
    PROVE  \A p \in 1 .. Len(ns) : ns[p].assigned <=> Gives(u, ns[p].node)
<1> DEFINE x == u[Id].arg
<1>1. \A f : Gives(u, f) <=> Gives(tree, f) \/ (Results(u, Id, f) /\ u[Id].fine)
  BY JudgedStable
<1>2. ASSUME NEW p \in 1 .. Len(scopes)
      PROVE  Results(u, Id, scopes[p].node) <=>
                Assigns(u[Id].form, x) /\ p = At(Least1(x) - 1)
  <2>1. CASE u[Id].form = "assignment"
    BY <2>1, Assigning DEF Accessing
  <2>2. CASE u[Id].form # "assignment"
    BY <2>2 DEF Assigns, Results
  <2>3. QED BY <2>1, <2>2
<1>3. ASSUME NEW p \in 1 .. Len(scopes)
      PROVE  ns[p].assigned <=> Gives(u, ns[p].node)
  <2>1. scopes[p].assigned <=> Gives(tree, scopes[p].node)
    BY DEF Judging, JudgingOf
  <2>2. ns[p].assigned <=>
           scopes[p].assigned \/ (u[Id].fine /\ Assigns(u[Id].form, x) /\ p = At(Least1(x) - 1))
    BY DEF Notes
  <2>3. QED BY <1>1, <1>2, <2>1, <2>2
<1>4. \A n : ~Results(u, n, Id)
  BY DEF Results, BlocksAround
<1>5. ASSUME NEW p \in 1 .. Len(ns), p \notin 1 .. Len(scopes)
      PROVE  ns[p].assigned <=> Gives(u, ns[p].node)
  BY <1>4, <1>5 DEF Gives
<1>6. QED BY <1>3, <1>5

(* To the blocks whose scope is closed already, it does nothing.           *)
LEMMA JudgedBlocks ==
    ASSUME Right, Labelling, Doing("statement"), Judging,
           NEW u, Grows(tree, u), Id = Len(u), Id = Len(tree) + 1,
           u[Id].form # "block", u[Id].parent = Task.parent, u[Id].label = Task.label,
           Inhabited(tree, Task.parent), Task.parent \in 1 .. Len(tree),
           u[Id].form \in Accessing => u[Id].arg \in Names,
           NEW ns,
           \A p \in 1 .. Len(scopes) : p \in 1 .. Len(ns) /\ ns[p].node = scopes[p].node,
           \A p \in 1 .. Len(ns) : p \notin 1 .. Len(scopes) => ns[p].node = Id,
           NEW es,
           \A n \in 1 .. Len(tree) : \A code : Reported(es, code, n) <=> Reported(errors, code, n)
    PROVE  \A b \in 1 .. Len(u) : u[b].form = "block" => BlockJudged(u, ns, es, b)
<1>1. /\ Coherence /\ MarksRight(tree, scopes) /\ Len(tree) \in Nat
      /\ \A n \in 1 .. Len(tree) : u[n] = tree[n] /\ n # Id
      /\ \A n : n \in 1 .. Len(u) <=> n \in 1 .. Len(tree) \/ n = Id
  BY Here DEF Right, Labelling, Doing, Grows
<1>2. At(ClosestContainingBlock) \in 1 .. Len(scopes)
      /\ HomeBlock(u, Id) = scopes[At(ClosestContainingBlock)].node
  BY <1>1, Prefixing, Closest, FirstPrefixMeans
<1>3. \A f : Results(u, Id, f) => ~Closed(scopes, f)
  <2>1. CASE u[Id].form = "assignment"
    BY <1>1, <2>1, Assigning DEF Accessing
  <2>2. CASE u[Id].form # "assignment"
    BY <2>2 DEF Results
  <2>3. QED BY <2>1, <2>2
<1>4. ASSUME NEW b \in 1 .. Len(tree), u[b].form = "block"
      PROVE  BlockJudged(u, ns, es, b)
  <2>1. BlockJudged(tree, scopes, errors, b)
    BY <1>1, <1>4 DEF Judging, JudgingOf
  <2>2. (\E e \in es : e.at = b) <=> (\E e \in errors : e.at = b)
    BY DEF Reported
  <2>3. Closed(ns, b) <=> Closed(scopes, b)
    BY <1>1 DEF Closed
  <2>4. Closed(scopes, b) => ~Results(u, Id, b) /\ HomeBlock(u, Id) # b
    BY <1>2, <1>3 DEF Closed
  <2>5. Closed(scopes, b) => (Lacks(u, b) <=> Lacks(tree, b))
    BY <1>1, <1>4, <2>4, JudgedStable
  <2>6. QED BY <1>1, <2>1, <2>2, <2>3, <2>5 DEF BlockJudged
<1>5. QED BY <1>1, <1>4

(* A verdict depends on the errors of its statement alone.                 *)
LEMMA JudgedSame ==
    ASSUME NEW t, NEW es, NEW fs, NEW n,
           \A code : Reported(fs, code, n) <=> Reported(es, code, n)
    PROVE  StatementJudged(t, fs, n) <=> StatementJudged(t, es, n)
<1>1. \A s : Faulty(s, n) <=> \E code : Reported(s, code, n) /\ code \notin Elsewhere
  BY DEF Faulty, Reported
<1>2. QED BY <1>1 DEF StatementJudged

LEMMA StatementJudges ==
    ASSUME Right, Labelling, Judging, IsVocabulary(vocabulary), StatementAction
    PROVE  JudgingOf(tree', scopes', errors')
<1>1. Coherence /\ Doing("statement") /\ StatementStep /\ SayingStep /\ ErrorsRight
  BY StatementSteps, SayingSteps DEF Right
<1>2. PICK form, arg, refers, fine, errs, ns, inside :
         /\ Resolve(form, arg, refers, fine, errs, ns, inside)
         /\ Resolved(form, arg, refers, fine, errs, ns, inside)
  BY <1>1 DEF StatementStep
<1>3. PICK form2, x, refers2, fine2, errs2, ns2, inside2 :
         /\ Resolve(form2, x, refers2, fine2, errs2, ns2, inside2)
         /\ Says(form2, x, fine2, errs2, ns2, inside2)
  BY <1>1 DEF SayingStep
<1> DEFINE u == tree'
           ss == scopes'
           es == errors'
<1>4. /\ Grows(tree, u) /\ Id = Len(tree) + 1 /\ Id \in Nat /\ Len(u) = Id
      /\ u[Id].form = form /\ u[Id].parent = Task.parent /\ u[Id].arg = arg /\ u[Id].label = Task.label
      /\ Task.parent \in 1 .. Len(tree) /\ Inhabited(tree, Task.parent) /\ form # "block"
  BY <1>1, <1>2, StatementNode
<1>5. ss = ns /\ es = errors \cup LabelErrors \cup errs
  BY <1>1, <1>2, ResolvedNode
<1>6. /\ u[Id].form = form2 /\ u[Id].arg = x /\ u[Id].fine = fine2
      /\ ss = ns2 /\ es = errors \cup LabelErrors \cup errs2
  BY <1>1, <1>3, ResolvedNode
<1>7. /\ \A p \in 1 .. Len(scopes) : p \in 1 .. Len(ns) /\ ns[p].node = scopes[p].node
      /\ \A p \in 1 .. Len(ns) : p \notin 1 .. Len(scopes) => ns[p].node = Id /\ ~ns[p].assigned
  BY <1>1, <1>2, ScopesAfter
<1>8. /\ Notes(u[Id].form, u[Id].arg, u[Id].fine, ss)
      /\ Flawed(errs2) <=> ~Fitting(form, arg, u[Id].fine)
  <2> HIDE DEF u, ss
  <2>1. form = form2 /\ arg = x
    BY <1>4, <1>6
  <2>2. QED BY <1>3, <1>6, <2>1 DEF Says
<1>9. form \in Accessing => arg \in Names
  <2>1. CASE Ordinary(form, arg, refers, fine, errs, ns, inside)
    BY <2>1 DEF Ordinary
  <2>2. CASE Going(form, arg, refers, fine, errs, ns, inside)
    BY <2>2 DEF Going, Accessing
  <2>3. CASE Opening(form, arg, refers, fine, errs, ns, inside)
    <3>1. form = "with"
      BY <2>3, Zenon DEF Opening
    <3>2. QED BY <3>1 DEF Accessing
  <2>4. QED BY <1>2, <2>1, <2>2, <2>3 DEF Resolved
<1> HIDE DEF u, ss, es
<1>10. \A n \in 1 .. Len(tree) : \A code : Reported(es, code, n) <=> Reported(errors, code, n)
  <2>1. \A e \in errs : e.at = Id
    BY <1>2, NewErrors
  <2>2. QED BY <1>1, <1>5, <2>1, ReportedAfter
<1>11. StatementJudged(u, es, Id)
  BY <1>1, <1>2, <1>4, <1>5, <1>6, <1>8, <1>9, JudgedNode
<1>12. ASSUME NEW n \in 1 .. Len(tree), u[n].form # "block"
       PROVE  StatementJudged(u, es, n)
  <2>1. tree[n].form # "block"
    BY <1>4, <1>12 DEF Grows
  <2>2. StatementJudged(u, es, n) <=> StatementJudged(tree, es, n)
    BY <1>4, <2>1, JudgedStable
  <2>3. StatementJudged(tree, errors, n)
    BY <2>1 DEF Judging, JudgingOf
  <2>4. StatementJudged(tree, es, n) <=> StatementJudged(tree, errors, n)
    BY <1>10, JudgedSame
  <2>5. QED BY <2>2, <2>3, <2>4
<1>13. \A n : n \in 1 .. Len(u) <=> n \in 1 .. Len(tree) \/ n = Id
  BY <1>1, <1>4, Here DEF Doing
<1>14. \A b \in 1 .. Len(u) : u[b].form = "block" => BlockJudged(u, ss, es, b)
  BY <1>1, <1>4, <1>5, <1>7, <1>9, <1>10, JudgedBlocks
<1>15. \A p \in 1 .. Len(ss) : ss[p].assigned <=> Gives(u, ss[p].node)
  BY <1>1, <1>4, <1>5, <1>7, <1>8, <1>9, JudgedScopes
<1>16. JudgingOf(u, ss, es)
  BY <1>11, <1>12, <1>13, <1>14, <1>15 DEF JudgingOf
<1>17. QED BY <1>16 DEF u, ss, es

(* The steps of buildBlock().                                              *)
LEMMA BlockJudges ==
    ASSUME Right, Judging, IsVocabulary(vocabulary), BuildBlock
    PROVE  JudgingOf(tree', scopes', errors')
<1>1. Coherence /\ Doing("block") /\ BlockStep /\ ErrorsRight
  BY BlockSteps DEF Right
<1>2. PICK uses, labels, repeated, body, e : Building(uses, labels, repeated, body, e)
  BY <1>1 DEF BlockStep
<1> DEFINE u == tree'
           b == BlockScope(Id, uses, labels)
           ns == Append(scopes, b)
           es == errors'
<1>3. scopes' = ns /\ es = errors \cup ErrIf(repeated # NoLabel, "DUPLICATE_LABEL")
  BY <1>2 DEF Building
<1>4. /\ Grows(tree, u) /\ Id = Len(tree) + 1 /\ Id \in Nat /\ Len(u) = Id
      /\ Id \in 1 .. Len(u) /\ u[Id] = e /\ BlockNode(e, uses, labels, repeated)
  BY <1>1, <1>2, BlockTree
<1>5. b.node = Id /\ ~b.assigned
  BY DEF BlockScope
<1> HIDE DEF u, es, b
<1>6. u[Id].form = "block" /\ u[Id].repeated = repeated
  BY <1>4 DEF BlockNode
<1>7. /\ Len(tree) \in Nat /\ Sequential(scopes) /\ IsTree(u)
      /\ \A n \in 1 .. Len(tree) : u[n] = tree[n] /\ n # Id
      /\ \A n : n \in 1 .. Len(u) <=> n \in 1 .. Len(tree) \/ n = Id
  BY <1>1, <1>4, Here DEF Doing, Grows
<1>8. \A f : ~Results(u, Id, f)
  BY <1>6 DEF Results
<1>9. /\ \A f : Gives(u, f) <=> Gives(tree, f)
      /\ ~Gives(u, Id)
  <2>1. \A f : Gives(u, f) <=> Gives(tree, f)
    BY <1>4, <1>8, JudgedStable
  <2>2. ASSUME NEW n \in 1 .. Len(u), Results(u, n, Id) PROVE FALSE
    <3>1. u[n].parent \in 0 .. n - 1 /\ u[n].parent \in 0 .. Len(u) /\ n \in Nat
      BY <1>7, Unfold
    <3>2. Id \in 1 .. u[n].parent
      BY <1>7, <2>2, <3>1, Lines DEF Results, BlocksAround, Line
    <3> HIDE DEF Id
    <3>3. QED BY <1>4, <3>1, <3>2
  <2>3. QED BY <2>1, <2>2 DEF Gives
<1>10. /\ Err("DUPLICATE_LABEL").at = Id
       /\ \A f \in errors : f.at # Id
  BY <1>1, <1>7 DEF Err, ErrorsRight
<1>11. /\ \A n \in 1 .. Len(tree) : \A f : f \in es /\ f.at = n <=> f \in errors /\ f.at = n
       /\ (\E f \in es : f.at = Id) <=> repeated # NoLabel
  BY <1>3, <1>7, <1>10 DEF ErrIf
<1>12. /\ Len(ns) = Len(scopes) + 1 /\ Len(scopes) \in Nat
       /\ \A p \in 1 .. Len(scopes) : ns[p] = scopes[p]
       /\ ns[Len(scopes) + 1] = b
  BY <1>7, Appended, SequentialMeans
<1> HIDE DEF ns
<1>13. /\ \A p \in 1 .. Len(scopes) : p \in 1 .. Len(ns)
       /\ Len(scopes) + 1 \in 1 .. Len(ns)
       /\ \A p \in 1 .. Len(ns) : p \in 1 .. Len(scopes) \/ p = Len(scopes) + 1
  BY <1>12
<1>14. ASSUME NEW n \in 1 .. Len(u), u[n].form # "block"
       PROVE  StatementJudged(u, es, n)
  <2>1. n \in 1 .. Len(tree) /\ tree[n].form # "block"
    BY <1>6, <1>7, <1>14
  <2>2. StatementJudged(u, es, n) <=> StatementJudged(tree, es, n)
    BY <1>4, <2>1, JudgedStable
  <2>3. StatementJudged(tree, errors, n)
    BY <2>1 DEF Judging, JudgingOf
  <2>4. \A code : Reported(es, code, n) <=> Reported(errors, code, n)
    BY <1>11, <2>1 DEF Reported
  <2>5. StatementJudged(tree, es, n) <=> StatementJudged(tree, errors, n)
    BY <2>4, JudgedSame
  <2>6. QED BY <2>2, <2>3, <2>5
<1>15. ASSUME NEW c \in 1 .. Len(u), u[c].form = "block"
       PROVE  BlockJudged(u, ns, es, c)
  <2>1. CASE c = Id
    <3>1. ~Closed(ns, Id)
      BY <1>5, <1>12, <1>13 DEF Closed
    <3>2. QED BY <1>6, <1>11, <2>1, <3>1 DEF BlockJudged
  <2>2. CASE c # Id
    <3>1. c \in 1 .. Len(tree) /\ u[c] = tree[c]
      BY <1>7, <2>2
    <3>2. BlockJudged(tree, scopes, errors, c)
      BY <1>15, <3>1 DEF Judging, JudgingOf
    <3>3. Closed(ns, c) <=> Closed(scopes, c)
      BY <1>5, <1>12, <1>13, <2>2 DEF Closed
    <3>4. Lacks(u, c) <=> Lacks(tree, c)
      BY <1>4, <1>6, <1>8, <1>15, <3>1, JudgedStable
    <3>5. (\E f \in es : f.at = c) <=> \E f \in errors : f.at = c
      BY <1>11, <3>1
    <3>6. QED BY <3>1, <3>2, <3>3, <3>4, <3>5 DEF BlockJudged
  <2>3. QED BY <2>1, <2>2
<1>16. ASSUME NEW p \in 1 .. Len(ns)
       PROVE  ns[p].assigned <=> Gives(u, ns[p].node)
  BY <1>5, <1>9, <1>12, <1>13 DEF Judging, JudgingOf
<1>17. JudgingOf(u, ns, es)
  BY <1>14, <1>15, <1>16 DEF JudgingOf
<1>18. QED BY <1>3, <1>17 DEF u, es

LEMMA DeclareJudges ==
    ASSUME Judging, DeclareSubroutine
    PROVE  JudgingOf(tree', scopes', errors')
<1>1. tree' = tree /\ scopes' = scopes /\ errors' = errors
  BY DEF DeclareSubroutine
<1>2. QED BY <1>1 DEF Judging

(* The scopes that are left are those of the node that is left.            *)
LEMMA LeftNode ==
    ASSUME Coherence, tasks # <<>>, Task.op \in LeaveOps,
           NEW p \in 1 .. Len(scopes), p \notin 1 .. Len(scopes) - Task.count
    PROVE  scopes[p].node = Task.node
<1> DEFINE h == Task.node
<1>1. /\ IsTree(tree) /\ Len(scopes) = Deep(tree, h) /\ Stacked(Names, tree, scopes, h)
      /\ h \in 1 .. Len(tree) /\ Task.count = OpensIn(tree, h)
  <2>1. /\ IsTree(tree) /\ Len(scopes) = Deep(tree, Home(Task)) /\ Stacked(Names, tree, scopes, Home(Task))
        /\ Home(Task) \in 0 .. Len(tree) /\ TaskRight(tree, Task) /\ Len(tree) \in Nat
    BY Here
  <2>2. Home(Task) = h
    BY DEF Home, LeaveOps
  <2>3. h # 0 /\ Task.count = OpensIn(tree, h)
    BY <2>1, <2>2 DEF TaskRight, LeaveOps
  <2>4. QED BY <2>1, <2>2, <2>3
<1>2. /\ h \in Around(tree, h) /\ Deep(tree, h) = OpensIn(tree, h) + Deep(tree, tree[h].parent)
      /\ OpensIn(tree, h) \in Nat /\ Deep(tree, tree[h].parent) \in Nat
  BY <1>1, Unfold
<1> DEFINE opens == OpensIn(tree, h)
           base == Deep(tree, tree[h].parent)
           j == p - base
<1>3. j \in 1 .. opens /\ base + j = p
  <2> HIDE DEF opens, base, h
  <2>1. /\ Len(scopes) = opens + base /\ opens \in Nat /\ base \in Nat /\ Task.count = opens
        /\ p \in 1 .. opens + base /\ p \notin 1 .. (opens + base) - opens
    BY <1>1, <1>2 DEF opens, base
  <2>2. QED BY ONLY <2>1 DEF j
<1> HIDE DEF j
<1>4. Place(tree, h, j) = p
  BY <1>3 DEF Place
<1>5. ScopeOf(Names, tree, scopes[p], h, j)
  BY <1>1, <1>2, <1>3, <1>4 DEF Stacked
<1>6. QED BY <1>5 DEF ScopeOf

LEMMA LeaveJudges ==
    ASSUME Right, Labelling, Judging, LeaveWith \/ LeaveBlock
    PROVE  JudgingOf(tree', scopes', errors')
<1>1. /\ Coherence /\ MarksRight(tree, scopes)
      /\ \A n \in 1 .. Len(tree) : tree[n].form # "block" => StatementJudged(tree, errors, n)
      /\ \A b \in 1 .. Len(tree) : tree[b].form = "block" => BlockJudged(tree, scopes, errors, b)
      /\ \A p \in 1 .. Len(scopes) : scopes[p].assigned <=> Gives(tree, scopes[p].node)
  BY DEF Right, Labelling, Judging, JudgingOf
<1> DEFINE len == Len(scopes)
           m == len - Task.count
           ns == SubSeq(scopes, 1, m)
           es == errors'
           c == Task.node
           last == scopes[len]
<1>2. /\ tasks # <<>> /\ Task.op \in LeaveOps /\ tree' = tree /\ scopes' = ns
      /\ (Task.op = "leaveWith" /\ es = errors) \/ LeaveBlock
  BY DEF LeaveWith, LeaveBlock, Doing, LeaveOps
<1>3. /\ Task.op = "leaveWith" => tree[c].form = "with"
      /\ LeaveBlock => tree[c].form = "block" /\ Task.count = 1
  <2>1. TaskRight(tree, Task) /\ Home(Task) = c
    BY <1>1, <1>2, Here DEF Home, LeaveOps
  <2>2. QED BY <1>2, <2>1 DEF TaskRight, LeaveBlock, Doing, OpensIn
<1>4. m \in 0 .. len /\ len \in Nat /\ Sequential(scopes)
  BY <1>1, <1>2, LeftScopes
<1>5. \A p \in 1 .. len : p \notin 1 .. m => scopes[p].node = c
  BY <1>1, <1>2, LeftNode
<1>6. Len(ns) = m /\ \A p \in 1 .. m : ns[p] = scopes[p]
  BY <1>4, Shortened
<1> HIDE DEF ns, es, c, len, last, m
<1>7. \A p \in 1 .. Len(ns) : p \in 1 .. len /\ ns[p] = scopes[p]
  BY <1>4, <1>6
<1>8. \A b : b # c => (Closed(ns, b) <=> Closed(scopes, b))
  BY <1>5, <1>6, <1>7 DEF Closed, len
<1>9. \A p \in 1 .. Len(ns) : ns[p].assigned <=> Gives(tree, ns[p].node)
  BY <1>1, <1>7 DEF len
<1>10. CASE Task.op = "leaveWith" /\ es = errors
  BY <1>1, <1>2, <1>3, <1>8, <1>9, <1>10 DEF JudgingOf, BlockJudged, es
<1>11. CASE LeaveBlock
  <2>1. /\ m = len - 1 /\ len \in 1 .. len /\ len \notin 1 .. m
        /\ \A p \in 1 .. m : p # len /\ p \in 1 .. len
    BY <1>3, <1>4, <1>11 DEF m
  <2>2. last.node = c
    BY <1>5, <2>1 DEF last
  <2>3. /\ \A p \in 1 .. len : scopes[p].node = c => p = len
        /\ DOMAIN last.labels = tree[c].labels /\ c \in 1 .. Len(tree)
    <3>1. ASSUME NEW p \in 1 .. len, scopes[p].node = c
          PROVE  p = Place(tree, c, 1) /\ DOMAIN scopes[p].labels = tree[c].labels /\ c \in 1 .. Len(tree)
      BY <1>1, <1>2, <1>3, <1>11, <3>1, Alive DEF len
    <3>2. QED BY <2>1, <2>2, <3>1 DEF last
  <2>4. Closed(ns, c) /\ ~Closed(scopes, c)
    BY <1>6, <1>7, <2>1, <2>2, <2>3 DEF Closed, len, last
  <2> DEFINE unused == {l \in DOMAIN last.labels : last.labels[l] = 0}
             resultless == tree[c].use = "function" /\ ~last.assigned
  <2>5. es = errors \cup {[code |-> "UNUSED_LABEL", at |-> c] : l \in unused}
              \cup (IF resultless THEN {[code |-> "MISSING_RESULT_ASSIGNMENT", at |-> c]} ELSE {})
    BY <1>11 DEF LeaveBlock, es, c, last, len
  <2>6. (unused # {} \/ resultless) <=> Lacks(tree, c)
    <3>1. \A l \in tree[c].labels : last.labels[l] = 0 <=> PrefixedIn(tree, c, l) = {}
      BY <1>1, <2>1, <2>2, <2>3 DEF MarksRight, last, len
    <3>2. last.assigned <=> Gives(tree, c)
      BY <1>1, <2>1, <2>2 DEF last, len
    <3>3. QED BY <2>3, <3>1, <3>2 DEF Lacks
  <2> HIDE DEF unused, resultless
  <2>7. /\ \A f : f \in errors => f \in es
        /\ \A f \in es : f \in errors \/ f.at = c
        /\ (\E f \in es : f.at = c) <=>
              (\E f \in errors : f.at = c) \/ unused # {} \/ resultless
    <3>1. \A code : [code |-> code, at |-> c].at = c
      OBVIOUS
    <3>2. QED BY <2>5, <3>1
  <2>8. ASSUME NEW n \in 1 .. Len(tree), tree[n].form # "block"
        PROVE  StatementJudged(tree, es, n)
    <3>1. n # c
      BY <1>3, <1>11, <2>8
    <3>2. \A f : f \in es /\ f.at = n <=> f \in errors /\ f.at = n
      BY <2>7, <3>1
    <3>3. \A code : Reported(es, code, n) <=> Reported(errors, code, n)
      BY <3>2 DEF Reported
    <3>4. QED BY <1>1, <2>8, <3>3, JudgedSame
  <2>9. ASSUME NEW b \in 1 .. Len(tree), tree[b].form = "block"
        PROVE  BlockJudged(tree, ns, es, b)
    <3>1. BlockJudged(tree, scopes, errors, b)
      BY <1>1, <2>9
    <3>2. CASE b = c
      BY <2>4, <2>6, <2>7, <3>1, <3>2 DEF BlockJudged
    <3>3. CASE b # c
      BY <1>8, <2>7, <3>1, <3>3 DEF BlockJudged
    <3>4. QED BY <3>2, <3>3
  <2>10. JudgingOf(tree, ns, es)
    BY <1>9, <2>8, <2>9 DEF JudgingOf
  <2>11. QED BY <1>2, <2>10 DEF es
<1>12. QED BY <1>2, <1>10, <1>11

LEMMA JudgingFirst ==
    ASSUME Init
    PROVE  Judging
<1>1. Len(scopes) = 0 /\ Len(tree) = 0 /\ 1 .. 0 = {}
  BY EmptySequence DEF Init
<1>2. QED BY <1>1 DEF Judging, JudgingOf

LEMMA JudgingKept ==
    ASSUME Right, Labelling, Judging, [Next]_vars
    PROVE  Judging'
<1>1. CASE UNCHANGED vars \/ Done
  BY <1>1 DEF vars, Done, analysis, Judging
<1>2. CASE Next /\ ~Done
  <2>1. IsVocabulary(vocabulary)
    BY VocabulariesAssumption DEF Right
  <2>2. JudgingOf(tree', scopes', errors')
    <3>1. CASE StatementAction
      BY <2>1, <3>1, StatementJudges
    <3>2. CASE BuildBlock
      BY <2>1, <3>2, BlockJudges
    <3>3. CASE LeaveWith \/ LeaveBlock
      BY <3>3, LeaveJudges
    <3>4. CASE DeclareSubroutine
      BY <3>4, DeclareJudges
    <3>5. QED BY <1>2, <3>1, <3>2, <3>3, <3>4 DEF Next, StatementAction
  <2>3. QED BY <2>2 DEF Judging
<1>3. QED BY <1>1, <1>2

LEMMA JudgingAlways == Spec => [](Right /\ Labelling /\ Threatening /\ Judging)
<1>1. Init => Judging
  BY JudgingFirst
<1>2. Right /\ Labelling /\ Judging /\ [Next]_vars => Judging'
  BY JudgingKept
<1>3. QED BY <1>1, <1>2, LabellingAlways, ThreateningAlways, PTL DEF Spec

(* In the words of the rules: labels, accesses and results.                *)
LEMMA LabelsMean ==
    ASSUME IsTree(tree), BlocksRight(tree)
    PROVE  LabelsAreRight <=>
              /\ \A b \in 1 .. Len(tree) : tree[b].form = "block" =>
                    tree[b].repeated = NoLabel /\ \A l \in tree[b].labels : PrefixedIn(tree, b, l) # {}
              /\ \A n \in 1 .. Len(tree) : tree[n].form # "block" => ~Undeclared(tree, n) /\ ~Repeats(tree, n)
<1>1. \A n \in 1 .. Len(tree) : n \in Nat
  BY SequentialMeans DEF IsTree
<1>2. LabelsAreRight <=>
         /\ \A b \in 1 .. Len(tree) : tree[b].form = "block" => tree[b].repeated = NoLabel
         /\ LabelsRight(tree)
  BY RulesMean DEF Blocks, Is, LabelsAreRight, LabelsRight
<1>3. ASSUME NEW n \in 1 .. Len(tree), tree[n].form # "block"
      PROVE  /\ ~Undeclared(tree, n) <=> tree[n].label \in tree[HomeBlock(tree, n)].labels \cup {NoLabel}
             /\ HomeBlock(tree, n) \in 1 .. Len(tree) /\ tree[HomeBlock(tree, n)].form = "block"
             /\ n \in PrefixedIn(tree, HomeBlock(tree, n), tree[n].label)
  BY <1>1, <1>3, HomeBlockIs DEF Undeclared, PrefixedIn
<1>4. ASSUME NEW b \in 1 .. Len(tree), tree[b].form = "block", NEW l \in tree[b].labels,
             PrefixedIn(tree, b, l) # {},
             \A n \in 1 .. Len(tree) : tree[n].form # "block" => ~Undeclared(tree, n) /\ ~Repeats(tree, n)
      PROVE  Cardinality(PrefixedIn(tree, b, l)) = 1
  <2> DEFINE S == PrefixedIn(tree, b, l)
  <2>1. \A n \in S : n \in Nat /\ \A m \in S : n <= m
    BY <1>1, <1>4 DEF PrefixedIn, BlocksRight, Repeats, First
  <2>2. PICK n : n \in S
    BY <1>4
  <2> HIDE DEF S
  <2>3. S = {n}
    BY <2>1, <2>2
  <2>4. QED BY <2>3, FS_Singleton DEF S
<1>5. ASSUME LabelsRight(tree), NEW n \in 1 .. Len(tree), tree[n].form # "block"
      PROVE  ~Undeclared(tree, n) /\ ~Repeats(tree, n)
  <2> DEFINE b == HomeBlock(tree, n)
             S == PrefixedIn(tree, b, tree[n].label)
  <2>1. ~Undeclared(tree, n)
    BY <1>3, <1>5 DEF LabelsRight
  <2>2. ASSUME tree[n].label # NoLabel
        PROVE  First(tree, n)
    <3>1. tree[n].label \in tree[b].labels /\ b \in 1 .. Len(tree) /\ tree[b].form = "block" /\ n \in S
      BY <1>3, <1>5, <2>1, <2>2
    <3>2. Cardinality(S) = 1
      BY <1>5, <3>1 DEF LabelsRight
    <3>3. IsFiniteSet(S)
      <4>1. S \subseteq 1 .. Len(tree) /\ Len(tree) \in Nat
        BY SequentialMeans DEF PrefixedIn, IsTree
      <4> HIDE DEF S
      <4>2. IsFiniteSet(1 .. Len(tree))
        BY <4>1, FS_Interval
      <4>3. QED BY <4>1, <4>2, FS_Subset
    <3>4. \A m \in S : m = n
      BY <3>1, <3>2, <3>3, FS_Singleton
    <3>5. QED BY <1>1, <1>5, <2>2, <3>1, <3>4 DEF First
  <2>3. QED BY <2>1, <2>2 DEF Repeats
<1>6. LabelsRight(tree) => \A b \in 1 .. Len(tree) : tree[b].form = "block" =>
         \A l \in tree[b].labels : PrefixedIn(tree, b, l) # {}
  <2>1. \A S : Cardinality(S) = 1 => S # {}
    BY FS_EmptySet
  <2>2. QED BY <2>1 DEF LabelsRight
<1>7. QED BY <1>2, <1>3, <1>4, <1>5, <1>6 DEF LabelsRight

LEMMA AccessesMean ==
    ASSUME IsTree(tree), NEW n \in 1 .. Len(tree)
    PROVE  /\ Proper(tree, n) <=>
                 /\ tree[n].fine
                 /\ n \in NeedsInput => tree[1].input
                 /\ n \in Accesses => LegalAccess(n)
           /\ n \in Accesses /\ LegalAccess(n) => Meaning(n, tree[n].arg) # 0
           /\ \A f \in Blocks : tree[f].use = "function" /\ Meaning(n, tree[n].arg) # 0 =>
                 (Results(tree, n, f) <=>
                     /\ Is(n, "assignment") /\ f \in Above[n]
                     /\ tree[n].arg = tree[f].arg /\ Meaning(n, tree[f].arg) = tree[f].parent)
<1> DEFINE x == tree[n].arg
           b == Meaning(n, x)
<1>1. /\ Nodes = 1 .. Len(tree) /\ Above[n] = Around(tree, tree[n].parent)
      /\ Blocks \cap Above[n] = BlocksAround(tree, n) /\ BlockOf(n) = HomeBlock(tree, n)
  BY RulesMean
<1>2. n \in NeedsInput <=> tree[n].form \in {"read", "readln"}
  BY <1>1 DEF NeedsInput
<1>3. /\ n \in Accesses <=> tree[n].form \in Accessing
      /\ b # 0 <=> Found(tree, n) # {}
      /\ b # 0 => MeantBy(tree, n) = b /\ UseFor(tree, n) = UseIn(b, x)
      /\ b = 0 => UseFor(tree, n) = "undefined" /\ UseIn(b, x) = "none"
  BY MeaningMeans
<1> HIDE DEF b, x
<1>4. ASSUME b # 0, NEW f \in BlocksAround(tree, n), tree[f].parent = b, tree[f].arg = x
      PROVE  tree[f].use = UseIn(b, x)
  <2>1. f \in 1 .. Len(tree) /\ tree[f].form = "block"
    BY Unfold, Lines DEF BlocksAround, Line
  <2>2. tree[b].form = "block" /\ tree[f].use = tree[b].names[x]
    BY <1>4, <2>1 DEF IsTree, IsNode
  <2>3. QED BY <1>4, <2>2 DEF UseIn, Is
<1>5. ASSUME b # 0, NEW f, tree[f].use = "function"
      PROVE  Results(tree, n, f) <=>
                tree[n].form = "assignment" /\ f \in BlocksAround(tree, n)
                /\ tree[f].arg = x /\ b = tree[f].parent
  BY <1>3, <1>5 DEF Results, x
<1>6. ASSUME tree[n].form \in Accessing
      PROVE  LegalAccess(n) <=>
                IF tree[n].form = "for" THEN OwnFor(tree, n)
                ELSE \/ UseFor(tree, n) \in {"ordinal", "other", "parameter", "field"}
                     \/ \E f \in BlocksAround(tree, n) : Results(tree, n, f)
  <2>1. LegalAccess(n) <=>
           IF tree[n].form = "for" THEN b = HomeBlock(tree, n) /\ UseIn(b, x) = "ordinal"
           ELSE \/ UseIn(b, x) \in {"ordinal", "other", "parameter", "field"}
                \/ /\ tree[n].form = "assignment" /\ UseIn(b, x) = "function"
                   /\ \E f \in BlocksAround(tree, n) : tree[f].parent = b /\ tree[f].arg = x
    BY <1>1 DEF LegalAccess, FunctionBlocks, Is, b, x
  <2>2. CASE b = 0
    BY <1>3, <2>1, <2>2 DEF OwnFor, Results
  <2>3. CASE b # 0
    <3>1. ASSUME NEW f \in BlocksAround(tree, n)
          PROVE  Results(tree, n, f) <=>
                    /\ tree[n].form = "assignment" /\ UseIn(b, x) = "function"
                    /\ tree[f].parent = b /\ tree[f].arg = x
      BY <1>3, <1>4, <2>3 DEF Results, x
    <3>2. QED BY <1>3, <2>1, <2>3, <3>1 DEF OwnFor
  <2>4. QED BY <2>2, <2>3
<1>7. n \in Accesses /\ LegalAccess(n) => b # 0
  BY <1>3, <1>6 DEF OwnFor, Results
<1>8. Proper(tree, n) <=>
         /\ tree[n].fine
         /\ n \in NeedsInput => tree[1].input
         /\ n \in Accesses => LegalAccess(n)
  BY <1>2, <1>3, <1>6 DEF Proper, Accessing
<1>9. ASSUME NEW f \in Blocks, tree[f].use = "function", b # 0
       PROVE  Results(tree, n, f) <=>
                  /\ Is(n, "assignment") /\ f \in Above[n]
                  /\ x = tree[f].arg /\ Meaning(n, tree[f].arg) = tree[f].parent
  BY <1>1, <1>5, <1>9 DEF Is, b
<1>10. QED BY <1>7, <1>8, <1>9 DEF b, x

LEMMA AcceptedMeans ==
    ASSUME Right, Labelling, Threatening, Judging
    PROVE  AcceptedIffLegal
<1> SUFFICES ASSUME tasks = <<>> PROVE errors = {} <=> Legal
  BY DEF AcceptedIffLegal
<1>1. /\ IsTree(tree) /\ ErrorsRight /\ BlocksRight(tree) /\ Len(scopes) = 0 /\ 1 .. 0 = {}
      /\ GotosAreExact /\ ThreatsAreExact
  BY GotosMean, ThreatsMean DEF Right, Coherence, Coherent, Labelling, Leads
<1>2. /\ Nodes = 1 .. Len(tree) /\ Blocks = {b \in 1 .. Len(tree) : tree[b].form = "block"}
      /\ \A n \in 1 .. Len(tree) : Blocks \cap Above[n] = BlocksAround(tree, n)
      /\ Accesses \subseteq Nodes /\ NeedsInput \subseteq Nodes /\ Fors \subseteq Nodes
  BY <1>1, RulesMean DEF Blocks, Is, Accesses, NeedsInput, Fors
<1>3. \A n \in 1 .. Len(tree) : tree[n].form # "block" => StatementJudged(tree, errors, n)
  BY DEF Judging, JudgingOf
<1>4. \A b \in 1 .. Len(tree) : tree[b].form = "block" =>
         ((\E e \in errors : e.at = b) <=> tree[b].repeated # NoLabel \/ Lacks(tree, b))
  BY <1>1 DEF Judging, JudgingOf, BlockJudged, Closed
<1>5. ASSUME \A n \in Accesses : LegalAccess(n), \A n \in Nodes \ Blocks : tree[n].fine
      PROVE  FunctionsAssign <=> \A f \in Blocks : tree[f].use = "function" => Gives(tree, f)
  <2>1. ASSUME NEW f \in Blocks, tree[f].use = "function"
        PROVE  Gives(tree, f) <=>
                  \E n \in Nodes : /\ Is(n, "assignment") /\ f \in Above[n]
                                   /\ tree[n].arg = tree[f].arg
                                   /\ Meaning(n, tree[f].arg) = tree[f].parent
    <3>1. ASSUME NEW n \in Nodes, tree[n].form = "assignment"
          PROVE  /\ Meaning(n, tree[n].arg) # 0 /\ tree[n].fine
                 /\ Results(tree, n, f) <=>
                       /\ Is(n, "assignment") /\ f \in Above[n]
                       /\ tree[n].arg = tree[f].arg /\ Meaning(n, tree[f].arg) = tree[f].parent
      <4>1. n \in Accesses /\ n \in Nodes \ Blocks /\ n \in 1 .. Len(tree)
        BY <1>2, <3>1 DEF Accesses
      <4>2. Meaning(n, tree[n].arg) # 0 /\ tree[n].fine
        BY <1>1, <1>5, <4>1, AccessesMean
      <4>3. QED BY <1>1, <2>1, <4>1, <4>2, AccessesMean
    <3>2. QED BY <1>2, <3>1 DEF Gives, Is, Results
  <2>2. QED BY <2>1 DEF FunctionsAssign
<1>6. ASSUME errors = {} PROVE Legal
  <2>1. \A n \in Nodes \ Blocks : Proper(tree, n) /\ ~Undeclared(tree, n) /\ ~Repeats(tree, n)
    BY <1>2, <1>3, <1>6 DEF StatementJudged, Faulty, Reported
  <2>2. \A b \in Blocks : tree[b].repeated = NoLabel /\ ~Lacks(tree, b)
    BY <1>2, <1>4, <1>6
  <2>3. LabelsAreRight
    BY <1>1, <1>2, <2>1, <2>2, LabelsMean DEF Lacks
  <2>4. /\ \A n \in Nodes \ Blocks : tree[n].fine
        /\ \A n \in Accesses : LegalAccess(n)
        /\ \A n \in NeedsInput : tree[1].input
    BY <1>1, <1>2, <2>1, AccessesMean DEF Accesses, NeedsInput
  <2>5. FunctionsAssign
    BY <1>5, <2>2, <2>4 DEF Lacks
  <2>6. \A g \in Gotos : LegalGoto(g)
    BY <1>1, <1>6, <2>3 DEF GotosAreExact, With
  <2>7. \A f \in Fors : ThreatenedFrom(f) \cup ThreatenedInside(f) = {}
    BY <1>1, <1>6, <2>4 DEF ThreatsAreExact, With
  <2>8. QED BY <2>3, <2>4, <2>5, <2>6, <2>7 DEF Legal
<1>7. ASSUME Legal, NEW e \in errors PROVE FALSE
  <2> DEFINE n == e.at
  <2>1. n \in 1 .. Len(tree)
    BY <1>1 DEF ErrorsRight
  <2>2. /\ LabelsAreRight /\ FunctionsAssign
        /\ \A g \in Gotos : LegalGoto(g)
        /\ \A m \in Accesses : LegalAccess(m)
        /\ \A m \in NeedsInput : tree[1].input
        /\ \A f \in Fors : ThreatenedFrom(f) \cup ThreatenedInside(f) = {}
        /\ \A m \in Nodes \ Blocks : tree[m].fine
    BY <1>7 DEF Legal
  <2>3. CASE tree[n].form = "block"
    BY <1>1, <1>2, <1>4, <1>5, <2>1, <2>2, <2>3, LabelsMean DEF Lacks
  <2>4. CASE tree[n].form # "block"
    <3>1. /\ n \in Nodes \ Blocks /\ ~Undeclared(tree, n) /\ ~Repeats(tree, n)
          /\ StatementJudged(tree, errors, n)
      BY <1>1, <1>2, <1>3, <2>1, <2>2, <2>4, LabelsMean
    <3>2. ~Faulty(errors, n)
      BY <1>1, <2>1, <2>2, <3>1, AccessesMean DEF StatementJudged
    <3>3. ~Reported(errors, "UNDEFINED_LABEL", n)
      <4>1. tree[n].form = "goto" => Targets(tree, n) # {}
        BY <1>2, <2>1, <2>2 DEF Gotos, Is, LegalGoto, Targets
      <4>2. QED BY <3>1, <4>1 DEF StatementJudged
    <3>4. n \notin With("DISALLOWED_GOTO_TARGET")
      BY <1>1, <2>2 DEF GotosAreExact
    <3>5. n \notin With("THREATENED_CONTROL_VARIABLE")
      <4>1. NeedsInput = {} \/ tree[1].input
        BY <2>2
      <4>2. n \in With("THREATENED_CONTROL_VARIABLE") =>
               \E f \in Fors : ThreatenedFrom(f) # {} \/ n \in ThreatenedInside(f)
        BY <1>1, <2>2, <4>1 DEF ThreatsAreExact
      <4>3. QED BY <2>2, <4>2
    <3>6. QED BY <3>2, <3>3, <3>4, <3>5 DEF Faulty, Reported, With, Elsewhere, Threat
  <2>5. QED BY <2>3, <2>4
<1>8. QED BY <1>6, <1>7

(* A program is accepted, in every vocabulary, exactly if it obeys the     *)
(* rules about labels, goto statements, names, control variables and       *)
(* function results: what StatementBuilder and buildBlock() keep in one    *)
(* pass misses no violation and reports no statement that obeys them.      *)
THEOREM StatementAcceptance == Spec => []AcceptedIffLegal
<1>1. Right /\ Labelling /\ Threatening /\ Judging => AcceptedIffLegal
  BY AcceptedMeans
<1>2. QED BY <1>1, JudgingAlways, PTL
=============================================================================
