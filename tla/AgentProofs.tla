------------------------------ MODULE AgentProofs ------------------------------
(***************************************************************************)
(* Proofs about AgentConfig, for all machines, catalogs, lists of          *)
(* references, commands and edits.                                         *)
(***************************************************************************)
EXTENDS AgentConfig, FiniteSetTheorems, SequenceTheorems, WellFoundedInduction, TLAPS

-----------------------------------------------------------------------------
(* Positions in a sequence *)

LEMMA LeastOf ==
  ASSUME NEW I, I \subseteq Nat, I # {}
  PROVE  Min(I) \in I /\ \A k \in I : Min(I) <= k
<1>1. PICK m \in I : \A k \in I : ~ (<<k, m>> \in OpToRel(<, Nat))
  BY NatLessThanWellFounded, WFMin
<1>2. \A k \in I : ~ (k < m)
  BY <1>1 DEF OpToRel
<1>3. \A k \in I : m <= k
  BY <1>2
<1>. QED BY <1>3 DEF Min

(* What induction over Nat says of a set of numbers.                       *)
LEMMA Induction ==
  ASSUME NEW S, 0 \in S, \A n \in Nat : n \in S => n + 1 \in S
  PROVE  \A n \in Nat : n \in S
<1>. SUFFICES ASSUME Nat \ S # {} PROVE FALSE
  OBVIOUS
<1>1. /\ Min(Nat \ S) \in Nat \ S
      /\ \A k \in Nat \ S : Min(Nat \ S) <= k
  BY LeastOf
<1>2. PICK m \in Nat \ S : \A k \in Nat \ S : m <= k
  BY <1>1
<1>3. m - 1 \in Nat /\ m - 1 < m
  BY <1>2
<1>4. m - 1 \in S
  BY <1>2, <1>3
<1>. QED BY <1>2, <1>3, <1>4

-----------------------------------------------------------------------------
(* Folds over sequences: for a step g on the values V, what FoldLeft       *)
(* computes is a function on the sets of positions.                        *)

FoldOf(it, base, g, s, N) ==
  it = [t \in SUBSET (1..N) |-> IF t = {} THEN base ELSE g[<<it[t \ {Max(t)}], s[Max(t)]>>]]

LEMMA GreatestOf ==
  ASSUME NEW n \in Nat, NEW t \in SUBSET (1..n), t # {}
  PROVE  Max(t) \in t /\ \A k \in t : Max(t) >= k
<1>1. PICK I : I = {n - i : i \in t}
  OBVIOUS
<1>2. I \subseteq Nat /\ I # {}
  <2>1. \A i \in t : n - i \in Nat
    OBVIOUS
  <2>2. PICK i : i \in t
    OBVIOUS
  <2>3. n - i \in I
    BY <1>1, <2>2
  <2>. QED BY <1>1, <2>1, <2>3
<1>3. PICK m \in t : Min(I) = n - m
  BY <1>1, <1>2, LeastOf
<1>4. \A k \in t : m >= k
  <2>. SUFFICES ASSUME NEW k \in t PROVE m >= k
    OBVIOUS
  <2>1. n - k \in I
    BY <1>1
  <2>2. Min(I) <= n - k
    BY <1>2, <2>1, LeastOf
  <2>. QED BY <1>3, <2>2
<1>. QED BY <1>4 DEF Max

LEMMA FoldExists ==
  ASSUME NEW V, NEW R, NEW base \in V, NEW g \in [V \X R -> V],
         NEW N \in Nat, NEW s \in [1..N -> R]
  PROVE  \E it \in [SUBSET (1..N) -> V] : FoldOf(it, base, g, s, N)
<1>. DEFINE P(n) == n <= N => \E it \in [SUBSET (1..n) -> V] : FoldOf(it, base, g, s, n)
<1>1. P(0)
  <2>1. PICK it : it = [t \in SUBSET (1..0) |-> base]
    OBVIOUS
  <2>2. it \in [SUBSET (1..0) -> V] /\ \A t \in SUBSET (1..0) : t = {}
    BY <2>1
  <2>3. FoldOf(it, base, g, s, 0)
    BY <2>1, <2>2 DEF FoldOf
  <2>. QED BY <2>2, <2>3
<1>2. ASSUME NEW n \in Nat, P(n)
      PROVE  P(n + 1)
  <2>. SUFFICES ASSUME n + 1 <= N
                PROVE  \E it \in [SUBSET (1..(n + 1)) -> V] : FoldOf(it, base, g, s, n + 1)
    OBVIOUS
  <2>1. PICK f \in [SUBSET (1..n) -> V] : FoldOf(f, base, g, s, n)
    <3>1. n <= N
      OBVIOUS
    <3>. QED BY <1>2, <3>1
  <2>2. s[n + 1] \in R
    OBVIOUS
  <2>3. \A t \in SUBSET (1..(n + 1)) : t \ {n + 1} \in SUBSET (1..n)
    OBVIOUS
  <2>4. PICK it : it = [t \in SUBSET (1..(n + 1)) |->
                          IF n + 1 \in t THEN g[<<f[t \ {n + 1}], s[n + 1]>>] ELSE f[t \ {n + 1}]]
    OBVIOUS
  <2>5. it \in [SUBSET (1..(n + 1)) -> V]
    BY <2>2, <2>3, <2>4
  <2>6. \A t \in SUBSET (1..n) : it[t] = f[t]
    <3>. SUFFICES ASSUME NEW t \in SUBSET (1..n) PROVE it[t] = f[t]
      OBVIOUS
    <3>1. n + 1 \notin t /\ t \in SUBSET (1..(n + 1)) /\ t \ {n + 1} = t
      OBVIOUS
    <3>. QED BY <2>4, <3>1
  <2>7. ASSUME NEW t \in SUBSET (1..(n + 1))
        PROVE  it[t] = IF t = {} THEN base ELSE g[<<it[t \ {Max(t)}], s[Max(t)]>>]
    <3>1. CASE t = {}
      <4>1. f[{}] = base
        BY <2>1 DEF FoldOf
      <4>. QED BY <2>6, <3>1, <4>1
    <3>2. CASE n + 1 \in t
      <4>1. n + 1 \in Nat /\ t # {}
        BY <3>2
      <4>2. PICK m : m = Max(t)
        OBVIOUS
      <4>3. m \in t /\ \A k \in t : m >= k
        BY <4>1, <4>2, GreatestOf
      <4>4. m \in 1..(n + 1) /\ m >= n + 1
        BY <3>2, <4>3
      <4>5. Max(t) = n + 1
        BY <4>2, <4>4
      <4>6. it[t \ {n + 1}] = f[t \ {n + 1}]
        BY <2>3, <2>6
      <4>. QED BY <2>4, <3>2, <4>5, <4>6
    <3>3. CASE t # {} /\ n + 1 \notin t
      <4>1. t \in SUBSET (1..n)
        BY <3>3
      <4>2. f[t] = g[<<f[t \ {Max(t)}], s[Max(t)]>>]
        BY <2>1, <3>3, <4>1 DEF FoldOf
      <4>3. t \ {Max(t)} \in SUBSET (1..n)
        BY <4>1
      <4>. QED BY <2>6, <3>3, <4>1, <4>2, <4>3
    <3>. QED BY <3>1, <3>2, <3>3
  <2>8. FoldOf(it, base, g, s, n + 1)
    BY <2>4, <2>7 DEF FoldOf
  <2>. QED BY <2>5, <2>8
<1>3. PICK S : S = {n \in Nat : P(n)}
  OBVIOUS
<1>4. \A n \in Nat : n \in S
  <2>. HIDE DEF P
  <2>1. 0 \in S
    BY <1>1, <1>3
  <2>2. \A n \in Nat : n \in S => n + 1 \in S
    BY <1>2, <1>3
  <2>. QED BY <2>1, <2>2, Induction
<1>5. P(N)
  <2>. HIDE DEF P
  <2>. QED BY <1>3, <1>4
<1>6. N <= N
  OBVIOUS
<1>. QED BY <1>5, <1>6, Zenon

(* The sets of positions a walk along the sequence goes through.           *)
LEMMA PrefixIs ==
  ASSUME NEW N \in Nat
  PROVE  /\ 1..0 = {} /\ 1..0 \in SUBSET (1..N)
         /\ \A n \in 1..N : /\ 1..n \in SUBSET (1..N) /\ 1..n # {}
                            /\ Max(1..n) = n /\ (1..n) \ {n} = 1..(n - 1)
<1>1. ASSUME NEW n \in 1..N
      PROVE  /\ 1..n \in SUBSET (1..N) /\ 1..n # {}
             /\ Max(1..n) = n /\ (1..n) \ {n} = 1..(n - 1)
  <2>1. PICK t : t = 1..n
    OBVIOUS
  <2>2. t \in SUBSET (1..N) /\ t # {} /\ n \in t /\ n \in Nat /\ t \in SUBSET (1..n)
    BY <2>1
  <2>3. PICK m : m = Max(t)
    OBVIOUS
  <2>4. m \in t /\ \A k \in t : m >= k
    BY <2>2, <2>3, GreatestOf
  <2>5. m = n
    BY <2>1, <2>2, <2>4
  <2>6. t \ {n} = 1..(n - 1)
    BY <2>1
  <2>. QED BY <2>1, <2>2, <2>3, <2>5, <2>6
<1>. QED BY <1>1

LEMMA Appended ==
  ASSUME NEW S, NEW q \in Seq(S), NEW x \in S
  PROVE  Append(q, x) \in Seq(S) /\ ToSet(Append(q, x)) = ToSet(q) \cup {x}
<1>1. PICK a : a = Append(q, x)
  OBVIOUS
<1>2. /\ a \in Seq(S) /\ Len(a) = Len(q) + 1 /\ a[Len(q) + 1] = x /\ Len(q) \in Nat
      /\ \A i \in 1..Len(q) : a[i] = q[i]
      /\ DOMAIN a = 1..(Len(q) + 1) /\ DOMAIN q = 1..Len(q)
  BY <1>1
<1>3. \A y : y \in ToSet(a) <=> \E i \in 1..(Len(q) + 1) : a[i] = y
  BY <1>2 DEF ToSet
<1>4. \A y : y \in ToSet(q) <=> \E i \in 1..Len(q) : q[i] = y
  BY <1>2 DEF ToSet
<1>5. \A i \in 1..(Len(q) + 1) : i \in 1..Len(q) \/ i = Len(q) + 1
  BY <1>2
<1>6. \A i \in 1..Len(q) : i \in 1..(Len(q) + 1)
  BY <1>2
<1>7. Len(q) + 1 \in 1..(Len(q) + 1)
  BY <1>2
<1>8. \A y : y \in ToSet(a) <=> y \in ToSet(q) \/ y = x
  BY <1>2, <1>3, <1>4, <1>5, <1>6, <1>7
<1>9. ToSet(a) = ToSet(q) \cup {x}
  BY <1>8
<1>. QED BY <1>1, <1>2, <1>9

LEMMA ToSetIs ==
  ASSUME NEW S, NEW q \in Seq(S)
  PROVE  /\ ToSet(q) = {q[i] : i \in 1..Len(q)} /\ ToSet(q) \subseteq S
         /\ q \in [1..Len(q) -> ToSet(q)] /\ q \in Seq(ToSet(q)) /\ Len(q) \in Nat
<1>1. DOMAIN q = 1..Len(q) /\ Len(q) \in Nat /\ \A i \in 1..Len(q) : q[i] \in S
  OBVIOUS
<1>2. ToSet(q) = {q[i] : i \in 1..Len(q)} /\ ToSet(q) \subseteq S
  BY <1>1 DEF ToSet
<1>3. \A i \in 1..Len(q) : q[i] \in ToSet(q)
  BY <1>2
<1>4. PICK T : T = ToSet(q)
  OBVIOUS
<1>5. q \in [1..Len(q) -> T] /\ q \in Seq(T)
  BY <1>1, <1>3, <1>4
<1>. QED BY <1>1, <1>2, <1>4, <1>5, Zenon

LEMMA AmongIs ==
  ASSUME NEW S, NEW s \in Seq(S), NEW T
  PROVE  Among(s, T) \in Seq(S \cap T) /\ ToSet(Among(s, T)) = ToSet(s) \cap T
<1>1. PICK N \in Nat : N = Len(s) /\ DOMAIN s = 1..N /\ s \in [1..N -> S]
  OBVIOUS
<1>2. PICK g : g = [vx \in Seq(S) \X S |-> IF vx[2] \in T THEN Append(vx[1], vx[2]) ELSE vx[1]]
  OBVIOUS
<1>3. /\ g \in [Seq(S) \X S -> Seq(S)] /\ <<>> \in Seq(S)
      /\ \A v \in Seq(S), x \in S : g[<<v, x>>] = IF x \in T THEN Append(v, x) ELSE v
  BY <1>2
<1>4. PICK f \in [SUBSET (1..N) -> Seq(S)] : FoldOf(f, <<>>, g, s, N)
  BY <1>1, <1>3, FoldExists
<1>5. f = [t \in SUBSET DOMAIN s |->
             IF t = {} THEN <<>>
             ELSE IF s[Max(t)] \in T THEN Append(f[t \ {Max(t)}], s[Max(t)]) ELSE f[t \ {Max(t)}]]
  <2>1. ASSUME NEW t \in SUBSET (1..N), t # {}
        PROVE  f[t] = IF s[Max(t)] \in T THEN Append(f[t \ {Max(t)}], s[Max(t)]) ELSE f[t \ {Max(t)}]
    <3>1. PICK m : m = Max(t)
      OBVIOUS
    <3>2. m \in 1..N /\ t \ {m} \in SUBSET (1..N)
      BY <2>1, <3>1, GreatestOf
    <3>3. s[m] \in S /\ f[t \ {m}] \in Seq(S)
      BY <1>1, <3>2
    <3>4. f[t] = g[<<f[t \ {m}], s[m]>>]
      BY <1>4, <2>1, <3>1 DEF FoldOf
    <3>. QED BY <1>3, <3>1, <3>3, <3>4
  <2>2. f[{}] = <<>>
    BY <1>4 DEF FoldOf
  <2>. QED BY <1>1, <2>1, <2>2
<1>6. PICK it : /\ it = [t \in SUBSET DOMAIN s |->
                           IF t = {} THEN <<>>
                           ELSE IF s[Max(t)] \in T THEN Append(it[t \ {Max(t)}], s[Max(t)])
                                ELSE it[t \ {Max(t)}]]
                /\ Among(s, T) = it[DOMAIN s]
  BY <1>5 DEF Among, FoldLeft, MapThenFoldSet
<1>7. /\ it[1..0] = <<>>
      /\ \A n \in 1..N : it[1..n] = IF s[n] \in T THEN Append(it[1..(n - 1)], s[n]) ELSE it[1..(n - 1)]
  <2>1. /\ it[{}] = <<>>
        /\ \A t \in SUBSET (1..N) :
             t # {} => it[t] = IF s[Max(t)] \in T THEN Append(it[t \ {Max(t)}], s[Max(t)])
                               ELSE it[t \ {Max(t)}]
    BY <1>1, <1>6
  <2>2. 1..0 = {}
    BY PrefixIs
  <2>3. ASSUME NEW n \in 1..N
        PROVE  it[1..n] = IF s[n] \in T THEN Append(it[1..(n - 1)], s[n]) ELSE it[1..(n - 1)]
    <3>1. PICK t, r : t = 1..n /\ r = 1..(n - 1)
      OBVIOUS
    <3>2. t \in SUBSET (1..N) /\ t # {} /\ Max(t) = n /\ t \ {n} = r
      BY <3>1, PrefixIs
    <3>3. it[t] = IF s[n] \in T THEN Append(it[r], s[n]) ELSE it[r]
      BY <2>1, <3>2
    <3>. QED BY <3>1, <3>3
  <2>. QED BY <2>1, <2>2, <2>3
<1>8. PICK I : I = {n \in Nat : n <= N => /\ it[1..n] \in Seq(S \cap T)
                                          /\ ToSet(it[1..n]) = {s[i] : i \in 1..n} \cap T}
  OBVIOUS
<1>9. 0 \in I
  <2>1. {s[i] : i \in 1..0} \cap T = {} /\ ToSet(<<>>) = {} /\ <<>> \in Seq(S \cap T)
    BY DEF ToSet
  <2>. QED BY <1>7, <1>8, <2>1
<1>10. ASSUME NEW n \in Nat, n \in I
       PROVE  n + 1 \in I
  <2>. SUFFICES ASSUME n + 1 <= N
                PROVE  /\ it[1..(n + 1)] \in Seq(S \cap T)
                       /\ ToSet(it[1..(n + 1)]) = {s[i] : i \in 1..(n + 1)} \cap T
    BY <1>8
  <2>1. /\ it[1..n] \in Seq(S \cap T)
        /\ ToSet(it[1..n]) = {s[i] : i \in 1..n} \cap T
    BY <1>8, <1>10
  <2>2. n + 1 \in 1..N /\ (n + 1) - 1 = n
    OBVIOUS
  <2>3. PICK x : x = s[n + 1]
    OBVIOUS
  <2>4. it[1..(n + 1)] = IF x \in T THEN Append(it[1..n], x) ELSE it[1..n]
    BY <1>7, <2>2, <2>3
  <2>5. x \in S
    BY <1>1, <2>2, <2>3
  <2>6. {s[i] : i \in 1..(n + 1)} = {s[i] : i \in 1..n} \cup {x}
    BY <2>3
  <2>7. CASE x \in T
    <3>1. x \in S \cap T
      BY <2>5, <2>7
    <3>2. PICK q, r : q = it[1..n] /\ r = it[1..(n + 1)]
      OBVIOUS
    <3>3. q \in Seq(S \cap T) /\ r = Append(q, x)
      BY <2>1, <2>4, <2>7, <3>2
    <3>4. r \in Seq(S \cap T) /\ ToSet(r) = ToSet(q) \cup {x}
      BY <3>1, <3>3, Appended
    <3>5. ToSet(r) = ({s[i] : i \in 1..n} \cap T) \cup {x}
      BY <2>1, <3>2, <3>4
    <3>. QED BY <2>6, <2>7, <3>2, <3>4, <3>5
  <2>8. CASE x \notin T
    BY <2>1, <2>4, <2>6, <2>8
  <2>. QED BY <2>7, <2>8
<1>11. N \in I
  BY <1>9, <1>10, Induction
<1>12. N <= N /\ ToSet(s) = {s[i] : i \in 1..N}
  BY <1>1, ToSetIs
<1>. QED BY <1>1, <1>6, <1>8, <1>11, <1>12

-----------------------------------------------------------------------------
(* What a command chooses *)

LEMMA EachOnceIs ==
  ASSUME NEW S, NEW s \in Seq(S)
  PROVE  EachOnce(s) \in Seq(S)
<1>1. PICK N \in Nat : N = Len(s) /\ DOMAIN s = 1..N /\ s \in [1..N -> S]
  OBVIOUS
<1>2. PICK g : g = [vx \in Seq(S) \X S |-> IF vx[2] \in ToSet(vx[1]) THEN vx[1] ELSE Append(vx[1], vx[2])]
  OBVIOUS
<1>3. /\ g \in [Seq(S) \X S -> Seq(S)] /\ <<>> \in Seq(S)
      /\ \A v \in Seq(S), x \in S : g[<<v, x>>] = IF x \in ToSet(v) THEN v ELSE Append(v, x)
  BY <1>2
<1>4. PICK f \in [SUBSET (1..N) -> Seq(S)] : FoldOf(f, <<>>, g, s, N)
  BY <1>1, <1>3, FoldExists
<1>5. f = [t \in SUBSET DOMAIN s |->
             IF t = {} THEN <<>>
             ELSE IF s[Max(t)] \in ToSet(f[t \ {Max(t)}]) THEN f[t \ {Max(t)}]
                  ELSE Append(f[t \ {Max(t)}], s[Max(t)])]
  <2>1. ASSUME NEW t \in SUBSET (1..N), t # {}
        PROVE  f[t] = IF s[Max(t)] \in ToSet(f[t \ {Max(t)}]) THEN f[t \ {Max(t)}]
                      ELSE Append(f[t \ {Max(t)}], s[Max(t)])
    <3>1. PICK m : m = Max(t)
      OBVIOUS
    <3>2. m \in 1..N /\ t \ {m} \in SUBSET (1..N)
      BY <2>1, <3>1, GreatestOf
    <3>3. s[m] \in S /\ f[t \ {m}] \in Seq(S)
      BY <1>1, <3>2
    <3>4. f[t] = g[<<f[t \ {m}], s[m]>>]
      BY <1>4, <2>1, <3>1 DEF FoldOf
    <3>. QED BY <1>3, <3>1, <3>3, <3>4
  <2>2. f[{}] = <<>>
    BY <1>4 DEF FoldOf
  <2>. QED BY <1>1, <2>1, <2>2
<1>6. PICK it : /\ it = [t \in SUBSET DOMAIN s |->
                           IF t = {} THEN <<>>
                           ELSE IF s[Max(t)] \in ToSet(it[t \ {Max(t)}]) THEN it[t \ {Max(t)}]
                                ELSE Append(it[t \ {Max(t)}], s[Max(t)])]
                /\ EachOnce(s) = it[DOMAIN s]
  BY <1>5 DEF EachOnce, FoldLeft, MapThenFoldSet
<1>7. /\ it[{}] = <<>>
      /\ \A t \in SUBSET (1..N) :
           t # {} => it[t] = IF s[Max(t)] \in ToSet(it[t \ {Max(t)}]) THEN it[t \ {Max(t)}]
                             ELSE Append(it[t \ {Max(t)}], s[Max(t)])
  BY <1>1, <1>6
<1>8. PICK I : I = {n \in Nat : n <= N => it[1..n] \in Seq(S)}
  OBVIOUS
<1>9. 0 \in I
  <2>1. 1..0 = {} /\ <<>> \in Seq(S)
    BY PrefixIs
  <2>. QED BY <1>7, <1>8, <2>1
<1>10. ASSUME NEW n \in Nat, n \in I
       PROVE  n + 1 \in I
  <2>. SUFFICES ASSUME n + 1 <= N PROVE it[1..(n + 1)] \in Seq(S)
    BY <1>8
  <2>1. PICK k, t, u : k = n + 1 /\ t = 1..n /\ u = 1..(n + 1)
    OBVIOUS
  <2>2. k \in 1..N /\ k - 1 = n
    BY <2>1
  <2>3. u \in SUBSET (1..N) /\ u # {} /\ Max(u) = k /\ u \ {k} = t
    BY <2>1, <2>2, PrefixIs
  <2>4. it[u] = IF s[k] \in ToSet(it[t]) THEN it[t] ELSE Append(it[t], s[k])
    BY <1>7, <2>3
  <2>5. s[k] \in S /\ it[t] \in Seq(S)
    BY <1>1, <1>8, <1>10, <2>1, <2>2
  <2>. QED BY <2>1, <2>4, <2>5
<1>11. N \in I
  BY <1>9, <1>10, Induction
<1>. QED BY <1>1, <1>6, <1>8, <1>11

-----------------------------------------------------------------------------
(* What a command chooses *)

(* What a list of references selects can be used.                          *)
LEMMA ResolvedIs ==
  ASSUME NEW models, NEW R, NEW references \in Seq(R)
  PROVE  resolveModels(models, references) \in Seq({e \in models : Usable(e)})
<1>. DEFINE S == {e \in models : Usable(e)}
<1>1. CASE \E r \in ToSet(references) : RequireReferenced(models, r) = {}
  <2>1. resolveModels(models, references) = <<>>
    BY <1>1 DEF resolveModels
  <2>. QED BY <2>1
<1>2. CASE \A r \in ToSet(references) : RequireReferenced(models, r) # {}
  <2>1. PICK m : m = [n \in DOMAIN references |->
                        CHOOSE e \in RequireReferenced(models, references[n]) : TRUE]
    OBVIOUS
  <2>2. PICK N \in Nat : DOMAIN references = 1..N
    OBVIOUS
  <2>3. ASSUME NEW n \in 1..N
        PROVE  (CHOOSE e \in RequireReferenced(models, references[n]) : TRUE) \in S
    <3>1. PICK r \in ToSet(references) : r = references[n]
      BY <2>2 DEF ToSet
    <3>2. PICK e : e = CHOOSE x \in RequireReferenced(models, r) : TRUE
      OBVIOUS
    <3>3. e \in RequireReferenced(models, r)
      BY <1>2, <3>2
    <3>4. e \in S
      BY <3>3 DEF RequireReferenced, Named
    <3>. QED BY <3>1, <3>2, <3>4
  <2>5. m \in Seq(S)
    <3>. HIDE DEF S
    <3>1. m \in [1..N -> S]
      BY <2>1, <2>2, <2>3, Zenon
    <3>. QED BY <3>1
  <2>6. resolveModels(models, references) = EachOnce(m)
    BY <1>2, <2>1, Zenon DEF resolveModels
  <2>. QED BY <2>5, <2>6, EachOnceIs
<1>. QED BY <1>1, <1>2

(* Where an id names one entry, what is kept of a binding are the usable   *)
(* models with one of its ids.                                             *)
LEMMA KeptIs ==
  ASSUME NEW models, NEW R, NEW ids \in Seq(R), NEW U, U = {e \in models : Usable(e)},
         \A e, f \in models : e.id = f.id => e = f
  PROVE  /\ Kept(models, ids) \in Seq(U)
         /\ \A e : e \in ToSet(Kept(models, ids)) <=> e \in U /\ e.id \in ToSet(ids)
<1>. DEFINE S == {e \in models : Usable(e)}
            T == {e.id : e \in {x \in models : Usable(x)}}
            Found(there) == [n \in DOMAIN there |-> CHOOSE e \in models : e.id = there[n]]
<1>1. Kept(models, ids) = Found(Among(ids, T))
  BY DEF Kept
<1>. HIDE DEF S, T, Found
<1>2. PICK there : there = Among(ids, T)
  OBVIOUS
<1>3. PICK k : k = Found(there)
  OBVIOUS
<1>4. there \in Seq(T) /\ ToSet(there) = ToSet(ids) \cap T
  <2>1. there \in Seq(R \cap T) /\ ToSet(there) = ToSet(ids) \cap T
    BY <1>2, AmongIs
  <2>. QED BY <2>1
<1>5. PICK N \in Nat : DOMAIN there = 1..N /\ N = Len(there)
  BY <1>4
<1>6. \A n \in 1..N : there[n] \in T
  BY <1>4, <1>5
<1>7. ASSUME NEW n \in 1..N
      PROVE  /\ (CHOOSE e \in models : e.id = there[n]) \in S
             /\ k[n] = (CHOOSE e \in models : e.id = there[n]) /\ k[n].id = there[n]
  <2>1. PICK e \in S : e.id = there[n]
    BY <1>6 DEF S, T
  <2>2. PICK f : f = CHOOSE x \in models : x.id = there[n]
    OBVIOUS
  <2>3. f \in models /\ f.id = there[n]
    BY <2>1, <2>2 DEF S
  <2>4. f = e
    BY <2>1, <2>3 DEF S
  <2>5. k[n] = f
    BY <1>3, <1>5, <2>2, Zenon DEF Found
  <2>. QED BY <2>1, <2>2, <2>4, <2>5
<1>8. k \in [1..N -> S]
  BY <1>3, <1>5, <1>7, Zenon DEF Found
<1>9. k \in Seq(S)
  BY <1>8
<1>10. ToSet(k) = {k[n] : n \in 1..N} /\ ToSet(there) = {there[n] : n \in 1..N}
  BY <1>5, <1>8 DEF ToSet
<1>11. \A e : e \in ToSet(k) <=> e \in S /\ e.id \in ToSet(ids)
  <2>1. \A n \in 1..N : k[n] \in S /\ k[n].id = there[n]
    BY <1>7, <1>8
  <2>2. ASSUME NEW e \in ToSet(k) PROVE e \in S /\ e.id \in ToSet(ids)
    <3>1. PICK n \in 1..N : k[n] = e
      BY <1>10
    <3>2. there[n] \in ToSet(ids)
      BY <1>4, <1>10
    <3>. QED BY <2>1, <3>1, <3>2
  <2>3. ASSUME NEW e \in S, e.id \in ToSet(ids) PROVE e \in ToSet(k)
    <3>1. e.id \in ToSet(there)
      BY <1>4, <2>3 DEF T, S
    <3>2. PICK n \in 1..N : there[n] = e.id
      BY <1>10, <3>1
    <3>3. k[n] = e
      BY <2>1, <3>2 DEF S
    <3>. QED BY <1>10, <3>3
  <2>. QED BY <2>2, <2>3
<1>12. S = U
  BY DEF S
<1>. QED BY <1>1, <1>2, <1>3, <1>9, <1>11, <1>12

LEMMA ImageIs ==
  ASSUME NEW S, NEW models \in Seq(S), NEW V, NEW q \in [DOMAIN models -> V]
  PROVE  /\ q \in Seq(ToSet(q))
         /\ ToSet(q) = {q[n] : n \in DOMAIN models} /\ ToSet(models) = {models[n] : n \in DOMAIN models}
         /\ models # <<>> => q # <<>>
<1>1. PICK N \in Nat : N = Len(models) /\ DOMAIN models = 1..N
  OBVIOUS
<1>2. DOMAIN q = 1..N
  BY <1>1
<1>3. ToSet(q) = {q[n] : n \in 1..N} /\ ToSet(models) = {models[n] : n \in 1..N}
  BY <1>1, <1>2 DEF ToSet
<1>4. PICK T : T = ToSet(q)
  OBVIOUS
<1>5. q \in [1..N -> T]
  BY <1>1, <1>3, <1>4
<1>6. q \in Seq(T) /\ Len(q) = N
  BY <1>5
<1>7. models # <<>> => N # 0
  BY <1>1
<1>8. q = <<>> => N = 0
  BY <1>6
<1>. QED BY <1>1, <1>3, <1>4, <1>6, <1>7, <1>8

LEMMA BothAre ==
  ASSUME NEW S, NEW a \in Seq(S), NEW b \in Seq(S)
  PROVE  /\ a \o b \in Seq(S) /\ ToSet(a \o b) = ToSet(a) \cup ToSet(b)
         /\ a # <<>> => a \o b # <<>>
<1>1. PICK c : c = a \o b
  OBVIOUS
<1>2. /\ c \in Seq(S) /\ Len(c) = Len(a) + Len(b) /\ Len(a) \in Nat /\ Len(b) \in Nat
      /\ \A i \in 1..Len(a) : c[i] = a[i]
      /\ \A i \in 1..Len(b) : c[Len(a) + i] = b[i]
      /\ \A i \in 1..Len(c) : c[i] = IF i <= Len(a) THEN a[i] ELSE b[i - Len(a)]
  BY <1>1
<1>3. /\ ToSet(a) = {a[i] : i \in 1..Len(a)} /\ ToSet(b) = {b[i] : i \in 1..Len(b)}
      /\ ToSet(c) = {c[i] : i \in 1..Len(c)}
  BY <1>2, ToSetIs
<1>4. ASSUME NEW x \in ToSet(a) PROVE x \in ToSet(c)
  <2>1. PICK i \in 1..Len(a) : a[i] = x
    BY <1>3
  <2>2. i \in 1..Len(c) /\ c[i] = x
    BY <1>2, <2>1
  <2>. QED BY <1>3, <2>2
<1>5. ASSUME NEW x \in ToSet(b) PROVE x \in ToSet(c)
  <2>1. PICK i \in 1..Len(b) : b[i] = x
    BY <1>3
  <2>2. Len(a) + i \in 1..Len(c) /\ c[Len(a) + i] = x
    BY <1>2, <2>1
  <2>. QED BY <1>3, <2>2
<1>6. ASSUME NEW x \in ToSet(c) PROVE x \in ToSet(a) \/ x \in ToSet(b)
  <2>1. PICK i \in 1..Len(c) : c[i] = x
    BY <1>3
  <2>2. CASE i <= Len(a)
    <3>1. i \in 1..Len(a) /\ a[i] = x
      BY <1>2, <2>1, <2>2
    <3>. QED BY <1>3, <3>1
  <2>3. CASE ~ (i <= Len(a))
    <3>1. i - Len(a) \in 1..Len(b) /\ b[i - Len(a)] = x
      BY <1>2, <2>1, <2>3
    <3>. QED BY <1>3, <3>1
  <2>. QED BY <2>2, <2>3
<1>7. a # <<>> => c # <<>>
  BY <1>2
<1>. QED BY <1>1, <1>2, <1>4, <1>5, <1>6, <1>7

(* A model of a catalog: its id names no other entry, it is the one entry  *)
(* of its row, and what it offers are endpoints with an address.           *)
LEMMA ModelIs ==
  ASSUME NEW w \in DOMAIN Catalogs, NEW e \in ModelsOf(w)
  PROVE  /\ e \in ToSet(Catalogs[w].entries)
         /\ e.of \in ToSet(Catalogs[w].rows) => EntriesOf(Catalogs[w], e.of) = {e}
         /\ e.offers \in Seq(ToSet(e.offers))
         /\ \A o \in ToSet(e.offers) : o.url # "none"
         /\ ModelOf(e.id, w) = e
<1>1. PICK wire, entries : wire = Catalogs[w] /\ entries = ToSet(wire.entries)
  OBVIOUS
<1>2. /\ wire.entries \in Seq(entries)
      /\ \A x, f \in entries : x.id = f.id => x = f
      /\ \A x \in entries : /\ x.offers \in Seq(ToSet(x.offers))
                            /\ \A o \in ToSet(x.offers) : o.url # "none"
  BY <1>1, CatalogsAssumption
<1>3. e \in entries /\ (e.of \in ToSet(wire.rows) => Cardinality(EntriesOf(wire, e.of)) = 1)
  BY <1>1 DEF ModelsOf, joinCatalog
<1>4. IsFiniteSet(entries)
  <2>1. entries = {wire.entries[i] : i \in 1..Len(wire.entries)}
    BY <1>1, <1>2, ToSetIs
  <2>2. \A x \in entries : \E n \in 1..Len(wire.entries) : wire.entries[n] = x
    BY <2>1
  <2>. QED BY <1>2, <2>2 DEF IsFiniteSet
<1>5. ASSUME e.of \in ToSet(wire.rows) PROVE EntriesOf(wire, e.of) = {e}
  <2>1. PICK E : E = EntriesOf(wire, e.of)
    OBVIOUS
  <2>2. e \in E /\ E \subseteq entries
    BY <1>1, <1>3, <2>1 DEF EntriesOf
  <2>3. IsFiniteSet(E) /\ Cardinality(E) = 1
    BY <1>3, <1>4, <1>5, <2>1, <2>2, FS_Subset
  <2>4. PICK x : E = {x}
    BY <2>3, FS_Singleton
  <2>. QED BY <2>1, <2>2, <2>4
<1>6. ModelOf(e.id, w) = e
  <2>1. PICK f : f = CHOOSE x \in ModelsOf(w) : x.id = e.id
    OBVIOUS
  <2>2. f \in ModelsOf(w) /\ f.id = e.id
    BY <2>1
  <2>3. f \in entries
    BY <1>1, <2>2 DEF ModelsOf, joinCatalog
  <2>4. f = e
    BY <1>2, <1>3, <2>2, <2>3
  <2>. QED BY <2>1, <2>4 DEF ModelOf
<1>. QED BY <1>1, <1>2, <1>3, <1>5, <1>6

LEMMA IdsName ==
  ASSUME NEW w \in DOMAIN Catalogs
  PROVE  \A e, f \in ModelsOf(w) : e.id = f.id => e = f
<1>1. \A e, f \in ToSet(Catalogs[w].entries) : e.id = f.id => e = f
  BY CatalogsAssumption
<1>2. ModelsOf(w) \subseteq ToSet(Catalogs[w].entries)
  BY DEF ModelsOf, joinCatalog
<1>. QED BY <1>1, <1>2

(* The endpoint of a list of models: a protocol the Agent speaks, which    *)
(* every one of them offers.                                               *)
LEMMA EndpointIs ==
  ASSUME NEW S, NEW models \in Seq(S), models # <<>>, NEW usable,
         Head(models).offers \in Seq(ToSet(Head(models).offers)),
         NEW o \in selectSharedProtocol(models, usable)
  PROVE  /\ o.protocol \in usable
         /\ \A e \in ToSet(models) : o \in ToSet(e.offers)
         /\ Head(models) \in ToSet(models)
<1>1. PICK first : first = Head(models)
  OBVIOUS
<1>2. PICK fits : fits = {n \in DOMAIN first.offers :
                            /\ first.offers[n].protocol \in usable
                            /\ \A e \in ToSet(models) : first.offers[n] \in ToSet(e.offers)}
  OBVIOUS
<1>3. fits # {} /\ o = first.offers[CHOOSE n \in fits : \A k \in fits : n <= k]
  BY <1>1, <1>2 DEF selectSharedProtocol, Endpoint
<1>4. fits \subseteq Nat
  <2>1. DOMAIN first.offers \subseteq Nat
    BY <1>1
  <2>. QED BY <1>2, <2>1
<1>5. \E n \in fits : \A k \in fits : n <= k
  BY <1>3, <1>4, LeastOf
<1>6. PICK n : n = CHOOSE m \in fits : \A k \in fits : m <= k
  OBVIOUS
<1>7. n \in fits /\ o = first.offers[n]
  BY <1>3, <1>5, <1>6
<1>8. Head(models) \in ToSet(models)
  BY DEF ToSet
<1>. QED BY <1>2, <1>7, <1>8

(* What a switch writes: usable models that offer the endpoint, with those *)
(* the credential covers and the catalog still serves there.               *)
LEMMA SwitchedIs ==
  ASSUME NEW w \in DOMAIN Catalogs, NEW R, NEW ids \in Seq(R), NEW o,
         NEW selected \in Seq({e \in ModelsOf(w) : Usable(e)}), selected # <<>>,
         \A e \in ToSet(selected) : o \in ToSet(e.offers)
  PROVE  LET models == modelsAfterSwitch(ModelsOf(w), ids, selected, o) IN
         /\ models \in Seq({e \in ModelsOf(w) : Usable(e)}) /\ models # <<>>
         /\ \A e \in ToSet(models) : o \in ToSet(e.offers)
         /\ \A e \in ModelsOf(w) : e.id \in ToSet(ids) /\ Usable(e) /\ o \in ToSet(e.offers)
                                     => \E f \in ToSet(models) : f.id = e.id
<1>. DEFINE U == {e \in ModelsOf(w) : Usable(e)}
<1>1. PICK others, left, kept, T, carried :
        /\ others = ToSet(ids) \ {e.id : e \in ToSet(selected)}
        /\ left = Among(ids, others)
        /\ kept = Kept(ModelsOf(w), left)
        /\ T = {e \in ModelsOf(w) : o \in ToSet(e.offers)}
        /\ carried = Among(kept, T)
  OBVIOUS
<1>2. modelsAfterSwitch(ModelsOf(w), ids, selected, o) = selected \o carried
  BY <1>1 DEF modelsAfterSwitch, Carried
<1>3. left \in Seq(R \cap others) /\ ToSet(left) = ToSet(ids) \cap others
  BY <1>1, AmongIs
<1>4. kept \in Seq(U) /\ \A e : e \in ToSet(kept) <=> e \in U /\ e.id \in ToSet(left)
  <2>1. \A e, f \in ModelsOf(w) : e.id = f.id => e = f
    BY IdsName
  <2>2. left \in Seq(R \cap others)
    BY <1>3
  <2>3. PICK V : V = U
    OBVIOUS
  <2>4. V = {e \in ModelsOf(w) : Usable(e)}
    BY <2>3
  <2>5. /\ Kept(ModelsOf(w), left) \in Seq(V)
        /\ \A e : e \in ToSet(Kept(ModelsOf(w), left)) <=> e \in V /\ e.id \in ToSet(left)
    BY <2>1, <2>2, <2>4, KeptIs
  <2>. QED BY <1>1, <2>3, <2>5
<1>5. carried \in Seq(U \cap T) /\ ToSet(carried) = ToSet(kept) \cap T
  <2>. HIDE DEF U
  <2>1. kept \in Seq(U) /\ carried = Among(kept, T)
    BY <1>1, <1>4
  <2>. QED BY <2>1, AmongIs
<1>6. carried \in Seq(U)
  BY <1>5
<1>7. PICK models : models = selected \o carried
  OBVIOUS
<1>8. models \in Seq(U) /\ models # <<>> /\ ToSet(models) = ToSet(selected) \cup ToSet(carried)
  <2>. HIDE DEF U
  <2>1. selected \in Seq(U)
    BY DEF U
  <2>. QED BY <1>6, <1>7, <2>1, BothAre
<1>9. \A e \in ToSet(models) : o \in ToSet(e.offers)
  BY <1>1, <1>5, <1>8
<1>10. ASSUME NEW e \in ModelsOf(w), e.id \in ToSet(ids), Usable(e), o \in ToSet(e.offers)
       PROVE  \E f \in ToSet(models) : f.id = e.id
  <2>1. CASE e.id \in {f.id : f \in ToSet(selected)}
    BY <1>8, <2>1
  <2>2. CASE e.id \in others
    <3>1. e \in ToSet(carried)
      BY <1>1, <1>3, <1>4, <1>5, <1>10, <2>2
    <3>. QED BY <1>8, <3>1
  <2>. QED BY <1>1, <1>10, <2>1, <2>2
<1>. QED BY <1>2, <1>7, <1>8, <1>9, <1>10

-----------------------------------------------------------------------------
(* Documents *)

IsDoc(d) == d = [k \in DOMAIN Blank |-> d[k]]
Plain(d) == d.shape \in {"absent", "readable"}
KnownAgent == agent \in DOMAIN SupportedProtocols

LEMMA BlankIs ==
  /\ IsDoc(Blank) /\ IsDoc(Absent)
  /\ Absent.shape = "absent" /\ Plain(Absent)
  /\ \A d : IsDoc(d) =>
       DOMAIN d = {"shape", "selector", "model", "url", "protocol", "credential", "models", "marker",
                   "helper", "token", "schema", "rest"}
BY DEF Blank, Absent, IsDoc, Plain

LEMMA DocIs ==
  ASSUME NEW d, NEW k, NEW v, NEW e, e = [d EXCEPT ![k] = v], DOMAIN e = DOMAIN Blank
  PROVE  IsDoc(e)
<1>1. DOMAIN d = DOMAIN Blank
  OBVIOUS
<1>2. e = [j \in DOMAIN Blank |-> IF j = k THEN v ELSE d[j]]
  BY <1>1
<1>. QED BY <1>2 DEF IsDoc

LEMMA AgentIs == KnownAgent <=> agent \in {"codex", "claude", "hermes", "opencode"}
BY DEF KnownAgent, SupportedProtocols

(* What a plan makes of a document can be read back and has the keys of    *)
(* the user as they were.                                                  *)
LEMMA EditedIs ==
  ASSUME KnownAgent, NEW d, NEW intent, IsDoc(d)
  PROVE  LET e == Edited(agent, d, intent) IN
         /\ IsDoc(e) /\ e.shape = "readable"
         /\ \A k \in UsersKeys : e[k] = d[k]
         /\ agent = "opencode" /\ d.shape = "absent" => e.schema = TRUE
<1>. DEFINE e == Edited(agent, d, intent)
<1>0. DOMAIN d = {"shape", "selector", "model", "url", "protocol", "credential", "models", "marker",
                  "helper", "token", "schema", "rest"}
  BY BlankIs
<1>1. CASE agent = "codex"
  <2>1. e = planCodexConfig(d, intent)
    BY <1>1 DEF Edited
  <2>2. IsDoc(e)
    <3>1. PICK g : e = [g EXCEPT !.selector = "ours"]
      BY <2>1 DEF planCodexConfig, setProviderTable
    <3>2. DOMAIN e = DOMAIN Blank
      BY <2>1, BlankIs DEF planCodexConfig, setProviderTable
    <3>. QED BY <3>1, <3>2, DocIs
  <2>3. \A k \in UsersKeys : e[k] = d[k]
    BY <1>0, <1>1, <2>1 DEF planCodexConfig, setProviderTable, UsersKeys
  <2>4. e.shape = "readable"
    BY <1>0, <2>1 DEF planCodexConfig, setProviderTable
  <2>. QED BY <1>1, <2>2, <2>3, <2>4
<1>2. CASE agent = "claude"
  <2>1. e = planClaudeCodeSettings(d, intent)
    BY <1>2 DEF Edited
  <2>2. IsDoc(e)
    <3>1. PICK g : e = [g EXCEPT !.helper = HelperAfter(d, intent)]
      BY <2>1 DEF planClaudeCodeSettings
    <3>2. DOMAIN e = DOMAIN Blank
      BY <2>1, BlankIs DEF planClaudeCodeSettings
    <3>. QED BY <3>1, <3>2, DocIs
  <2>3. \A k \in UsersKeys : e[k] = d[k]
    BY <1>0, <1>2, <2>1 DEF planClaudeCodeSettings, UsersKeys
  <2>4. e.shape = "readable"
    BY <1>0, <2>1 DEF planClaudeCodeSettings
  <2>. QED BY <1>2, <2>2, <2>3, <2>4
<1>3. CASE agent = "hermes"
  <2>1. e = planHermesConfig(d, intent)
    BY <1>3 DEF Edited
  <2>2. IsDoc(e)
    <3>1. PICK g : e = [g EXCEPT !.protocol = hermesApiMode(intent.endpoint.protocol)]
      BY <2>1 DEF planHermesConfig
    <3>2. DOMAIN e = DOMAIN Blank
      BY <2>1, BlankIs DEF planHermesConfig
    <3>. QED BY <3>1, <3>2, DocIs
  <2>3. \A k \in UsersKeys : e[k] = d[k]
    BY <1>0, <1>3, <2>1 DEF planHermesConfig, UsersKeys
  <2>4. e.shape = "readable"
    BY <1>0, <2>1 DEF planHermesConfig
  <2>. QED BY <1>3, <2>2, <2>3, <2>4
<1>4. CASE agent = "opencode"
  <2>1. e = planOpenCodeV2Config(d, intent)
    BY <1>4 DEF Edited
  <2>2. IsDoc(e)
    <3>1. PICK g, v : e = [g EXCEPT !.schema = v]
      BY <2>1 DEF planOpenCodeV2Config, createProvider
    <3>2. DOMAIN e = DOMAIN Blank
      BY <2>1, BlankIs DEF planOpenCodeV2Config, createProvider
    <3>. QED BY <3>1, <3>2, DocIs
  <2>3. \A k \in UsersKeys : e[k] = d[k]
    BY <1>0, <1>4, <2>1 DEF planOpenCodeV2Config, createProvider, UsersKeys
  <2>4. e.shape = "readable"
    BY <1>0, <2>1 DEF planOpenCodeV2Config, createProvider
  <2>5. d.shape = "absent" => e.schema = TRUE
    BY <1>0, <2>1 DEF planOpenCodeV2Config, createProvider
  <2>. QED BY <1>4, <2>2, <2>3, <2>4, <2>5
<1>. QED BY <1>1, <1>2, <1>3, <1>4, AgentIs

(* What it says of the provider, as each Agent is told.                    *)
LEMMA ProviderIs ==
  ASSUME KnownAgent, NEW d, NEW intent, IsDoc(d), NEW e, e = Edited(agent, d, intent)
  PROVE  /\ e.shape = "readable" /\ e.url = intent.endpoint.url /\ e.model = Default(intent)
         /\ agent # "claude" => e.selector = "ours" /\ e.credential = "ours"
         /\ agent = "codex" => e.protocol = "responses"
         /\ agent = "opencode" => e.protocol = intent.endpoint.protocol
         /\ agent = "hermes" => e.protocol = hermesApiMode(intent.endpoint.protocol)
         /\ agent = "claude" => /\ e.helper = HelperAfter(d, intent)
                               /\ e.marker = IF intent.helper THEN "managed-helper" ELSE "managed"
<1>0. DOMAIN d = {"shape", "selector", "model", "url", "protocol", "credential", "models", "marker",
                  "helper", "token", "schema", "rest"}
  BY BlankIs
<1>1. CASE agent = "codex"
  <2>1. e = planCodexConfig(d, intent)
    BY <1>1 DEF Edited
  <2>2. e.shape = "readable" /\ e.url = intent.endpoint.url /\ e.model = Default(intent)
    BY <1>0, <2>1 DEF planCodexConfig, setProviderTable
  <2>3. e.selector = "ours" /\ e.credential = "ours" /\ e.protocol = "responses"
    BY <1>0, <2>1 DEF planCodexConfig, setProviderTable
  <2>. QED BY <1>1, <2>2, <2>3
<1>2. CASE agent = "claude"
  <2>1. e = planClaudeCodeSettings(d, intent)
    BY <1>2 DEF Edited
  <2>2. e.shape = "readable" /\ e.url = intent.endpoint.url /\ e.model = Default(intent)
    BY <1>0, <2>1 DEF planClaudeCodeSettings
  <2>3. /\ e.helper = HelperAfter(d, intent)
        /\ e.marker = IF intent.helper THEN "managed-helper" ELSE "managed"
    BY <1>0, <2>1 DEF planClaudeCodeSettings
  <2>. QED BY <1>2, <2>2, <2>3
<1>3. CASE agent = "hermes"
  <2>1. e = planHermesConfig(d, intent)
    BY <1>3 DEF Edited
  <2>2. e.shape = "readable" /\ e.url = intent.endpoint.url /\ e.model = Default(intent)
    BY <1>0, <2>1 DEF planHermesConfig
  <2>3. e.selector = "ours" /\ e.credential = "ours" /\ e.protocol = hermesApiMode(intent.endpoint.protocol)
    BY <1>0, <2>1 DEF planHermesConfig
  <2>. QED BY <1>3, <2>2, <2>3
<1>4. CASE agent = "opencode"
  <2>1. e = planOpenCodeV2Config(d, intent)
    BY <1>4 DEF Edited
  <2>2. e.shape = "readable" /\ e.url = intent.endpoint.url /\ e.model = Default(intent)
    BY <1>0, <2>1 DEF planOpenCodeV2Config, createProvider
  <2>3. e.selector = "ours" /\ e.credential = "ours" /\ e.protocol = intent.endpoint.protocol
    BY <1>0, <2>1 DEF planOpenCodeV2Config, createProvider
  <2>. QED BY <1>4, <2>2, <2>3
<1>. QED BY <1>1, <1>2, <1>3, <1>4, AgentIs

LEMMA ModelsAreWritten ==
  ASSUME NEW d, NEW intent, IsDoc(d), agent = "opencode"
  PROVE  Edited(agent, d, intent).models = ToSet(intent.models)
<1>1. DOMAIN d = {"shape", "selector", "model", "url", "protocol", "credential", "models", "marker",
                  "helper", "token", "schema", "rest"}
  BY BlankIs
<1>2. Edited(agent, d, intent) = planOpenCodeV2Config(d, intent)
  BY DEF Edited
<1>. QED BY <1>1, <1>2 DEF planOpenCodeV2Config, createProvider

(* A plan is made of a document the integration can parse and edit, and    *)
(* for a protocol the Agent speaks.                                        *)
LEMMA RefusesUnsafe ==
  ASSUME KnownAgent, NEW status, NEW d, NEW intent, ~ Refuses(agent, status, d, intent)
  PROVE  Plain(d) /\ intent.endpoint.protocol \in SupportedProtocols[agent]
<1>1. intent.endpoint.protocol \in SupportedProtocols[agent]
  BY DEF Refuses
<1>2. CASE agent = "codex"
  BY <1>2 DEF Refuses, CodexRefuses, EditableLayout, parseCodexConfig, Plain
<1>3. CASE agent = "claude"
  BY <1>3 DEF Refuses, ClaudeRefuses, parseClaudeCodeSettings, Plain
<1>4. CASE agent = "hermes"
  BY <1>4 DEF Refuses, HermesRefuses, parseHermesConfig, Plain
<1>5. CASE agent = "opencode"
  BY <1>5 DEF Refuses, OpenCodeRefuses, parseOpenCodeConfig, Plain
<1>. QED BY <1>1, <1>2, <1>3, <1>4, <1>5, AgentIs

LEMMA DoctorPasses ==
  ASSUME KnownAgent, NEW d, NEW dotenv, agent # "opencode", Diagnose(agent, d, dotenv) = "pass"
  PROVE  LET sent == Sends(agent, d, dotenv) IN
         /\ sent.ours
         /\ agent # "codex" /\ d.marker # "managed-helper" => sent.credential = "ours"
<1>. DEFINE i == Inspect(agent, d, dotenv)
            sent == Sends(agent, d, dotenv)
<1>1. CASE agent = "codex"
  <2>1. i = inspectCodex(d) /\ CodexCheck(i) = "pass"
    BY <1>1 DEF Diagnose, Inspect
  <2>2. i.managed /\ ~ i.warned
    BY <2>1 DEF CodexCheck
  <2>3. d.shape # "absent" /\ parseCodexConfig(d) /\ d.url # "none"
    BY <2>1, <2>2 DEF inspectCodex, NotConfigured, Invalid
  <2>5. i.warned = (d.selector # "ours" \/ d.protocol \notin {"none", "responses"})
    BY <2>1, <2>3 DEF inspectCodex
  <2>4. d.selector = "ours"
    BY <2>2, <2>5
  <2>. QED BY <1>1, <2>3, <2>4 DEF Sends
<1>2. CASE agent = "claude"
  <2>1. i = inspectClaudeCode(d) /\ ClaudeCheck(i) = "pass"
    BY <1>2 DEF Diagnose, Inspect
  <2>2. i.managed /\ ~ i.warned
    BY <2>1 DEF ClaudeCheck
  <2>3. /\ d.url # "none" /\ ~ d.token
        /\ d.marker # "managed-helper" => d.helper = "none"
    BY <2>1, <2>2 DEF inspectClaudeCode, NotConfigured, Invalid
  <2>. QED BY <1>2, <2>3 DEF Sends
<1>3. CASE agent = "hermes"
  <2>1. i = inspectHermes(d, dotenv) /\ HermesCheck(i) = "pass"
    BY <1>3 DEF Diagnose, Inspect
  <2>2. i.managed /\ ~ i.warned
    BY <2>1 DEF HermesCheck
  <2>3. d.shape # "absent" /\ parseHermesConfig(d) /\ d.url # "none"
    BY <2>1, <2>2 DEF inspectHermes, NotConfigured, Invalid
  <2>5. i.warned = (d.credential # "ours" \/ dotenv \/ d.selector # "ours")
    BY <2>1, <2>3 DEF inspectHermes
  <2>4. d.credential = "ours" /\ ~ dotenv /\ d.selector = "ours"
    BY <2>2, <2>5
  <2>. QED BY <1>3, <2>3, <2>4 DEF Sends
<1>. QED BY <1>1, <1>2, <1>3, AgentIs

-----------------------------------------------------------------------------
(* Places and installations *)

LEMMA SelectedIs ==
  ASSUME NEW S, NEW s \in Seq(S), NEW I, I \subseteq 1..Len(s), NEW n, n = IF I # {} THEN Min(I) ELSE 0
  PROVE  /\ n = 0 <=> I = {}
         /\ n # 0 => n \in I /\ n \in 1..Len(s) /\ s[n] \in S
<1>1. CASE I = {}
  BY <1>1
<1>2. CASE I # {}
  <2>1. I \subseteq Nat
    OBVIOUS
  <2>2. n \in I
    BY <1>2, <2>1, LeastOf
  <2>. QED BY <1>2, <2>2
<1>. QED BY <1>1, <1>2

LEMMA Joined ==
  ASSUME NEW a, NEW b, NEW c
  PROVE /\ <<a>> \o <<b>> = <<a, b>>
        /\ <<a, b>> \o <<c>> = <<a, b, c>>
<1>. DEFINE S == {a, b, c}
<1>0. /\ <<a>> \in Seq(S) /\ <<b>> \in Seq(S) /\ <<c>> \in Seq(S)
      /\ <<a, b>> \in Seq(S) /\ <<a, b, c>> \in Seq(S)
  OBVIOUS
<1>1. <<a>> \o <<b>> = <<a, b>>
  <2>1. PICK s : s = <<a>> \o <<b>>
    OBVIOUS
  <2>2. s \in Seq(S) /\ Len(s) = 2 /\ s[1] = a /\ s[2] = b
    BY <1>0, <2>1
  <2>3. s = <<a, b>>
    BY <2>2
  <2>. QED BY <2>1, <2>3
<1>2. <<a, b>> \o <<c>> = <<a, b, c>>
  <2>1. PICK s : s = <<a, b>> \o <<c>>
    OBVIOUS
  <2>2. s \in Seq(S) /\ Len(s) = 3 /\ s[1] = a /\ s[2] = b /\ s[3] = c
    BY <1>0, <2>1
  <2>3. s = <<a, b, c>>
    BY <2>2
  <2>. QED BY <2>1, <2>3
<1>. QED BY <1>1, <1>2

LEMMA CandidatesAre ==
  ASSUME KnownAgent, NEW config
  PROVE  LET c == Candidates(agent, world, config) IN
         /\ c \in Seq(Places)
         /\ \E n \in 1..Len(c) : c[n] # "project"
         /\ \A n \in 1..Len(c) :
              \/ c[n] \in ReadBy(agent, LaunchEnvironment(agent, world, config))
              \/ config = "none" /\ world.var /\ c[n] = "home" /\ agent \in {"codex", "opencode"}
<1>. SUFFICES ASSUME NEW c, c = Candidates(agent, world, config),
                     NEW r, r = ReadBy(agent, LaunchEnvironment(agent, world, config))
              PROVE  /\ c \in Seq(Places)
                     /\ \E n \in 1..Len(c) : c[n] # "project"
                     /\ \A n \in 1..Len(c) :
                          \/ c[n] \in r
                          \/ /\ config = "none" /\ world.var /\ c[n] = "home"
                             /\ agent \in {"codex", "opencode"}
  OBVIOUS
<1>1. CASE config # "none"
  <2>1. c = <<"explicit">>
    BY <1>1, AgentIs DEF Candidates, codexCandidates, claudeCandidates, hermesCandidates, openCodeCandidates
  <2>2. "explicit" \in r
    BY <1>1, AgentIs DEF ReadBy, LaunchEnvironment
  <2>. QED BY <2>1, <2>2 DEF Places
<1>2. CASE config = "none" /\ world.var
  <2>1. VarPlace(world) = <<"var">>
    BY <1>2 DEF VarPlace
  <2>2. r = IF agent = "claude" THEN {"home"} ELSE IF agent = "opencode" THEN {"project", "var"} ELSE {"var"}
    BY <1>2, AgentIs DEF ReadBy, LaunchEnvironment
  <2>3. CASE agent = "codex"
    <3>1. c = <<"var", "home">>
      BY <1>2, <2>1, <2>3, Joined DEF Candidates, codexCandidates
    <3>2. c \in Seq(Places) /\ Len(c) = 2 /\ c[1] = "var" /\ c[2] = "home"
      BY <3>1 DEF Places
    <3>3. \A n \in 1..Len(c) : n = 1 \/ n = 2
      BY <3>2
    <3>. QED BY <1>2, <2>2, <2>3, <3>2, <3>3
  <2>4. CASE agent = "claude"
    <3>1. c = <<"home">>
      BY <1>2, <2>4 DEF Candidates, claudeCandidates
    <3>2. c \in Seq(Places) /\ Len(c) = 1 /\ c[1] = "home"
      BY <3>1 DEF Places
    <3>3. \A n \in 1..Len(c) : n = 1
      BY <3>2
    <3>. QED BY <1>2, <2>2, <2>4, <3>2, <3>3
  <2>5. CASE agent = "hermes"
    <3>1. c = <<"var">>
      BY <1>2, <2>5 DEF Candidates, hermesCandidates
    <3>2. c \in Seq(Places) /\ Len(c) = 1 /\ c[1] = "var"
      BY <3>1 DEF Places
    <3>3. \A n \in 1..Len(c) : n = 1
      BY <3>2
    <3>. QED BY <1>2, <2>2, <2>5, <3>2, <3>3
  <2>6. CASE agent = "opencode"
    <3>1. c = <<"project", "var", "home">>
      BY <1>2, <2>1, <2>6, Joined DEF Candidates, openCodeCandidates
    <3>2. c \in Seq(Places) /\ Len(c) = 3 /\ c[1] = "project" /\ c[2] = "var" /\ c[3] = "home"
      BY <3>1 DEF Places
    <3>3. \A n \in 1..Len(c) : n = 1 \/ n = 2 \/ n = 3
      BY <3>2
    <3>. QED BY <1>2, <2>2, <2>6, <3>2, <3>3
  <2>. QED BY <2>3, <2>4, <2>5, <2>6, AgentIs
<1>3. CASE config = "none" /\ ~ world.var
  <2>1. VarPlace(world) = <<>>
    BY <1>3 DEF VarPlace
  <2>2. r = IF agent = "opencode" THEN {"project", "home"} ELSE {"home"}
    BY <1>3, AgentIs DEF ReadBy, LaunchEnvironment
  <2>3. CASE agent # "opencode"
    <3>1. c = <<"home">>
      BY <1>3, <2>1, <2>3, AgentIs, ConcatEmptySeq
         DEF Candidates, codexCandidates, claudeCandidates, hermesCandidates
    <3>. QED BY <2>2, <2>3, <3>1 DEF Places
  <2>4. CASE agent = "opencode"
    <3>1. c = <<"project", "home">>
      BY <1>3, <2>1, <2>4, Joined, ConcatEmptySeq DEF Candidates, openCodeCandidates
    <3>2. c \in Seq(Places) /\ Len(c) = 2 /\ c[1] = "project" /\ c[2] = "home"
      BY <3>1 DEF Places
    <3>3. \A n \in 1..Len(c) : n = 1 \/ n = 2
      BY <3>2
    <3>. QED BY <2>2, <2>4, <3>2, <3>3
  <2>. QED BY <2>3, <2>4
<1>. QED BY <1>1, <1>2, <1>3

(* The target of a command is one of the files the launched Agent reads,   *)
(* but for the case the invariant leaves out.                              *)
LEMMA TargetIs ==
  ASSUME KnownAgent, NEW config, NEW t, t = Target(agent, world, config, disk)
  PROVE  /\ t \in Places
         /\ \/ t \in ReadBy(agent, LaunchEnvironment(agent, world, config))
            \/ config = "none" /\ world.var /\ t = "home" /\ agent \in {"codex", "opencode"}
<1>1. PICK c : c = Candidates(agent, world, config)
  OBVIOUS
<1>2. /\ c \in Seq(Places)
      /\ \E n \in 1..Len(c) : c[n] # "project"
      /\ \A n \in 1..Len(c) :
           \/ c[n] \in ReadBy(agent, LaunchEnvironment(agent, world, config))
           \/ config = "none" /\ world.var /\ c[n] = "home" /\ agent \in {"codex", "opencode"}
  BY <1>1, CandidatesAre
<1>3. PICK n : n = Existing(disk, c)
  OBVIOUS
<1>4. PICK m : m = SelectInSeq(c, LAMBDA p : p # "project")
  OBVIOUS
<1>5. n # 0 => n \in 1..Len(c)
  <2>1. PICK I : I = {i \in 1..Len(c) : disk[c[i]].shape # "absent"}
    OBVIOUS
  <2>2. n = IF I # {} THEN Min(I) ELSE 0
    BY <1>3, <2>1 DEF Existing, SelectInSeq
  <2>3. I \subseteq 1..Len(c)
    BY <2>1
  <2>. QED BY <1>2, <2>2, <2>3, SelectedIs
<1>6. m \in 1..Len(c)
  <2>1. PICK I : I = {i \in 1..Len(c) : c[i] # "project"}
    OBVIOUS
  <2>2. I \subseteq 1..Len(c) /\ I # {}
    BY <1>2, <2>1
  <2>3. m = IF I # {} THEN Min(I) ELSE 0
    BY <1>4, <2>1 DEF SelectInSeq
  <2>. QED BY <1>2, <2>2, <2>3, SelectedIs
<1>7. t = IF n # 0 THEN c[n] ELSE c[m]
  BY <1>1, <1>3, <1>4 DEF Target
<1>8. \A i \in 1..Len(c) : c[i] \in Places
  BY <1>2
<1>. QED BY <1>2, <1>5, <1>6, <1>7, <1>8

-----------------------------------------------------------------------------
(* The state *)

Located == {"detected", "inspected", "planned", "written", "undoing", "connected", "launched"}
Drafted == {"planned", "written", "undoing", "connected", "launched"}

(* A located command knows a file the Agent will read; a drafted one has   *)
(* a document it may replace and what the plan makes of it.                *)
CallIs(c) ==
  /\ DOMAIN c = DOMAIN Idle /\ c.phase \in Phases /\ c.target \in Places \cup {"none"}
  /\ c.phase \in Located =>
       /\ c.target \in Places
       /\ \/ c.target \in ReadBy(agent, LaunchEnvironment(agent, world, c.config))
          \/ c.config = "none" /\ world.var /\ c.target = "home" /\ agent \in {"codex", "opencode"}
  /\ c.phase \in Drafted =>
       /\ IsDoc(c.before) /\ Plain(c.before)
       /\ c.content = Edited(agent, c.before, c.intent)
       /\ c.intent.endpoint.protocol \in SupportedProtocols[agent]

(* A transaction replaced a document by one with the user's keys of it.    *)
TransactionIs(t) ==
  /\ DOMAIN t = DOMAIN NoTransaction /\ t.target \in Places \cup {"none"}
  /\ IsDoc(t.before) /\ IsDoc(t.after) /\ Plain(t.before) /\ Plain(t.after)
  /\ \A k \in UsersKeys : t.after[k] = t.before[k]
  /\ agent = "opencode" /\ t.target # "none" /\ t.before.shape = "absent" => t.after.schema = TRUE

DiskIs(d) == DOMAIN d = Places /\ \A p \in Places : IsDoc(d[p])

Sound ==
  /\ agent \in Agents /\ world \in Worlds /\ catalog \in DOMAIN Catalogs
  /\ calls \in 0 .. MaxCalls /\ edits \in 0 .. MaxEdits + 1
  /\ DiskIs(disk) /\ CallIs(call) /\ TransactionIs(last)
  /\ call.phase = "written" => last.target = call.target

LEMMA SoundTyped == Sound => AgentTypeOK
BY BlankIs DEF Sound, DiskIs, CallIs, TransactionIs, AgentTypeOK, IsDoc

LEMMA Known == agent \in Agents => KnownAgent
BY AgentsAssumption DEF KnownAgent

LEMMA IdleIs ==
  /\ DOMAIN Idle = {"phase", "command", "config", "wire", "offered", "ids", "intent", "target", "exists",
                    "status", "before", "content"}
  /\ Idle.phase = "idle" /\ Idle.target = "none" /\ "none" \notin Places
  /\ CallIs(Idle)
  /\ \A phase \in Phases \ Located : CallIs([Idle EXCEPT !.phase = phase])
<1>1. /\ DOMAIN Idle = {"phase", "command", "config", "wire", "offered", "ids", "intent", "target", "exists",
                        "status", "before", "content"}
      /\ Idle.phase = "idle" /\ Idle.target = "none" /\ "none" \notin Places
  BY DEF Idle, Places
<1>2. "idle" \in Phases \ Located /\ Drafted \subseteq Located
  BY DEF Phases, Located, Drafted
<1>3. CallIs(Idle)
  BY <1>1, <1>2 DEF CallIs
<1>4. \A phase \in Phases \ Located : CallIs([Idle EXCEPT !.phase = phase])
  BY <1>1, <1>2 DEF CallIs
<1>. QED BY <1>1, <1>3, <1>4

LEMMA InitSound == Init => Sound
<1>. SUFFICES ASSUME Init PROVE Sound
  OBVIOUS
<1>1. DiskIs(disk)
  BY BlankIs DEF Init, DiskIs
<1>2. TransactionIs(last)
  <2>1. /\ last.target = "none" /\ last.before = Absent /\ last.after = Absent
        /\ DOMAIN last = DOMAIN NoTransaction
    BY DEF Init, NoTransaction
  <2>. QED BY <2>1, BlankIs DEF TransactionIs
<1>3. CallIs(call) /\ call.phase # "written"
  BY IdleIs DEF Init
<1>. QED BY <1>1, <1>2, <1>3, BoundsAssumption DEF Init, Sound

(* The agent and the machine stay.                                         *)
LEMMA FixedIs ==
  ASSUME UNCHANGED fixed
  PROVE  /\ \A c : CallIs(c)' <=> CallIs(c)
         /\ \A t : TransactionIs(t)' <=> TransactionIs(t)
         /\ UsersKeys' = UsersKeys
<1>1. agent' = agent /\ world' = world
  BY DEF fixed
<1>. QED BY <1>1 DEF CallIs, TransactionIs, UsersKeys

LEMMA SoundStep ==
  ASSUME Sound, UNCHANGED fixed, catalog' \in DOMAIN Catalogs,
         calls' \in 0 .. MaxCalls, edits' \in 0 .. MaxEdits + 1,
         DiskIs(disk'), CallIs(call'), TransactionIs(last'),
         call'.phase = "written" => last'.target = call'.target
  PROVE  Sound'
<1>1. agent' \in Agents /\ world' \in Worlds
  BY DEF Sound, fixed
<1>2. PICK c, t, d : c = call' /\ t = last' /\ d = disk'
  OBVIOUS
<1>3. CallIs(c)' /\ TransactionIs(t)'
  BY <1>2, FixedIs
<1>4. CallIs(call)' /\ TransactionIs(last)'
  BY <1>2, <1>3 DEF CallIs, TransactionIs
<1>5. DiskIs(disk)'
  BY DEF DiskIs
<1>. QED BY <1>1, <1>4, <1>5 DEF Sound

-----------------------------------------------------------------------------
(* Every action keeps the state sound *)

LEMMA RefusedIs ==
  ASSUME Refuse
  PROVE  CallIs(call') /\ call'.phase = "refused"
<1>1. "refused" \in Phases \ Located
  BY DEF Phases, Located
<1>. QED BY <1>1, IdleIs DEF Refuse

LEMMA StartedIs ==
  ASSUME NEW command, NEW config, NEW wire, NEW selected, NEW endpoint, NEW helper,
         StartWith(command, config, wire, selected, endpoint, helper)
  PROVE  /\ CallIs(call') /\ call'.phase \in {"previewed", "started"}
         /\ call'.command = command /\ call'.config = config
         /\ call'.wire = wire /\ call'.offered = catalog
         /\ LET models == IF bindingThatSurvives(command, endpoint)
                          THEN modelsAfterSwitch(Models, bound.ids, selected, endpoint) ELSE selected IN
            /\ call'.ids = [n \in DOMAIN models |-> models[n].id]
            /\ call'.intent = connectionIntent(models, endpoint, helper)
<1>1. PICK models : models = IF bindingThatSurvives(command, endpoint)
                             THEN modelsAfterSwitch(Models, bound.ids, selected, endpoint) ELSE selected
  OBVIOUS
<1>2. PICK ph : ph = IF command = "connect" /\ call.phase # "previewed" THEN "previewed" ELSE "started"
  OBVIOUS
<1>3. PICK ids, intent : /\ ids = [n \in DOMAIN models |-> models[n].id]
                         /\ intent = connectionIntent(models, endpoint, helper)
  OBVIOUS
<1>4. PICK o : o = catalog
  OBVIOUS
<1>5. call' = [Idle EXCEPT !.phase = ph, !.command = command, !.config = config, !.wire = wire,
                           !.offered = o, !.ids = ids, !.intent = intent]
  BY <1>1, <1>2, <1>3, <1>4, Zenon DEF StartWith
<1>6. ph \in {"previewed", "started"} /\ ph \in Phases \ Located /\ Drafted \subseteq Located
  BY <1>2 DEF Phases, Located, Drafted
<1>7. /\ DOMAIN call' = DOMAIN Idle /\ call'.phase = ph /\ call'.target = "none"
      /\ call'.command = command /\ call'.config = config /\ call'.wire = wire /\ call'.offered = o
      /\ call'.ids = ids /\ call'.intent = intent
  BY <1>5, IdleIs
<1>8. CallIs(call')
  BY <1>6, <1>7 DEF CallIs
<1>9. /\ call'.ids = [n \in DOMAIN models |-> models[n].id]
      /\ call'.intent = connectionIntent(models, endpoint, helper)
  BY <1>3, <1>7
<1>. QED BY <1>1, <1>4, <1>6, <1>7, <1>8, <1>9, Zenon

LEMMA ChooseSound ==
  ASSUME Sound, NEW command, NEW config, NEW references, NEW helper,
         Choose(command, config, references, helper)
  PROVE  Sound'
<1>1. CallIs(call') /\ call'.phase # "written"
  <2>1. \/ Refuse
        \/ \E w, s, o : StartWith(command, config, w, s, o, helper)
    BY Zenon DEF Choose
  <2>. QED BY <2>1, RefusedIs, StartedIs
<1>2. /\ UNCHANGED fixed /\ calls < MaxCalls /\ calls' = calls + 1
      /\ catalog' = catalog /\ disk' = disk /\ last' = last /\ edits' = edits
  BY DEF Choose
<1>. QED BY <1>1, <1>2, SoundStep, BoundsAssumption DEF Sound

LEMMA ConfirmSound ==
  ASSUME Sound, Confirm
  PROVE  Sound'
<1>1. CallIs(call') /\ call'.phase # "written"
  <2>1. \/ Refuse
        \/ \E c, f, w, s, o, h : StartWith(c, f, w, s, o, h)
    BY Zenon DEF Confirm
  <2>. QED BY <2>1, RefusedIs, StartedIs
<1>2. /\ UNCHANGED fixed /\ calls' = calls
      /\ catalog' = catalog /\ disk' = disk /\ last' = last /\ edits' = edits
  BY DEF Confirm
<1>. QED BY <1>1, <1>2, SoundStep DEF Sound

LEMMA DetectSound ==
  ASSUME Sound, Detect
  PROVE  Sound'
<1>1. PICK t : t = Target(agent, world, call.config, disk)
  OBVIOUS
<1>2. /\ t \in Places
      /\ \/ t \in ReadBy(agent, LaunchEnvironment(agent, world, call.config))
         \/ call.config = "none" /\ world.var /\ t = "home" /\ agent \in {"codex", "opencode"}
  BY <1>1, Known, TargetIs DEF Sound
<1>3. PICK x : x = (disk[t].shape # "absent")
  OBVIOUS
<1>4. \/ Refuse
      \/ call' = [call EXCEPT !.phase = "detected", !.target = t, !.exists = x]
  BY <1>1, <1>3 DEF Detect
<1>5. ASSUME call' = [call EXCEPT !.phase = "detected", !.target = t, !.exists = x]
      PROVE  CallIs(call') /\ call'.phase # "written"
  <2>1. /\ DOMAIN call' = DOMAIN Idle /\ call'.phase = "detected" /\ call'.target = t
        /\ call'.config = call.config
    BY <1>5, IdleIs DEF Sound, CallIs
  <2>2. "detected" \in Phases /\ "detected" \notin Drafted
    BY DEF Phases, Drafted
  <2>. QED BY <1>2, <2>1, <2>2 DEF CallIs
<1>6. CallIs(call') /\ call'.phase # "written"
  BY <1>4, <1>5, RefusedIs
<1>7. /\ UNCHANGED fixed /\ calls' = calls
      /\ catalog' = catalog /\ disk' = disk /\ last' = last /\ edits' = edits
  BY DEF Detect
<1>. QED BY <1>6, <1>7, SoundStep DEF Sound

LEMMA PhaseIs ==
  ASSUME CallIs(call), NEW phase \in Located, call.phase \in Located,
         phase \in Drafted => call.phase \in Drafted,
         call' = [call EXCEPT !.phase = phase]
  PROVE  CallIs(call') /\ call'.phase = phase /\ call'.target = call.target
<1>1. /\ DOMAIN call' = DOMAIN Idle /\ call'.phase = phase /\ call'.target = call.target
      /\ call'.config = call.config /\ call'.before = call.before /\ call'.content = call.content
      /\ call'.intent = call.intent
  BY IdleIs DEF CallIs
<1>2. phase \in Phases
  BY DEF Located, Phases
<1>. QED BY <1>1, <1>2 DEF CallIs

LEMMA InspectSound ==
  ASSUME Sound, InspectIt
  PROVE  Sound'
<1>1. PICK i : i = Inspect(agent, Read, world.dotenv).status
  OBVIOUS
<1>2. \/ Refuse
      \/ call' = [call EXCEPT !.phase = "inspected", !.status = i]
  BY <1>1 DEF InspectIt
<1>3. ASSUME call' = [call EXCEPT !.phase = "inspected", !.status = i]
      PROVE  CallIs(call') /\ call'.phase # "written"
  <2>1. /\ DOMAIN call' = DOMAIN Idle /\ call'.phase = "inspected" /\ call'.target = call.target
        /\ call'.config = call.config
    BY <1>3, IdleIs DEF Sound, CallIs
  <2>2. "inspected" \in Phases /\ "inspected" \notin Drafted /\ call.phase \in Located
    BY DEF Phases, Drafted, Located, InspectIt
  <2>. QED BY <2>1, <2>2 DEF Sound, CallIs
<1>4. CallIs(call') /\ call'.phase # "written"
  BY <1>2, <1>3, RefusedIs
<1>5. /\ UNCHANGED fixed /\ calls' = calls
      /\ catalog' = catalog /\ disk' = disk /\ last' = last /\ edits' = edits
  BY DEF InspectIt
<1>. QED BY <1>4, <1>5, SoundStep DEF Sound

(* What a step of the plan that does not refuse makes of the command.      *)
LEMMA PlannedIs ==
  ASSUME Sound, Plan, ~ Refuse
  PROVE  /\ IsDoc(Read) /\ Plain(Read)
         /\ call.intent.endpoint.protocol \in SupportedProtocols[agent]
         /\ call'.phase \in {"planned", "connected"}
         /\ call'.phase = "connected" => bound' = Saved /\ last' = [last EXCEPT !.previous = NoBinding]
         /\ call'.phase = "planned" => bound' = bound /\ last' = last
         /\ DOMAIN call' = DOMAIN Idle /\ call'.target = call.target /\ call'.config = call.config
         /\ call'.before = Read /\ call'.content = Edited(agent, Read, call.intent)
         /\ call'.intent = call.intent /\ call'.ids = call.ids
         /\ call'.wire = call.wire /\ call'.offered = call.offered /\ call'.command = call.command
<1>1. PICK r, e, u : /\ r = Read /\ e = Edited(agent, Read, call.intent)
                     /\ u = (call.exists /\ e = r)
  OBVIOUS
<1>2. call.phase = "inspected" /\ ~ Refuses(agent, call.status, r, call.intent)
  BY <1>1 DEF Plan
<1>3. /\ call' = [call EXCEPT !.phase = IF u THEN "connected" ELSE "planned",
                              !.before = r, !.content = e]
      /\ bound' = IF u THEN Saved ELSE bound
      /\ last' = IF u THEN [last EXCEPT !.previous = NoBinding] ELSE last
  BY <1>1 DEF Plan
<1>4. call.target \in Places
  BY <1>2 DEF Sound, CallIs, Located
<1>5. IsDoc(r)
  BY <1>1, <1>4, BlankIs DEF Read, Sound, DiskIs
<1>6. Plain(r) /\ call.intent.endpoint.protocol \in SupportedProtocols[agent]
  BY <1>2, Known, RefusesUnsafe DEF Sound
<1>7. DOMAIN call = DOMAIN Idle
  BY DEF Sound, CallIs
<1>8. /\ DOMAIN call' = DOMAIN Idle /\ call'.phase = (IF u THEN "connected" ELSE "planned")
      /\ call'.target = call.target /\ call'.config = call.config
      /\ call'.before = r /\ call'.content = e /\ call'.intent = call.intent /\ call'.ids = call.ids
      /\ call'.wire = call.wire /\ call'.offered = call.offered /\ call'.command = call.command
  BY <1>3, <1>7, IdleIs
<1>. QED BY <1>1, <1>3, <1>5, <1>6, <1>8

LEMMA PlanSound ==
  ASSUME Sound, Plan
  PROVE  Sound'
<1>1. TransactionIs(last')
  <2>1. last' = last \/ last' = [last EXCEPT !.previous = NoBinding]
    BY DEF Plan
  <2>2. DOMAIN NoTransaction = {"target", "before", "after", "previous"}
    BY DEF NoTransaction
  <2>. QED BY <2>1, <2>2 DEF TransactionIs, Sound
<1>2. CallIs(call') /\ call'.phase # "written"
  <2>1. CASE Refuse
    BY <2>1, RefusedIs
  <2>2. CASE ~ Refuse
    <3>1. PICK r : r = Read
      OBVIOUS
    <3>2. /\ IsDoc(r) /\ Plain(r) /\ call'.before = r /\ call'.content = Edited(agent, r, call.intent)
          /\ call.intent.endpoint.protocol \in SupportedProtocols[agent]
          /\ call'.phase \in {"planned", "connected"}
          /\ DOMAIN call' = DOMAIN Idle /\ call'.target = call.target /\ call'.config = call.config
          /\ call'.intent = call.intent
      BY <2>2, <3>1, PlannedIs
    <3>3. {"planned", "connected"} \subseteq Phases /\ call.phase \in Located
      BY DEF Phases, Located, Plan
    <3>. QED BY <3>2, <3>3 DEF CallIs, Sound
  <2>. QED BY <2>1, <2>2
<1>3. /\ UNCHANGED fixed /\ calls' = calls /\ catalog' = catalog /\ disk' = disk /\ edits' = edits
  BY DEF Plan
<1>. QED BY <1>1, <1>2, <1>3, SoundStep DEF Sound

(* A drafted command: what it writes and what a rollback puts back.        *)
LEMMA DraftIs ==
  ASSUME Sound, call.phase \in Drafted
  PROVE  /\ call.target \in Places
         /\ IsDoc(call.before) /\ Plain(call.before)
         /\ IsDoc(call.content) /\ call.content.shape = "readable"
         /\ \A k \in UsersKeys : call.content[k] = call.before[k]
         /\ agent = "opencode" /\ call.before.shape = "absent" => call.content.schema = TRUE
<1>1. /\ call.target \in Places /\ KnownAgent
      /\ IsDoc(call.before) /\ Plain(call.before)
      /\ call.content = Edited(agent, call.before, call.intent)
  BY Known DEF Sound, CallIs, Drafted, Located
<1>2. PICK b, i, e : b = call.before /\ i = call.intent /\ e = call.content
  OBVIOUS
<1>3. e = Edited(agent, b, i) /\ IsDoc(b)
  BY <1>1, <1>2
<1>4. /\ IsDoc(e) /\ e.shape = "readable"
      /\ \A k \in UsersKeys : e[k] = b[k]
      /\ agent = "opencode" /\ b.shape = "absent" => e.schema = TRUE
  BY <1>1, <1>3, EditedIs
<1>. QED BY <1>1, <1>2, <1>4

LEMMA Replaced ==
  ASSUME DiskIs(disk), NEW p, NEW d, IsDoc(d), disk' = [disk EXCEPT ![p] = d]
  PROVE  DiskIs(disk') /\ \A q \in Places : disk'[q] = IF q = p THEN d ELSE disk[q]
BY DEF DiskIs

LEMMA NoTransactionIs == TransactionIs(NoTransaction)
<1>1. /\ NoTransaction.target = "none" /\ NoTransaction.before = Absent /\ NoTransaction.after = Absent
  BY DEF NoTransaction
<1>. QED BY <1>1, BlankIs DEF TransactionIs

LEMMA WriteSound ==
  ASSUME Sound, Write
  PROVE  Sound'
<1>1. call.phase = "planned" /\ "planned" \in Drafted /\ "planned" \in Located
  BY DEF Write, Drafted, Located
<1>2. /\ UNCHANGED fixed /\ calls' = calls /\ catalog' = catalog /\ edits' = edits
  BY DEF Write
<1>3. CASE Refuse /\ UNCHANGED <<disk, last>>
  <2>1. CallIs(call') /\ call'.phase # "written"
    BY <1>3, RefusedIs
  <2>. QED BY <1>2, <1>3, <2>1, SoundStep DEF Sound
<1>4. CASE /\ disk' = [disk EXCEPT ![call.target] = call.content]
           /\ last' = [target |-> call.target, before |-> call.before, after |-> call.content,
                       previous |-> bound]
           /\ call' = [call EXCEPT !.phase = "written"]
  <2>1. /\ call.target \in Places
        /\ IsDoc(call.before) /\ Plain(call.before)
        /\ IsDoc(call.content) /\ call.content.shape = "readable"
        /\ \A k \in UsersKeys : call.content[k] = call.before[k]
        /\ agent = "opencode" /\ call.before.shape = "absent" => call.content.schema = TRUE
    BY <1>1, DraftIs
  <2>2. DiskIs(disk')
    BY <1>4, <2>1, Replaced DEF Sound
  <2>3. /\ DOMAIN last' = DOMAIN NoTransaction /\ last'.target = call.target
        /\ last'.before = call.before /\ last'.after = call.content
    BY <1>4 DEF NoTransaction
  <2>4. TransactionIs(last')
    BY <2>1, <2>3 DEF TransactionIs, Plain
  <2>5. "written" \in Located
    BY DEF Located
  <2>6. CallIs(call') /\ call'.target = call.target
    BY <1>1, <1>4, <2>5, PhaseIs DEF Sound
  <2>. QED BY <1>2, <2>2, <2>3, <2>4, <2>6, SoundStep DEF Sound
<1>. QED BY <1>3, <1>4 DEF Write

LEMMA VerifySound ==
  ASSUME Sound, Verify
  PROVE  Sound'
<1>1. call.phase = "written" /\ "written" \in Located /\ "written" \in Drafted
  BY DEF Verify, Located, Drafted
<1>2. PICK ph : ph \in {"connected", "undoing"} /\ call' = [call EXCEPT !.phase = ph]
  BY DEF Verify
<1>3. ph \in Located /\ ph # "written"
  BY <1>2 DEF Located
<1>4. CallIs(call') /\ call'.phase # "written"
  BY <1>1, <1>2, <1>3, PhaseIs DEF Sound
<1>5. /\ UNCHANGED fixed /\ calls' = calls
      /\ catalog' = catalog /\ disk' = disk /\ last' = last /\ edits' = edits
  BY DEF Verify
<1>. QED BY <1>4, <1>5, SoundStep DEF Sound

LEMMA UndoSound ==
  ASSUME Sound, Undo
  PROVE  Sound'
<1>1. call.phase \in Drafted
  BY DEF Undo, Drafted
<1>2. /\ UNCHANGED fixed /\ calls' = calls /\ catalog' = catalog /\ edits' = edits
  BY DEF Undo
<1>3. CASE Refuse /\ UNCHANGED <<disk, last>>
  <2>1. CallIs(call') /\ call'.phase # "written"
    BY <1>3, RefusedIs
  <2>. QED BY <1>2, <1>3, <2>1, SoundStep DEF Sound
<1>4. CASE /\ disk' = [disk EXCEPT ![call.target] = call.before]
           /\ last' = NoTransaction
           /\ call' = [Idle EXCEPT !.phase = "rolled-back"]
  <2>1. DiskIs(disk')
    BY <1>1, <1>4, DraftIs, Replaced DEF Sound
  <2>2. "rolled-back" \in Phases \ Located
    BY DEF Phases, Located
  <2>3. CallIs(call') /\ call'.phase # "written"
    BY <1>4, <2>2, IdleIs
  <2>. QED BY <1>2, <1>4, <2>1, <2>3, NoTransactionIs, SoundStep DEF Sound
<1>. QED BY <1>3, <1>4 DEF Undo

LEMMA LaunchSound ==
  ASSUME Sound, Launch
  PROVE  Sound'
<1>1. call.phase \in Located /\ call.phase \in Drafted /\ "launched" \in Located
  BY DEF Launch, Located, Drafted
<1>2. Refuse \/ call' = [call EXCEPT !.phase = "launched"]
  BY DEF Launch
<1>3. CallIs(call') /\ call'.phase # "written"
  BY <1>1, <1>2, PhaseIs, RefusedIs DEF Sound
<1>4. /\ UNCHANGED fixed /\ calls' = calls
      /\ catalog' = catalog /\ disk' = disk /\ last' = last /\ edits' = edits
  BY DEF Launch
<1>. QED BY <1>3, <1>4, SoundStep DEF Sound

LEMMA SchemaIs ==
  ASSUME NEW d, IsDoc(d)
  PROVE  IsDoc([d EXCEPT !.schema = TRUE])
<1>1. PICK e : e = [d EXCEPT !.schema = TRUE]
  OBVIOUS
<1>2. DOMAIN e = DOMAIN Blank
  BY <1>1, BlankIs
<1>. QED BY <1>1, <1>2, DocIs

LEMMA AgentRunsSound ==
  ASSUME Sound, AgentRuns
  PROVE  Sound'
<1>1. DiskIs(disk')
  <2>1. \A p \in Places : disk'[p] = disk[p] \/ disk'[p] = [disk[p] EXCEPT !.schema = TRUE]
    BY DEF AgentRuns
  <2>2. DOMAIN disk' = Places
    BY DEF AgentRuns
  <2>. QED BY <2>1, <2>2, SchemaIs DEF DiskIs, Sound
<1>2. CallIs(call') /\ call'.phase # "written"
  <2>1. /\ DOMAIN call' = DOMAIN Idle /\ call'.phase = "exited" /\ call'.target = call.target
    BY IdleIs DEF Sound, CallIs, AgentRuns
  <2>2. "exited" \in Phases /\ "exited" \notin Located /\ Drafted \subseteq Located
    BY DEF Phases, Located, Drafted
  <2>. QED BY <2>1, <2>2 DEF CallIs, Sound
<1>3. /\ UNCHANGED fixed /\ calls' = calls
      /\ catalog' = catalog /\ last' = last /\ edits' = edits
  BY DEF AgentRuns
<1>. QED BY <1>1, <1>2, <1>3, SoundStep DEF Sound

LEMMA RestoreSound ==
  ASSUME Sound, Restore
  PROVE  Sound'
<1>1. CallIs(call') /\ call'.phase # "written"
  BY IdleIs DEF Restore
<1>2. DiskIs(disk') /\ TransactionIs(last')
  <2>1. CASE UNCHANGED <<disk, last, bound>>
    BY <2>1 DEF Sound
  <2>2. CASE /\ disk' = [disk EXCEPT ![last.target] = last.before]
             /\ last' = NoTransaction
    BY <2>2, Replaced, NoTransactionIs DEF Sound, TransactionIs
  <2>. QED BY <2>1, <2>2 DEF Restore
<1>3. /\ UNCHANGED fixed /\ calls < MaxCalls /\ calls' = calls + 1
      /\ catalog' = catalog /\ edits' = edits
  BY DEF Restore
<1>. QED BY <1>1, <1>2, <1>3, SoundStep, BoundsAssumption DEF Sound

LEMMA EditsAreDocs ==
  ASSUME NEW d, IsDoc(d), NEW e \in EditsOf(d)
  PROVE  IsDoc(e)
<1>1. \/ e = Absent
      \/ \E k, v : e = [d EXCEPT ![k] = v]
      \/ \E k, v : e = [Blank EXCEPT ![k] = v]
      \/ e = Emptied(d)
  <2>1. CASE d.shape = "absent"
    BY <2>1 DEF EditsOf
  <2>2. CASE d.shape # "absent" /\ d.shape # "readable"
    BY <2>2 DEF EditsOf
  <2>3. CASE d.shape = "readable"
    BY <2>3 DEF EditsOf
  <2>. QED BY <2>1, <2>2, <2>3
<1>2. ASSUME NEW b, IsDoc(b), NEW k, NEW v, e = [b EXCEPT ![k] = v]
      PROVE  IsDoc(e)
  <2>1. DOMAIN e = DOMAIN Blank
    BY <1>2, BlankIs
  <2>. QED BY <1>2, <2>1, DocIs
<1>3. ASSUME e = Emptied(d)
      PROVE  IsDoc(e)
  <2>1. PICK b : e = [b EXCEPT !.models = {}]
    BY <1>3 DEF Emptied
  <2>2. DOMAIN e = DOMAIN Blank
    BY <1>3, BlankIs DEF Emptied
  <2>. QED BY <2>1, <2>2, DocIs
<1>. QED BY <1>1, <1>2, <1>3, BlankIs

LEMMA UserSound ==
  ASSUME Sound, UserEdits
  PROVE  Sound'
<1>1. PICK p, d : d \in EditsOf(disk[p]) /\ disk' = [disk EXCEPT ![p] = d]
  BY DEF UserEdits
<1>2. DiskIs(disk')
  <2>1. CASE p \in Places
    BY <1>1, <2>1, EditsAreDocs, Replaced DEF Sound, DiskIs
  <2>2. CASE p \notin Places
    BY <1>1, <2>2 DEF Sound, DiskIs
  <2>. QED BY <2>1, <2>2
<1>3. /\ UNCHANGED fixed /\ calls' = calls /\ call' = call
      /\ catalog' = catalog /\ last' = last /\ edits < MaxEdits /\ edits' = edits + 1
  BY DEF UserEdits
<1>. QED BY <1>2, <1>3, SoundStep, BoundsAssumption DEF Sound

LEMMA UserTakesBackSound ==
  ASSUME Sound, UserTakesBack
  PROVE  Sound'
<1>1. call.phase \in Drafted
  BY DEF UserTakesBack, Drafted
<1>2. DiskIs(disk')
  BY <1>1, DraftIs, Replaced DEF UserTakesBack, Sound
<1>3. /\ UNCHANGED fixed /\ calls' = calls /\ call' = call
      /\ catalog' = catalog /\ last' = last /\ edits' = MaxEdits + 1
  BY DEF UserTakesBack
<1>. QED BY <1>2, <1>3, SoundStep, BoundsAssumption DEF Sound

LEMMA HubSound ==
  ASSUME Sound, HubChanges
  PROVE  Sound'
<1>1. /\ UNCHANGED fixed /\ calls' = calls /\ call' = call /\ catalog' \in DOMAIN Catalogs
      /\ disk' = disk /\ last' = last /\ edits < MaxEdits /\ edits' = edits + 1
  BY DEF HubChanges
<1>. QED BY <1>1, SoundStep, BoundsAssumption DEF Sound

LEMMA NextSound == Sound /\ [Next]_vars => Sound'
<1>. SUFFICES ASSUME Sound, [Next]_vars PROVE Sound'
  OBVIOUS
<1>1. ASSUME UNCHANGED vars PROVE Sound'
  <2>1. /\ UNCHANGED fixed /\ calls' = calls /\ call' = call /\ catalog' = catalog
        /\ disk' = disk /\ last' = last /\ edits' = edits
    BY <1>1 DEF vars, fixed
  <2>. QED BY <2>1, SoundStep DEF Sound
<1>. QED
  BY <1>1, ChooseSound, ConfirmSound, DetectSound, InspectSound, PlanSound, WriteSound, VerifySound,
     UndoSound, LaunchSound, AgentRunsSound, RestoreSound, UserSound, UserTakesBackSound, HubSound DEF Next

LEMMA SoundAlways == Spec => []Sound
<1>. QED BY InitSound, NextSound, PTL DEF Spec

(* Every reachable state is well typed; a written file is the target of    *)
(* the transaction that a restore would take back.                         *)
THEOREM AgentTyped == Spec => []AgentTypeOK
<1>. QED BY SoundAlways, SoundTyped, PTL

(* A file the doctor passes, whatever is in it, makes the Agent use the    *)
(* provider of ours (diagnose, in the adapters).                           *)
THEOREM DoctorPassesOurs == Spec => []DoctorIsHonest
<1>1. Sound => DoctorIsHonest
  BY Known, DoctorPasses DEF Sound, DoctorIsHonest
<1>. QED BY <1>1, SoundAlways, PTL

-----------------------------------------------------------------------------
(* What a step of ours does to a file *)

Survives(p) ==
  /\ \A k \in UsersKeys : disk'[p][k] = disk[p][k]
  /\ disk[p].shape \in {"broken", "huge", "inline", "legacy"} => disk'[p] = disk[p]

LEMMA SameSurvives ==
  ASSUME NEW p, disk'[p] = disk[p]
  PROVE  Survives(p)
BY DEF Survives

LEMMA WriteSurvives ==
  ASSUME Sound, Write, NEW p \in Places
  PROVE  Survives(p)
<1>1. call.phase \in Drafted
  BY DEF Write, Drafted
<1>2. CASE UNCHANGED disk
  BY <1>2, SameSurvives
<1>3. CASE /\ disk[call.target] = call.before
           /\ disk' = [disk EXCEPT ![call.target] = call.content]
  <2>1. disk'[p] = IF p = call.target THEN call.content ELSE disk[p]
    BY <1>3 DEF Sound, DiskIs
  <2>2. /\ Plain(call.before)
        /\ \A k \in UsersKeys : call.content[k] = call.before[k]
    BY <1>1, DraftIs
  <2>. QED BY <1>3, <2>1, <2>2 DEF Survives, Plain
<1>. QED BY <1>2, <1>3 DEF Write, SameContent

LEMMA UndoSurvives ==
  ASSUME Sound, Undo, NEW p \in Places
  PROVE  Survives(p)
<1>1. call.phase \in Drafted
  BY DEF Undo, Drafted
<1>2. CASE UNCHANGED disk
  BY <1>2, SameSurvives
<1>3. CASE /\ disk[call.target] = call.content
           /\ disk' = [disk EXCEPT ![call.target] = call.before]
  <2>1. disk'[p] = IF p = call.target THEN call.before ELSE disk[p]
    BY <1>3 DEF Sound, DiskIs
  <2>2. /\ call.content.shape = "readable"
        /\ \A k \in UsersKeys : call.content[k] = call.before[k]
    BY <1>1, DraftIs
  <2>. QED BY <1>3, <2>1, <2>2 DEF Survives
<1>. QED BY <1>2, <1>3 DEF Undo

LEMMA AgentRunsSurvives ==
  ASSUME Sound, AgentRuns, NEW p \in Places
  PROVE  Survives(p)
<1>1. CASE disk'[p] = disk[p]
  BY <1>1, SameSurvives
<1>2. CASE agent = "opencode" /\ disk[p].shape = "readable" /\ disk'[p] = [disk[p] EXCEPT !.schema = TRUE]
  <2>1. UsersKeys = {"rest", "token", "marker", "helper"}
    BY <1>2 DEF UsersKeys
  <2>2. {"rest", "token", "marker", "helper"} \subseteq DOMAIN disk[p]
    BY BlankIs DEF Sound, DiskIs
  <2>3. \A k \in UsersKeys : disk'[p][k] = disk[p][k]
    BY <1>2, <2>1, <2>2
  <2>. QED BY <1>2, <2>3 DEF Survives
<1>3. disk'[p] = IF agent = "opencode" /\ p \in ReadsNow /\ disk[p].shape = "readable"
                 THEN [disk[p] EXCEPT !.schema = TRUE] ELSE disk[p]
  BY DEF AgentRuns
<1>. QED BY <1>1, <1>2, <1>3

LEMMA RestoreSurvives ==
  ASSUME Sound, Restore, NEW p \in Places
  PROVE  Survives(p)
<1>1. CASE UNCHANGED disk
  BY <1>1, SameSurvives
<1>2. CASE /\ disk[last.target] = last.after
           /\ disk' = [disk EXCEPT ![last.target] = last.before]
  <2>1. disk'[p] = IF p = last.target THEN last.before ELSE disk[p]
    BY <1>2 DEF Sound, DiskIs
  <2>2. Plain(last.after) /\ \A k \in UsersKeys : last.after[k] = last.before[k]
    BY DEF Sound, TransactionIs
  <2>. QED BY <1>2, <2>1, <2>2 DEF Survives, Plain
<1>. QED BY <1>1, <1>2 DEF Restore

LEMMA StepSurvives ==
  ASSUME Sound, Next, edits' = edits, NEW p \in Places
  PROVE  Survives(p)
<1>1. edits \in Nat /\ MaxEdits \in Nat
  BY BoundsAssumption DEF Sound
<1>2. ~ UserEdits /\ ~ UserTakesBack
  BY <1>1 DEF UserEdits, UserTakesBack
<1>3. \/ UNCHANGED disk \/ Write \/ Undo \/ AgentRuns \/ Restore
  BY <1>2 DEF Next, Choose, Confirm, Detect, InspectIt, Plan, Verify, Launch, HubChanges
<1>. QED BY <1>3, SameSurvives, WriteSurvives, UndoSurvives, AgentRunsSurvives, RestoreSurvives

(* What the user keeps in a file, and a file the integration cannot parse  *)
(* or edit, survives the writing, the rollback, the restore and the run of *)
(* every Agent, whoever else changed the file in between                   *)
(* (run-integration-change.ts:164).                                        *)
THEOREM UsersContentKept == Spec => UsersContentSurvives
<1>1. ASSUME Sound, [Next]_vars
      PROVE  [edits' = edits =>
                \A p \in Places :
                  /\ \A k \in UsersKeys : disk'[p][k] = disk[p][k]
                  /\ disk[p].shape \in {"broken", "huge", "inline", "legacy"} => disk'[p] = disk[p]]_vars
  BY <1>1, StepSurvives DEF Survives
<1>. QED BY <1>1, SoundAlways, PTL DEF Spec, UsersContentSurvives

LEMMA OnlyTheAgentExits ==
  ASSUME Sound, [Next]_vars, call.phase = "launched", call'.phase = "exited"
  PROVE  AgentRuns
<1>1. call.phase \notin Over
  BY DEF Over
<1>2. call' # call
  OBVIOUS
<1>. QED
  BY <1>1, <1>2 DEF Next, Choose, Confirm, Detect, InspectIt, Plan, Write, Verify, Undo, Launch, Restore,
     UserEdits, UserTakesBack, HubChanges, vars

(* A file a command created is as written after the Agent has run on it,   *)
(* so that a restore can take it back: a new file of OpenCode has the      *)
(* pointer to the schema (open-code-v2-config.ts:283).                     *)
THEOREM CreatedFileStays == Spec => CreatedFileSurvivesTheAgent
<1>1. ASSUME Sound, [Next]_vars, call.phase = "launched", call'.phase = "exited",
             last.before = Absent, last.target # "none", disk[last.target] = last.after
      PROVE  disk'[last.target] = last.after
  <2>1. AgentRuns
    BY <1>1, OnlyTheAgentExits
  <2>2. last.target \in Places /\ (agent = "opencode" => last.after.schema = TRUE) /\ IsDoc(last.after)
    BY <1>1, BlankIs DEF Sound, TransactionIs
  <2>3. CASE agent # "opencode"
    BY <1>1, <2>1, <2>2, <2>3 DEF AgentRuns
  <2>4. CASE agent = "opencode"
    <3>1. last.after = [last.after EXCEPT !.schema = TRUE]
      BY <2>2, <2>4, BlankIs DEF IsDoc
    <3>. QED BY <1>1, <2>1, <2>2, <3>1 DEF AgentRuns
  <2>. QED BY <2>3, <2>4
<1>2. ASSUME Sound, [Next]_vars
      PROVE  [call.phase = "launched" /\ call'.phase = "exited" =>
                (last.before = Absent /\ last.target # "none" /\ disk[last.target] = last.after
                   => disk'[last.target] = last.after)]_vars
  BY <1>1, <1>2
<1>. QED BY <1>2, SoundAlways, PTL DEF Spec, CreatedFileSurvivesTheAgent


-----------------------------------------------------------------------------
(* What a command in hand has chosen *)

InHand == {"previewed", "started"} \cup Located
Pending == InHand \ {"connected", "launched"}

NowOf(c, id) ==
  LET now == {e \in ModelsOf(c.offered) : e.id = id} IN IF now # {} THEN now ELSE {ModelOf(id, c.wire)}
ServedTo(c, id) ==
  \E e \in ModelsOf(c.offered) : e.id = id /\ Usable(e) /\ c.intent.endpoint \in ToSet(e.offers)

(* Its models are usable ones of the catalog it was chosen from and offer  *)
(* its endpoint by the catalog read last; a run or switch reads one        *)
(* catalog only, and writes the models it has the ids of.                  *)
ChoiceIs(c) ==
  c.phase \in InHand =>
    /\ c.wire \in DOMAIN Catalogs /\ c.offered \in DOMAIN Catalogs
    /\ c.ids \in Seq(ToSet(c.ids)) /\ c.ids # <<>>
    /\ c.intent.endpoint.url # "none"
    /\ \A id \in ToSet(c.ids) : /\ \E e \in ModelsOf(c.wire) : e.id = id /\ Usable(e)
                                /\ \A e \in NowOf(c, id) : c.intent.endpoint \in ToSet(e.offers)
    /\ c.command # "connect" =>
         /\ c.offered = c.wire
         /\ ToSet(c.intent.models) = {ModelOf(id, c.offered).alias : id \in ToSet(c.ids)}

BindingIs(b) == DOMAIN b = DOMAIN NoBinding /\ b.ids \in Seq(ToSet(b.ids))

(* Where the key survives the command has all it covers that is served.    *)
CoversIs(c, b) ==
  c.phase \in Pending /\ c.command # "connect" /\ b.kind = "user" /\ b.protocol = c.intent.endpoint.protocol
    => \A id \in ToSet(b.ids) : ServedTo(c, id) => id \in ToSet(c.ids)

Chosen ==
  /\ ChoiceIs(call) /\ CoversIs(call, bound)
  /\ BindingIs(bound) /\ BindingIs(last.previous)
  /\ call.phase = "launched" => Executable(agent, world) # "none"

LEMMA NoBindingIs ==
  /\ BindingIs(NoBinding) /\ NoTransaction.previous = NoBinding
  /\ DOMAIN NoBinding = {"kind", "protocol", "ids"}
  /\ DOMAIN NoTransaction = {"target", "before", "after", "previous"}
<1>1. DOMAIN NoBinding = {"kind", "protocol", "ids"} /\ NoBinding.ids = <<>>
  BY DEF NoBinding
<1>2. NoBinding.ids \in Seq(ToSet(NoBinding.ids))
  BY <1>1
<1>3. DOMAIN NoTransaction = {"target", "before", "after", "previous"} /\ NoTransaction.previous = NoBinding
  BY DEF NoTransaction
<1>. QED BY <1>1, <1>2, <1>3 DEF BindingIs

(* A command that goes on keeps its choice.                                *)
LEMMA GoesOn ==
  ASSUME NEW c, NEW d, NEW b, ChoiceIs(c), CoversIs(c, b),
         d.wire = c.wire, d.offered = c.offered, d.ids = c.ids, d.intent = c.intent, d.command = c.command,
         d.phase \in InHand => c.phase \in InHand, d.phase \in Pending => c.phase \in Pending
  PROVE  ChoiceIs(d) /\ CoversIs(d, b)
<1>1. \A id : NowOf(d, id) = NowOf(c, id) /\ (ServedTo(d, id) <=> ServedTo(c, id))
  BY DEF NowOf, ServedTo
<1>2. ChoiceIs(d)
  BY <1>1 DEF ChoiceIs
<1>3. CoversIs(d, b)
  BY <1>1 DEF CoversIs
<1>. QED BY <1>2, <1>3

LEMMA OverIs ==
  ASSUME NEW c, c.phase \notin InHand
  PROVE  ChoiceIs(c) /\ \A b : CoversIs(c, b)
BY DEF ChoiceIs, CoversIs, Pending

LEMMA PhasesAre ==
  /\ {"previewed", "started", "detected", "inspected", "planned", "written", "undoing"} = Pending
  /\ InHand = Pending \cup {"connected", "launched"}
  /\ \A phase \in {"idle", "refused", "rolled-back", "exited"} : phase \notin InHand
BY DEF InHand, Pending, Located

LEMMA InitChosen == Init => Chosen
<1>. SUFFICES ASSUME Init PROVE Chosen
  OBVIOUS
<1>1. call.phase = "idle" /\ bound = NoBinding /\ last.previous = NoBinding
  BY IdleIs, NoBindingIs DEF Init
<1>. QED BY <1>1, NoBindingIs, OverIs, PhasesAre DEF Chosen

LEMMA ChosenStep ==
  ASSUME UNCHANGED fixed, ChoiceIs(call'), CoversIs(call', bound'), BindingIs(bound'), BindingIs(last'.previous),
         call'.phase = "launched" => Executable(agent, world) # "none"
  PROVE  Chosen'
<1>1. PICK c, b, l : c = call' /\ b = bound' /\ l = last'
  OBVIOUS
<1>2. ChoiceIs(c)' /\ CoversIs(c, b)' /\ BindingIs(b)' /\ BindingIs(l.previous)'
  BY <1>1 DEF ChoiceIs, CoversIs, BindingIs, NowOf, ServedTo
<1>3. ChoiceIs(call)' /\ CoversIs(call, bound)' /\ BindingIs(bound)' /\ BindingIs(last.previous)'
  BY <1>1, <1>2 DEF ChoiceIs, CoversIs, BindingIs, NowOf, ServedTo
<1>4. (call.phase = "launched" => Executable(agent, world) # "none")'
  BY DEF fixed
<1>. QED BY <1>3, <1>4 DEF Chosen

LEMMA ChooseChosen ==
  ASSUME Sound, Chosen, NEW command, NEW config, NEW references \in Selections, NEW helper,
         Choose(command, config, references, helper)
  PROVE  ChoiceIs(call') /\ CoversIs(call', bound)
<1>. DEFINE U == {e \in Models : Usable(e)}
<1>1. PICK selected, ends : /\ selected = resolveModels(Models, references)
                            /\ ends = selectSharedProtocol(selected, SupportedProtocols[agent])
  OBVIOUS
<1>2. CASE Refuse
  <2>1. call'.phase \notin InHand
    BY <1>2, RefusedIs, PhasesAre
  <2>. QED BY <2>1, OverIs
<1>3. CASE selected # <<>> /\ \E o \in ends : StartWith(command, config, catalog, selected, o, helper)
  <2>1. PICK o \in ends : StartWith(command, config, catalog, selected, o, helper)
    BY <1>3
  <2>2. catalog \in DOMAIN Catalogs /\ Models = ModelsOf(catalog)
    BY DEF Sound, Models, ModelsOf, Wire
  <2>3. selected \in Seq(U)
    <3>1. references \in Seq(ToSet(references))
      BY SelectionsAssumption
    <3>2. resolveModels(Models, references) \in Seq({e \in Models : Usable(e)})
      BY <3>1, ResolvedIs
    <3>. QED BY <1>1, <3>2
  <2>4. /\ o.url # "none"
        /\ \A e \in ToSet(selected) : o \in ToSet(e.offers)
    <3>1. Head(selected) \in U
      BY <1>3, <2>3
    <3>2. /\ Head(selected).offers \in Seq(ToSet(Head(selected).offers))
          /\ \A x \in ToSet(Head(selected).offers) : x.url # "none"
      BY <2>2, <3>1, ModelIs
    <3>3. o \in selectSharedProtocol(selected, SupportedProtocols[agent])
      BY <1>1
    <3>4. /\ \A e \in ToSet(selected) : o \in ToSet(e.offers)
          /\ Head(selected) \in ToSet(selected)
      <4>. HIDE DEF U
      <4>. QED BY <1>3, <2>3, <3>2, <3>3, EndpointIs
    <3>. QED BY <3>2, <3>4
  <2>5. PICK models : models = IF bindingThatSurvives(command, o)
                               THEN modelsAfterSwitch(Models, bound.ids, selected, o) ELSE selected
    OBVIOUS
  <2>6. bound.ids \in Seq(ToSet(bound.ids))
    BY DEF Chosen, BindingIs
  <2>7. /\ models \in Seq(U) /\ models # <<>>
        /\ \A e \in ToSet(models) : o \in ToSet(e.offers)
        /\ bindingThatSurvives(command, o) =>
             \A e \in Models : e.id \in ToSet(bound.ids) /\ Usable(e) /\ o \in ToSet(e.offers)
                                 => \E f \in ToSet(models) : f.id = e.id
    <3>1. CASE bindingThatSurvives(command, o)
      <4>1. selected \in Seq({e \in ModelsOf(catalog) : Usable(e)})
        BY <2>2, <2>3
      <4>2. LET m == modelsAfterSwitch(ModelsOf(catalog), bound.ids, selected, o) IN
            /\ m \in Seq({e \in ModelsOf(catalog) : Usable(e)}) /\ m # <<>>
            /\ \A e \in ToSet(m) : o \in ToSet(e.offers)
            /\ \A e \in ModelsOf(catalog) : e.id \in ToSet(bound.ids) /\ Usable(e) /\ o \in ToSet(e.offers)
                                              => \E f \in ToSet(m) : f.id = e.id
        BY <1>3, <2>2, <2>4, <2>6, <4>1, SwitchedIs
      <4>. QED BY <2>2, <2>5, <3>1, <4>2
    <3>2. CASE ~ bindingThatSurvives(command, o)
      BY <1>3, <2>3, <2>4, <2>5, <3>2
    <3>. QED BY <3>1, <3>2
  <2>8. PICK c, ids, aliases : /\ c = call'
                               /\ ids = [n \in DOMAIN models |-> models[n].id]
                               /\ aliases = [n \in DOMAIN models |-> models[n].alias]
    OBVIOUS
  <2>9. /\ c.command = command /\ c.wire = catalog /\ c.offered = catalog
        /\ c.ids = ids /\ c.intent.models = aliases /\ c.intent.endpoint = o
    <3>1. /\ call'.command = command /\ call'.wire = catalog /\ call'.offered = catalog
          /\ call'.ids = ids /\ call'.intent = connectionIntent(models, o, helper)
      BY <2>1, <2>5, <2>8, StartedIs
    <3>. QED BY <2>8, <3>1 DEF connectionIntent
  <2>10. /\ ids \in Seq(ToSet(ids)) /\ ToSet(ids) = {e.id : e \in ToSet(models)} /\ ids # <<>>
         /\ ToSet(aliases) = {e.alias : e \in ToSet(models)}
    <3>. HIDE DEF U
    <3>. DEFINE V == {ids[n] : n \in DOMAIN models} \cup {aliases[n] : n \in DOMAIN models}
    <3>1. /\ ids \in [DOMAIN models -> V] /\ aliases \in [DOMAIN models -> V]
          /\ \A n \in DOMAIN models : ids[n] = models[n].id /\ aliases[n] = models[n].alias
      BY <2>8
    <3>. HIDE DEF V
    <3>2. /\ ids \in Seq(ToSet(ids)) /\ ids # <<>>
          /\ ToSet(ids) = {ids[n] : n \in DOMAIN models}
      <4>1. models \in Seq(U) /\ models # <<>> /\ ids \in [DOMAIN models -> V]
        BY <2>7, <3>1
      <4>2. ids \in Seq(ToSet(ids)) /\ ids # <<>>
        BY <4>1, ImageIs
      <4>3. ToSet(ids) = {ids[n] : n \in DOMAIN models}
        BY <4>1 DEF ToSet
      <4>. QED BY <4>2, <4>3
    <3>3. /\ ToSet(aliases) = {aliases[n] : n \in DOMAIN models}
          /\ ToSet(models) = {models[n] : n \in DOMAIN models}
      BY <3>1 DEF ToSet
    <3>. QED BY <3>1, <3>2, <3>3
  <2>11. \A e \in ToSet(models) : /\ e \in ModelsOf(catalog) /\ Usable(e)
                                  /\ ModelOf(e.id, catalog) = e
    <3>1. ToSet(models) \subseteq U
      <4>. HIDE DEF U
      <4>. QED BY <2>7, ToSetIs
    <3>. QED BY <2>2, <3>1, ModelIs
  <2>12. ASSUME NEW id \in ToSet(ids)
         PROVE  /\ \E e \in ModelsOf(c.wire) : e.id = id /\ Usable(e)
                /\ \A e \in NowOf(c, id) : c.intent.endpoint \in ToSet(e.offers)
    <3>1. PICK e \in ToSet(models) : e.id = id
      BY <2>10
    <3>2. \A f \in ModelsOf(catalog) : f.id = id => f = e
      BY <2>2, <2>11, <3>1, IdsName
    <3>3. NowOf(c, id) = {e}
      BY <2>9, <2>11, <3>1, <3>2 DEF NowOf
    <3>. QED BY <2>7, <2>9, <2>11, <3>1, <3>3
  <2>13. ToSet(c.intent.models) = {ModelOf(id, c.offered).alias : id \in ToSet(c.ids)}
    BY <2>9, <2>10, <2>11
  <2>14. ChoiceIs(c)
    BY <2>2, <2>4, <2>9, <2>10, <2>12, <2>13 DEF ChoiceIs
  <2>15. CoversIs(c, bound)
    <3>1. SUFFICES ASSUME bindingThatSurvives(command, o), NEW id \in ToSet(bound.ids), ServedTo(c, id)
                   PROVE  id \in ToSet(ids)
      BY <2>9 DEF CoversIs, bindingThatSurvives
    <3>2. PICK e \in ModelsOf(catalog) : e.id = id /\ Usable(e) /\ o \in ToSet(e.offers)
      BY <2>9, <3>1 DEF ServedTo
    <3>3. PICK f \in ToSet(models) : f.id = id
      BY <2>2, <2>7, <3>1, <3>2
    <3>. QED BY <2>10, <3>3
  <2>. QED BY <2>8, <2>14, <2>15
<1>. QED BY <1>1, <1>2, <1>3, Zenon DEF Choose

LEMMA ConfirmChosen ==
  ASSUME Sound, Chosen, Confirm
  PROVE  ChoiceIs(call') /\ CoversIs(call', bound)
<1>1. PICK id, now : id = Head(call.ids) /\ now = {e \in Models : e.id = id}
  OBVIOUS
<1>2. PICK model : model = IF now # {} THEN CHOOSE e \in now : TRUE ELSE ModelOf(id, call.wire)
  OBVIOUS
<1>3. PICK ends : ends = selectSharedProtocol(<<model>>, SupportedProtocols[agent])
  OBVIOUS
<1>4. CASE Refuse
  <2>1. call'.phase \notin InHand
    BY <1>4, RefusedIs, PhasesAre
  <2>. QED BY <2>1, OverIs
<1>5. CASE \E o \in ends : StartWith("connect", call.config, call.wire, <<model>>, o, call.intent.helper)
  <2>1. PICK o \in ends : StartWith("connect", call.config, call.wire, <<model>>, o, call.intent.helper)
    BY <1>5
  <2>2. catalog \in DOMAIN Catalogs /\ Models = ModelsOf(catalog)
    BY DEF Sound, Models, ModelsOf, Wire
  <2>3. call.phase \in InHand
    BY PhasesAre DEF Confirm
  <2>4. /\ call.wire \in DOMAIN Catalogs /\ id \in ToSet(call.ids)
        /\ \E e \in ModelsOf(call.wire) : e.id = id /\ Usable(e)
    <3>1. /\ call.wire \in DOMAIN Catalogs /\ call.ids \in Seq(ToSet(call.ids)) /\ call.ids # <<>>
          /\ \A i \in ToSet(call.ids) : \E e \in ModelsOf(call.wire) : e.id = i /\ Usable(e)
      BY <2>3 DEF Chosen, ChoiceIs
    <3>2. id \in ToSet(call.ids)
      BY <1>1, <3>1
    <3>. QED BY <3>1, <3>2
  <2>5. PICK w \in DOMAIN Catalogs : model \in ModelsOf(w) /\ model.id = id
    <3>1. CASE now # {}
      <4>1. model \in now
        BY <1>2, <3>1
      <4>. QED BY <1>1, <2>2, <4>1
    <3>2. CASE now = {}
      <4>1. PICK e \in ModelsOf(call.wire) : e.id = id
        BY <2>4
      <4>2. ModelOf(id, call.wire) = e
        BY <2>4, <4>1, ModelIs
      <4>. QED BY <1>2, <2>4, <3>2, <4>1, <4>2
    <3>. QED BY <3>1, <3>2
  <2>6. PICK models : models = <<model>>
    OBVIOUS
  <2>7. /\ models \in Seq({model}) /\ models # <<>> /\ Head(models) = model /\ DOMAIN models = {1}
        /\ models[1] = model /\ ToSet(models) = {model}
    <3>1. /\ models \in Seq({model}) /\ models # <<>> /\ Head(models) = model /\ DOMAIN models = {1}
          /\ models[1] = model
      BY <2>6
    <3>. QED BY <3>1 DEF ToSet
  <2>8. o \in ToSet(model.offers) /\ o.url # "none"
    <3>1. /\ model.offers \in Seq(ToSet(model.offers))
          /\ \A x \in ToSet(model.offers) : x.url # "none"
      BY <2>5, ModelIs
    <3>2. o \in selectSharedProtocol(models, SupportedProtocols[agent])
      BY <1>3, <2>6
    <3>3. \A e \in ToSet(models) : o \in ToSet(e.offers)
      BY <2>7, <3>1, <3>2, EndpointIs
    <3>. QED BY <2>7, <3>1, <3>3
  <2>9. PICK c, ids : c = call' /\ ids = [n \in DOMAIN models |-> models[n].id]
    OBVIOUS
  <2>10. /\ c.command = "connect" /\ c.wire = call.wire /\ c.offered = catalog
         /\ c.ids = ids /\ c.intent.endpoint = o
    <3>1. ~ bindingThatSurvives("connect", o)
      BY DEF bindingThatSurvives
    <3>2. /\ call'.command = "connect" /\ call'.wire = call.wire /\ call'.offered = catalog
          /\ call'.ids = ids /\ call'.intent = connectionIntent(models, o, call.intent.helper)
      BY <2>1, <2>6, <2>9, <3>1, StartedIs
    <3>. QED BY <2>9, <3>2 DEF connectionIntent
  <2>11. ids \in Seq(ToSet(ids)) /\ ids # <<>> /\ ToSet(ids) = {id}
    <3>. DEFINE V == {ids[n] : n \in DOMAIN models}
    <3>1. ids \in [DOMAIN models -> V] /\ \A n \in DOMAIN models : ids[n] = models[n].id
      BY <2>9
    <3>2. ids \in Seq(ToSet(ids)) /\ ids # <<>> /\ ToSet(ids) = {ids[n] : n \in DOMAIN models}
      BY <2>7, <3>1, ImageIs
    <3>. QED BY <2>5, <2>7, <3>1, <3>2
  <2>12. NowOf(c, id) = {model}
    <3>1. NowOf(c, id) = IF now # {} THEN now ELSE {ModelOf(id, call.wire)}
      BY <1>1, <2>2, <2>10 DEF NowOf
    <3>2. CASE now # {}
      <4>1. model \in now
        BY <1>2, <3>2
      <4>2. \A e \in now : e = model
        BY <1>1, <2>2, <4>1, IdsName
      <4>. QED BY <3>1, <3>2, <4>1, <4>2
    <3>3. CASE now = {}
      BY <1>2, <3>1, <3>3
    <3>. QED BY <3>2, <3>3
  <2>13. ChoiceIs(c)
    BY <2>2, <2>4, <2>8, <2>10, <2>11, <2>12 DEF ChoiceIs
  <2>14. CoversIs(c, bound)
    BY <2>10 DEF CoversIs
  <2>. QED BY <2>9, <2>13, <2>14
<1>. QED BY <1>1, <1>2, <1>3, <1>4, <1>5, Zenon DEF Confirm

(* The steps of a command in hand up to the write.                         *)
LEMMA MovesOn ==
  ASSUME Sound, Chosen, NEW phase \in InHand, call.phase \in InHand,
         phase \in Pending => call.phase \in Pending,
         NEW d, d.phase = phase,
         d.wire = call.wire, d.offered = call.offered, d.ids = call.ids, d.intent = call.intent,
         d.command = call.command
  PROVE  ChoiceIs(d) /\ CoversIs(d, bound)
BY GoesOn DEF Chosen

LEMMA RefusedChosen ==
  ASSUME Refuse
  PROVE  ChoiceIs(call') /\ (\A b : CoversIs(call', b)) /\ call'.phase # "launched"
<1>1. call'.phase = "refused"
  BY RefusedIs
<1>. QED BY <1>1, OverIs, PhasesAre

LEMMA DetectChosen ==
  ASSUME Sound, Chosen, Detect
  PROVE  Chosen'
<1>1. UNCHANGED fixed /\ bound' = bound /\ last' = last
  BY DEF Detect
<1>2. PICK t, x : \/ Refuse
                  \/ call' = [call EXCEPT !.phase = "detected", !.target = t, !.exists = x]
  BY DEF Detect
<1>3. CASE call' = [call EXCEPT !.phase = "detected", !.target = t, !.exists = x]
  <2>1. /\ call'.phase = "detected" /\ call'.wire = call.wire /\ call'.offered = call.offered
        /\ call'.ids = call.ids /\ call'.intent = call.intent /\ call'.command = call.command
    BY <1>3, IdleIs DEF Sound, CallIs
  <2>2. "detected" \in Pending /\ call.phase \in Pending /\ Pending \subseteq InHand
    BY PhasesAre DEF Detect
  <2>3. ChoiceIs(call') /\ CoversIs(call', bound)
    BY <2>1, <2>2, MovesOn
  <2>. QED BY <1>1, <2>1, <2>3, ChosenStep DEF Chosen
<1>. QED BY <1>1, <1>2, <1>3, RefusedChosen, ChosenStep DEF Chosen

LEMMA InspectChosen ==
  ASSUME Sound, Chosen, InspectIt
  PROVE  Chosen'
<1>1. UNCHANGED fixed /\ bound' = bound /\ last' = last
  BY DEF InspectIt
<1>2. PICK i : \/ Refuse
               \/ call' = [call EXCEPT !.phase = "inspected", !.status = i]
  BY DEF InspectIt
<1>3. CASE call' = [call EXCEPT !.phase = "inspected", !.status = i]
  <2>1. /\ call'.phase = "inspected" /\ call'.wire = call.wire /\ call'.offered = call.offered
        /\ call'.ids = call.ids /\ call'.intent = call.intent /\ call'.command = call.command
    BY <1>3, IdleIs DEF Sound, CallIs
  <2>2. "inspected" \in Pending /\ call.phase \in Pending /\ Pending \subseteq InHand
    BY PhasesAre DEF InspectIt
  <2>3. ChoiceIs(call') /\ CoversIs(call', bound)
    BY <2>1, <2>2, MovesOn
  <2>. QED BY <1>1, <2>1, <2>3, ChosenStep DEF Chosen
<1>. QED BY <1>1, <1>2, <1>3, RefusedChosen, ChosenStep DEF Chosen

(* What is saved covers what the command writes and, where the key stays,  *)
(* all that it covered.                                                    *)
LEMMA SavedIs ==
  ASSUME Sound, Chosen, call.phase \in InHand
  PROVE  /\ BindingIs(Saved)
         /\ ToSet(Saved.ids) = IF bindingThatSurvives(call.command, call.intent.endpoint)
                               THEN ToSet(call.ids) \cup ToSet(bound.ids) ELSE ToSet(call.ids)
<1>1. PICK ids, more, rest :
        /\ rest = ToSet(bound.ids) \ ToSet(call.ids)
        /\ more = Among(bound.ids, rest)
        /\ ids = IF bindingThatSurvives(call.command, call.intent.endpoint) THEN call.ids \o more ELSE call.ids
  OBVIOUS
<1>2. DOMAIN Saved = DOMAIN NoBinding /\ Saved.ids = ids
  BY <1>1, NoBindingIs DEF Saved
<1>3. call.ids \in Seq(ToSet(call.ids)) /\ bound.ids \in Seq(ToSet(bound.ids))
  BY DEF Chosen, ChoiceIs, BindingIs
<1>4. more \in Seq(ToSet(bound.ids) \cap rest) /\ ToSet(more) = ToSet(bound.ids) \cap rest
  BY <1>1, <1>3, AmongIs
<1>5. PICK S : S = ToSet(call.ids) \cup ToSet(bound.ids)
  OBVIOUS
<1>6. call.ids \in Seq(S) /\ more \in Seq(S)
  BY <1>3, <1>4, <1>5
<1>7. call.ids \o more \in Seq(S) /\ ToSet(call.ids \o more) = ToSet(call.ids) \cup ToSet(more)
  BY <1>6, BothAre
<1>8. ids \in Seq(S)
  BY <1>1, <1>6, <1>7
<1>9. ids \in Seq(ToSet(ids))
  BY <1>8, ToSetIs
<1>10. ToSet(ids) = IF bindingThatSurvives(call.command, call.intent.endpoint)
                    THEN ToSet(call.ids) \cup ToSet(bound.ids) ELSE ToSet(call.ids)
  BY <1>1, <1>4, <1>7
<1>. QED BY <1>2, <1>9, <1>10 DEF BindingIs

LEMMA PlanChosen ==
  ASSUME Sound, Chosen, Plan
  PROVE  Chosen'
<1>0. UNCHANGED fixed
  BY DEF Plan
<1>1. CASE Refuse
  <2>1. UNCHANGED <<bound, last>>
    <3>1. call'.phase = "refused"
      BY <1>1, RefusedIs
    <3>2. \/ UNCHANGED <<bound, last>>
          \/ call' = [call EXCEPT !.phase = IF call.exists /\ Edited(agent, Read, call.intent) = Read
                                            THEN "connected" ELSE "planned",
                                  !.before = Read, !.content = Edited(agent, Read, call.intent)]
      BY Zenon DEF Plan
    <3>3. PICK ph, r, e : \/ UNCHANGED <<bound, last>>
                          \/ /\ call' = [call EXCEPT !.phase = ph, !.before = r, !.content = e]
                             /\ ph \in {"connected", "planned"}
      BY <3>2
    <3>4. call'.phase = "refused" /\ call' = [call EXCEPT !.phase = ph, !.before = r, !.content = e]
            => ph = "refused"
      BY IdleIs DEF Sound, CallIs
    <3>. QED BY <3>1, <3>3, <3>4
  <2>. QED BY <1>0, <1>1, <2>1, RefusedChosen, ChosenStep DEF Chosen
<1>2. CASE ~ Refuse
  <2>1. /\ call'.phase \in {"planned", "connected"}
        /\ call'.phase = "connected" => bound' = Saved /\ last' = [last EXCEPT !.previous = NoBinding]
        /\ call'.phase = "planned" => bound' = bound /\ last' = last
        /\ call'.intent = call.intent /\ call'.ids = call.ids
        /\ call'.wire = call.wire /\ call'.offered = call.offered /\ call'.command = call.command
    BY <1>2, PlannedIs
  <2>2. {"planned", "connected"} \subseteq InHand /\ call.phase \in Pending /\ Pending \subseteq InHand
    BY PhasesAre DEF Plan
  <2>3. ChoiceIs(call') /\ CoversIs(call', bound)
    BY <2>1, <2>2, MovesOn
  <2>4. CASE call'.phase = "planned"
    BY <1>0, <2>1, <2>3, <2>4, ChosenStep DEF Chosen
  <2>5. CASE call'.phase = "connected"
    <3>1. CoversIs(call', bound')
      BY <2>5 DEF CoversIs, Pending
    <3>2. BindingIs(bound')
      BY <2>1, <2>2, <2>5, SavedIs
    <3>3. BindingIs(last'.previous)
      <4>1. last'.previous = NoBinding
        BY <2>1, <2>5, NoBindingIs DEF Sound, TransactionIs
      <4>. QED BY <4>1, NoBindingIs
    <3>. QED BY <1>0, <2>3, <2>5, <3>1, <3>2, <3>3, ChosenStep
  <2>. QED BY <2>1, <2>4, <2>5
<1>. QED BY <1>1, <1>2

LEMMA WriteChosen ==
  ASSUME Sound, Chosen, Write
  PROVE  Chosen'
<1>1. UNCHANGED fixed /\ bound' = bound /\ call.phase = "planned"
  BY DEF Write
<1>2. CASE Refuse /\ UNCHANGED <<disk, last>>
  BY <1>1, <1>2, RefusedChosen, ChosenStep DEF Chosen
<1>3. CASE /\ last' = [target |-> call.target, before |-> call.before, after |-> call.content,
                       previous |-> bound]
           /\ call' = [call EXCEPT !.phase = "written"]
  <2>1. /\ call'.phase = "written" /\ call'.wire = call.wire /\ call'.offered = call.offered
        /\ call'.ids = call.ids /\ call'.intent = call.intent /\ call'.command = call.command
    BY <1>3, IdleIs DEF Sound, CallIs
  <2>2. "written" \in Pending /\ call.phase \in Pending /\ Pending \subseteq InHand
    BY <1>1, PhasesAre
  <2>3. ChoiceIs(call') /\ CoversIs(call', bound)
    BY <2>1, <2>2, MovesOn
  <2>4. last'.previous = bound
    BY <1>3
  <2>. QED BY <1>1, <2>1, <2>3, <2>4, ChosenStep DEF Chosen
<1>. QED BY <1>2, <1>3 DEF Write

LEMMA VerifyChosen ==
  ASSUME Sound, Chosen, Verify
  PROVE  Chosen'
<1>1. UNCHANGED fixed /\ last' = last /\ call.phase = "written"
  BY DEF Verify
<1>2. PICK ph : /\ ph \in {"connected", "undoing"} /\ call' = [call EXCEPT !.phase = ph]
                /\ bound' = IF ph = "connected" THEN Saved ELSE bound
  <2>1. PICK v \in BOOLEAN : /\ call' = [call EXCEPT !.phase = IF v THEN "connected" ELSE "undoing"]
                            /\ bound' = IF v THEN Saved ELSE bound
    BY Zenon DEF Verify
  <2>. QED BY <2>1
<1>3. /\ call'.phase = ph /\ call'.wire = call.wire /\ call'.offered = call.offered
      /\ call'.ids = call.ids /\ call'.intent = call.intent /\ call'.command = call.command
  BY <1>2, IdleIs DEF Sound, CallIs
<1>4. ph \in InHand /\ call.phase \in Pending /\ Pending \subseteq InHand
  BY <1>1, <1>2, PhasesAre
<1>5. ChoiceIs(call') /\ CoversIs(call', bound)
  BY <1>3, <1>4, MovesOn
<1>6. CoversIs(call', bound') /\ BindingIs(bound')
  <2>1. CASE ph = "connected"
    <3>1. CoversIs(call', bound')
      BY <1>3, <2>1 DEF CoversIs, Pending
    <3>2. BindingIs(bound')
      BY <1>2, <1>4, <2>1, SavedIs
    <3>. QED BY <3>1, <3>2
  <2>2. CASE ph # "connected"
    BY <1>2, <1>5, <2>2 DEF Chosen
  <2>. QED BY <2>1, <2>2
<1>. QED BY <1>1, <1>2, <1>3, <1>5, <1>6, ChosenStep DEF Chosen

LEMMA UndoChosen ==
  ASSUME Sound, Chosen, Undo
  PROVE  Chosen'
<1>1. UNCHANGED fixed /\ bound' = bound
  BY DEF Undo
<1>2. CASE Refuse /\ UNCHANGED <<disk, last>>
  BY <1>1, <1>2, RefusedChosen, ChosenStep DEF Chosen
<1>3. CASE last' = NoTransaction /\ call' = [Idle EXCEPT !.phase = "rolled-back"]
  <2>1. call'.phase = "rolled-back"
    BY <1>3, IdleIs
  <2>2. ChoiceIs(call') /\ CoversIs(call', bound)
    BY <2>1, OverIs, PhasesAre
  <2>. QED BY <1>1, <1>3, <2>1, <2>2, NoBindingIs, ChosenStep DEF Chosen
<1>. QED BY <1>2, <1>3 DEF Undo

LEMMA LaunchChosen ==
  ASSUME Sound, Chosen, Launch
  PROVE  Chosen'
<1>1. UNCHANGED fixed /\ bound' = bound /\ last' = last /\ call.phase = "connected"
  BY DEF Launch
<1>2. CASE Refuse
  BY <1>1, <1>2, RefusedChosen, ChosenStep DEF Chosen
<1>3. CASE Executable(agent, world) # "none" /\ call' = [call EXCEPT !.phase = "launched"]
  <2>1. /\ call'.phase = "launched" /\ call'.wire = call.wire /\ call'.offered = call.offered
        /\ call'.ids = call.ids /\ call'.intent = call.intent /\ call'.command = call.command
    BY <1>3, IdleIs DEF Sound, CallIs
  <2>2. {"launched", "connected"} \subseteq InHand /\ "launched" \notin Pending
    BY PhasesAre DEF Pending
  <2>3. ChoiceIs(call') /\ CoversIs(call', bound)
    BY <1>1, <2>1, <2>2, MovesOn
  <2>. QED BY <1>1, <1>3, <2>3, ChosenStep DEF Chosen
<1>. QED BY <1>2, <1>3 DEF Launch

LEMMA AgentRunsChosen ==
  ASSUME Sound, Chosen, AgentRuns
  PROVE  Chosen'
<1>1. UNCHANGED fixed /\ bound' = bound /\ last' = last
  BY DEF AgentRuns
<1>2. call'.phase = "exited"
  BY IdleIs DEF AgentRuns, Sound, CallIs
<1>3. ChoiceIs(call') /\ CoversIs(call', bound)
  BY <1>2, OverIs, PhasesAre
<1>. QED BY <1>1, <1>2, <1>3, ChosenStep DEF Chosen

LEMMA RestoreChosen ==
  ASSUME Sound, Chosen, Restore
  PROVE  Chosen'
<1>1. UNCHANGED fixed /\ call' = Idle
  BY DEF Restore
<1>2. call'.phase = "idle" /\ ChoiceIs(call') /\ \A b : CoversIs(call', b)
  BY <1>1, IdleIs, OverIs, PhasesAre
<1>3. BindingIs(bound') /\ BindingIs(last'.previous)
  <2>1. CASE UNCHANGED <<disk, last, bound>>
    BY <2>1 DEF Chosen
  <2>2. CASE /\ last' = NoTransaction
             /\ bound' = IF last.previous = NoBinding THEN NoBinding
                         ELSE [last.previous EXCEPT !.kind = "runtime"]
    <3>1. PICK b : b = last.previous
      OBVIOUS
    <3>2. BindingIs(b)
      BY <3>1 DEF Chosen
    <3>3. BindingIs([b EXCEPT !.kind = "runtime"])
      BY <3>2, NoBindingIs DEF BindingIs
    <3>. QED BY <2>2, <3>1, <3>3, NoBindingIs
  <2>. QED BY <2>1, <2>2 DEF Restore
<1>. QED BY <1>1, <1>2, <1>3, ChosenStep

LEMMA NextChosen ==
  ASSUME Sound, Chosen, [Next]_vars
  PROVE  Chosen'
<1>1. ASSUME UNCHANGED fixed, call' = call, bound' = bound, last' = last PROVE Chosen'
  BY <1>1, ChosenStep DEF Chosen
<1>2. ASSUME UNCHANGED fixed, bound' = bound, last' = last, ChoiceIs(call'), CoversIs(call', bound),
             call'.phase # "launched"
      PROVE  Chosen'
  BY <1>2, ChosenStep DEF Chosen
<1>3. CASE UNCHANGED vars \/ UserEdits \/ UserTakesBack \/ HubChanges
  BY <1>1, <1>3 DEF vars, fixed, UserEdits, UserTakesBack, HubChanges
<1>4. CASE \E command \in {"connect", "run", "switch"}, config \in {"none", "fitting", "odd"},
              references \in Selections, helper \in BOOLEAN : Choose(command, config, references, helper)
  <2>1. PICK command \in {"connect", "run", "switch"}, config \in {"none", "fitting", "odd"},
             references \in Selections, helper \in BOOLEAN : Choose(command, config, references, helper)
    BY <1>4
  <2>2. UNCHANGED fixed /\ bound' = bound /\ last' = last
    BY <2>1 DEF Choose
  <2>3. ChoiceIs(call') /\ CoversIs(call', bound)
    BY <2>1, ChooseChosen
  <2>4. call'.phase # "launched"
    <3>1. \/ Refuse
          \/ \E w, s, o : StartWith(command, config, w, s, o, helper)
      BY <2>1, Zenon DEF Choose
    <3>. QED BY <3>1, RefusedIs, StartedIs
  <2>. QED BY <1>2, <2>2, <2>3, <2>4
<1>5. CASE Confirm
  <2>1. UNCHANGED fixed /\ bound' = bound /\ last' = last
    BY <1>5 DEF Confirm
  <2>2. ChoiceIs(call') /\ CoversIs(call', bound)
    BY <1>5, ConfirmChosen
  <2>3. call'.phase # "launched"
    <3>1. \/ Refuse
          \/ \E c, f, w, s, o, h : StartWith(c, f, w, s, o, h)
      BY <1>5, Zenon DEF Confirm
    <3>. QED BY <3>1, RefusedIs, StartedIs
  <2>. QED BY <1>2, <2>1, <2>2, <2>3
<1>. QED
  BY <1>3, <1>4, <1>5, DetectChosen, InspectChosen, PlanChosen, WriteChosen, VerifyChosen, UndoChosen,
     LaunchChosen, AgentRunsChosen, RestoreChosen DEF Next

LEMMA ChosenAlways == Spec => [](Sound /\ Chosen)
<1>. QED BY InitSound, NextSound, InitChosen, NextChosen, PTL DEF Spec

LEMMA ServedIs == Chosen => WrittenModelsAreServed
<1>. SUFFICES ASSUME Chosen, call.phase = "connected", NEW id \in ToSet(call.ids)
              PROVE  LET wire == Catalogs[call.wire] IN
                     /\ \E e \in ToSet(wire.entries) :
                          /\ e.id = id /\ Usable(e)
                          /\ e.of \in ToSet(wire.rows) => EntriesOf(wire, e.of) = {e}
                     /\ LET now == {e \in ModelsOf(call.offered) : e.id = id} IN
                        \A e \in IF now # {} THEN now ELSE {ModelOf(id, call.wire)} :
                          call.intent.endpoint \in ToSet(e.offers)
  BY DEF WrittenModelsAreServed
<1>1. /\ call.wire \in DOMAIN Catalogs
      /\ \E e \in ModelsOf(call.wire) : e.id = id /\ Usable(e)
      /\ \A e \in NowOf(call, id) : call.intent.endpoint \in ToSet(e.offers)
  BY PhasesAre DEF Chosen, ChoiceIs
<1>2. PICK e \in ModelsOf(call.wire) : e.id = id /\ Usable(e)
  BY <1>1
<1>3. /\ e \in ToSet(Catalogs[call.wire].entries)
      /\ e.of \in ToSet(Catalogs[call.wire].rows) => EntriesOf(Catalogs[call.wire], e.of) = {e}
  BY <1>1, ModelIs
<1>. QED BY <1>1, <1>2, <1>3 DEF NowOf

(* Whatever Hub answers between the preview and the write, a connection    *)
(* is written for models it could call, at an address that serves them     *)
(* (joinCatalog, selectSharedProtocol, modelsAfterSwitch, executeConnect). *)
THEOREM WritesWhatIsServed == Spec => []WrittenModelsAreServed
<1>. QED BY ChosenAlways, ServedIs, PTL

-----------------------------------------------------------------------------
(* A switch *)

LEMMA OnlyTheseConnect ==
  ASSUME Sound, [Next]_vars, call'.phase = "connected", call.phase # "connected"
  PROVE  Plan \/ Verify
<1>1. ~ Refuse
  BY RefusedIs
<1>2. \A command, config, wire, selected, o, helper :
        ~ StartWith(command, config, wire, selected, o, helper)
  BY StartedIs
<1>3. \A command, config, references, helper : ~ Choose(command, config, references, helper)
  BY <1>1, <1>2, Zenon DEF Choose
<1>4. ~ Confirm
  BY <1>1, <1>2, Zenon DEF Confirm
<1>5. ~ Detect
  BY <1>1, IdleIs DEF Detect, Sound, CallIs
<1>6. ~ InspectIt
  BY <1>1, IdleIs DEF InspectIt, Sound, CallIs
<1>7. ~ Write /\ ~ Launch
  BY <1>1, IdleIs DEF Write, Launch, Sound, CallIs
<1>8. ~ Undo /\ ~ Restore
  BY <1>1, IdleIs DEF Undo, Restore
<1>9. ~ AgentRuns
  BY IdleIs DEF AgentRuns, Sound, CallIs
<1>10. ~ UserEdits /\ ~ UserTakesBack /\ ~ HubChanges /\ ~ UNCHANGED vars
  BY DEF UserEdits, UserTakesBack, HubChanges, vars
<1>. QED BY <1>3, <1>4, <1>5, <1>6, <1>7, <1>8, <1>9, <1>10, Zenon DEF Next

LEMMA ConnectedIs ==
  ASSUME Sound, Chosen, [Next]_vars, call'.phase = "connected", call.phase # "connected"
  PROVE  /\ call.phase \in Pending /\ bound' = Saved
         /\ agent = "opencode" => call'.content.models = ToSet(call.intent.models)
<1>1. CASE Plan
  <2>1. ~ Refuse
    BY RefusedIs
  <2>2. PICK r : r = Read
    OBVIOUS
  <2>3. bound' = Saved /\ IsDoc(r) /\ call'.content = Edited(agent, r, call.intent)
    BY <1>1, <2>1, <2>2, PlannedIs
  <2>6. PICK i : i = call.intent
    OBVIOUS
  <2>8. agent = "opencode" => Edited(agent, r, i).models = ToSet(i.models)
    BY <2>3, ModelsAreWritten
  <2>4. agent = "opencode" => call'.content.models = ToSet(call.intent.models)
    BY <2>3, <2>6, <2>8
  <2>5. call.phase \in Pending
    BY <1>1, PhasesAre DEF Plan
  <2>. QED BY <2>3, <2>4, <2>5
<1>2. CASE Verify
  <2>1. call.phase = "written" /\ call.phase \in Pending /\ call.phase \in Drafted
    BY <1>2, PhasesAre DEF Verify, Drafted
  <2>2. PICK v \in BOOLEAN : /\ call' = [call EXCEPT !.phase = IF v THEN "connected" ELSE "undoing"]
                             /\ bound' = IF v THEN Saved ELSE bound
    BY <1>2, Zenon DEF Verify
  <2>3. call'.phase = (IF v THEN "connected" ELSE "undoing") /\ call'.content = call.content
    BY <2>2, IdleIs DEF Sound, CallIs
  <2>4. PICK b, i : b = call.before /\ i = call.intent
    OBVIOUS
  <2>5. IsDoc(b) /\ call.content = Edited(agent, b, i)
    BY <2>1, <2>4 DEF Sound, CallIs
  <2>6. agent = "opencode" => call.content.models = ToSet(i.models)
    BY <2>5, ModelsAreWritten
  <2>. QED BY <2>1, <2>2, <2>3, <2>4, <2>6
<1>. QED BY <1>1, <1>2, OnlyTheseConnect

(* A run or a switch that keeps the key neither loses a model the key      *)
(* covers nor leaves one out of the file of OpenCode that is still served  *)
(* (modelsAfterSwitch, bindingThatSurvives: agent-workflow.ts:624).        *)
THEOREM SwitchLosesNothing == Spec => SwitchKeepsTheSet
<1>1. ASSUME Sound, Chosen, [Next]_vars,
             call'.phase = "connected", call.phase # "connected", call.command # "connect"
      PROVE  /\ bound.kind = "user" /\ bound.protocol = call.intent.endpoint.protocol =>
                  ToSet(bound.ids) \subseteq ToSet(bound'.ids)
             /\ agent = "opencode" =>
                  call'.content.models =
                    {ModelOf(id, call.offered).alias : id \in {i \in ToSet(bound'.ids) : StillServed(i)}}
  <2>1. /\ call.phase \in Pending /\ call.phase \in InHand /\ bound' = Saved
        /\ agent = "opencode" => call'.content.models = ToSet(call.intent.models)
    BY <1>1, ConnectedIs, PhasesAre
  <2>2. PICK keeps : keeps = bindingThatSurvives(call.command, call.intent.endpoint)
    OBVIOUS
  <2>3. keeps = (bound.kind = "user" /\ bound.protocol = call.intent.endpoint.protocol)
    BY <1>1, <2>2 DEF bindingThatSurvives
  <2>4. ToSet(bound'.ids) = IF keeps THEN ToSet(call.ids) \cup ToSet(bound.ids) ELSE ToSet(call.ids)
    BY <1>1, <2>1, <2>2, SavedIs
  <2>5. /\ call.offered = call.wire /\ call.wire \in DOMAIN Catalogs
        /\ ToSet(call.intent.models) = {ModelOf(id, call.offered).alias : id \in ToSet(call.ids)}
        /\ \A id \in ToSet(call.ids) : /\ \E e \in ModelsOf(call.wire) : e.id = id /\ Usable(e)
                                       /\ \A e \in NowOf(call, id) : call.intent.endpoint \in ToSet(e.offers)
    BY <1>1, <2>1 DEF Chosen, ChoiceIs
  <2>6. ASSUME NEW id \in ToSet(call.ids) PROVE StillServed(id)
    <3>1. PICK e \in ModelsOf(call.offered) : e.id = id /\ Usable(e)
      BY <2>5
    <3>2. e \in NowOf(call, id)
      BY <3>1 DEF NowOf
    <3>. QED BY <2>5, <3>1, <3>2 DEF StillServed
  <2>7. keeps => \A id \in ToSet(bound.ids) : StillServed(id) => id \in ToSet(call.ids)
    BY <1>1, <2>1, <2>3 DEF Chosen, CoversIs, ServedTo, StillServed
  <2>8. {i \in ToSet(bound'.ids) : StillServed(i)} = ToSet(call.ids)
    BY <2>4, <2>6, <2>7
  <2>. QED BY <2>1, <2>3, <2>4, <2>5, <2>8
<1>2. ASSUME Sound, Chosen, [Next]_vars
      PROVE  [call'.phase = "connected" /\ call.phase # "connected" /\ call.command # "connect" =>
                /\ bound.kind = "user" /\ bound.protocol = call.intent.endpoint.protocol =>
                     ToSet(bound.ids) \subseteq ToSet(bound'.ids)
                /\ agent = "opencode" =>
                     call'.content.models =
                       {ModelOf(id, call.offered).alias : id \in {i \in ToSet(bound'.ids) : StillServed(i)}}]_vars
  BY <1>1, <1>2
<1>. QED BY <1>2, ChosenAlways, PTL DEF Spec, SwitchKeepsTheSet

-----------------------------------------------------------------------------
(* A launch *)

(* The first of the wanted kinds on the PATH is of a wanted kind and there. *)
LEMMA FirstOfIs ==
  ASSUME NEW S, world.path \in Seq(S), NEW kinds, NEW x, x = FirstOf(world, kinds), x # "none"
  PROVE  x \in kinds /\ x \in ToSet(world.path)
<1>1. PICK s : s = world.path
  OBVIOUS
<1>2. PICK n : n = OnPath(world, kinds)
  OBVIOUS
<1>3. PICK I : I = {i \in 1..Len(s) : s[i] \in kinds}
  OBVIOUS
<1>4. n = IF I # {} THEN Min(I) ELSE 0
  BY <1>1, <1>2, <1>3 DEF OnPath, SelectInSeq
<1>5. n # 0 /\ x = s[n]
  BY <1>1, <1>2 DEF FirstOf
<1>6. s \in Seq(S) /\ I \subseteq 1..Len(s)
  BY <1>1, <1>3
<1>7. n \in I /\ n \in 1..Len(s)
  BY <1>4, <1>5, <1>6, SelectedIs
<1>8. x \in kinds
  BY <1>3, <1>5, <1>7
<1>9. n \in DOMAIN s
  BY <1>6, <1>7
<1>. QED BY <1>1, <1>5, <1>8, <1>9 DEF ToSet

LEMMA StartedAs ==
  ASSUME KnownAgent, world \in Worlds, Executable(agent, world) # "none"
  PROVE  /\ ~ PackageAside => IsTheProbed
         /\ Started(world, Executable(agent, world)) # "shim"
         /\ agent = "opencode" => ToSet(world.path) # {"foreign"}
<1>1. PICK x : x = Executable(agent, world)
  OBVIOUS
<1>2. PICK s : s = world.path
  OBVIOUS
<1>3. CASE world.windows
  <2>1. s \in Seq({"exe", "npm", "shim"})
    BY <1>2, <1>3, WorldsAssumption
  <2>2. PICK kinds \in {{"exe"}, {"exe", "npm"}} : x = FirstOf(world, kinds)
    BY <1>1, <1>3, AgentIs
       DEF Executable, resolveCodexExecutable, resolveClaudeCodeExecutable, resolveOpenCodeExecutable,
           hermesExecutable
  <2>3. x \in kinds /\ x \in ToSet(s)
    BY <1>1, <1>2, <2>1, <2>2, FirstOfIs
  <2>4. x \in {"exe", "npm"}
    BY <2>2, <2>3
  <2>5. Started(world, x) = x
    BY <2>4 DEF Started
  <2>6. s # <<>>
    BY <2>3 DEF ToSet
  <2>7. ASSUME ~ PackageAside PROVE x = defaultProbe(world)
    <3>1. CASE x = "exe"
      BY <1>2, <1>3, <2>3, <3>1 DEF defaultProbe
    <3>2. CASE x = "npm"
      <4>1. "exe" \notin ToSet(s) /\ Head(s) = "npm"
        BY <1>1, <1>2, <1>3, <2>7, <3>2 DEF PackageAside
      <4>. QED BY <1>2, <2>6, <3>2, <4>1 DEF defaultProbe
    <3>. QED BY <2>4, <3>1, <3>2
  <2>8. ToSet(s) # {"foreign"}
    BY <2>3, <2>4
  <2>. QED BY <1>1, <1>2, <2>4, <2>5, <2>7, <2>8 DEF IsTheProbed
<1>4. CASE ~ world.windows
  <2>1. s \in Seq({"native", "foreign"})
    BY <1>2, <1>4, WorldsAssumption
  <2>2. x = "bare"
    BY <1>1, <1>4, AgentIs
       DEF Executable, resolveCodexExecutable, resolveClaudeCodeExecutable, resolveOpenCodeExecutable,
           hermesExecutable
  <2>3. Started(world, x) = IF s = <<>> THEN "none" ELSE Head(s)
    BY <1>2, <2>2 DEF Started
  <2>4. Started(world, x) = defaultProbe(world)
    BY <1>2, <1>4, <2>3 DEF defaultProbe
  <2>5. s # <<>> => Head(s) \in {"native", "foreign"}
    BY <2>1
  <2>6. agent = "opencode" => ToSet(s) # {"foreign"}
    BY <1>1, <1>2, <1>4 DEF Executable, resolveOpenCodeExecutable, foreignInstallation
  <2>. QED BY <1>1, <1>2, <2>3, <2>4, <2>5, <2>6 DEF IsTheProbed
<1>. QED BY <1>3, <1>4

(* What is sent on a document as the plan left it.                         *)
LEMMA SendsWhatIsPlanned ==
  ASSUME KnownAgent, NEW d, NEW intent, IsDoc(d), NEW dotenv,
         intent.endpoint.url # "none", intent.endpoint.protocol \in SupportedProtocols[agent],
         NEW e, e = Edited(agent, d, intent), NEW sent, sent = Sends(agent, e, dotenv)
  PROVE  /\ sent.ours
         /\ sent.url = intent.endpoint.url
         /\ sent.protocol = intent.endpoint.protocol
         /\ sent.model = Default(intent)
         /\ sent.credential = "ours" \/ Inspect(agent, e, dotenv).warned
<1>1. /\ e.shape = "readable" /\ e.url = intent.endpoint.url /\ e.model = Default(intent)
      /\ agent # "claude" => e.selector = "ours" /\ e.credential = "ours"
      /\ agent = "codex" => e.protocol = "responses"
      /\ agent = "opencode" => e.protocol = intent.endpoint.protocol
      /\ agent = "hermes" => e.protocol = hermesApiMode(intent.endpoint.protocol)
      /\ agent = "claude" => /\ e.helper = HelperAfter(d, intent)
                             /\ e.marker = IF intent.helper THEN "managed-helper" ELSE "managed"
  BY ProviderIs
<1>2. /\ sent.ours = (e.url # "none" /\ (agent = "claude" \/ e.selector = "ours"))
      /\ sent.url = e.url /\ sent.model = e.model
      /\ sent.protocol = IF agent = "claude" THEN "messages" ELSE e.protocol
      /\ sent.credential = IF agent = "claude" THEN IF e.token THEN "other"
                                                    ELSE IF e.helper = "none" THEN "ours" ELSE e.helper
                           ELSE IF agent = "hermes" /\ dotenv THEN "other" ELSE e.credential
  BY DEF Sends
<1>3. sent.ours /\ sent.url = intent.endpoint.url /\ sent.model = Default(intent)
  BY <1>1, <1>2
<1>4. PICK p : p = intent.endpoint.protocol
  OBVIOUS
<1>5. sent.protocol = p
  <2>1. agent = "codex" => p = "responses"
    BY <1>4 DEF SupportedProtocols
  <2>2. agent = "claude" => p = "messages"
    BY <1>4 DEF SupportedProtocols
  <2>3. agent = "hermes" => hermesApiMode(p) = p
    BY <1>4 DEF SupportedProtocols, hermesApiMode
  <2>. QED BY <1>1, <1>2, <1>4, <2>1, <2>2, <2>3, AgentIs
<1>6. sent.credential = "ours" \/ Inspect(agent, e, dotenv).warned
  <2>1. CASE agent \in {"codex", "opencode"}
    BY <1>1, <1>2, <2>1
  <2>2. CASE agent = "hermes"
    <3>1. dotenv => inspectHermes(e, dotenv).warned
      BY <1>1 DEF inspectHermes, parseHermesConfig
    <3>. QED BY <1>1, <1>2, <2>2, <3>1 DEF Inspect
  <2>3. CASE agent = "claude"
    <3>1. inspectClaudeCode(e).warned =
            (\/ e.marker \notin {"managed", "managed-helper"}
             \/ e.token
             \/ e.helper # "none" /\ e.marker # "managed-helper")
      BY <1>1 DEF inspectClaudeCode, parseClaudeCodeSettings
    <3>2. e.marker = "managed-helper" => e.helper = "ours"
      BY <1>1, <2>3 DEF HelperAfter
    <3>. QED BY <1>2, <2>3, <3>1, <3>2 DEF Inspect
  <2>. QED BY <2>1, <2>2, <2>3, AgentIs
<1>. QED BY <1>3, <1>4, <1>5, <1>6

LEMMA LaunchedIs == Sound /\ Chosen => LaunchedAsConfigured
<1>. SUFFICES ASSUME Sound, Chosen, call.phase = "launched"
              PROVE  /\ ~ VariableAside => call.target \in ReadsNow
                     /\ ~ PackageAside => IsTheProbed
                     /\ disk[call.target] = call.content => AsChosen
                     /\ Started(world, Executable(agent, world)) # "shim"
                     /\ agent = "opencode" => ToSet(world.path) # {"foreign"}
  BY DEF LaunchedAsConfigured
<1>1. KnownAgent /\ world \in Worlds /\ Executable(agent, world) # "none"
  BY Known DEF Sound, Chosen
<1>2. ~ VariableAside => call.target \in ReadsNow
  BY DEF Sound, CallIs, Located, VariableAside, ReadsNow
<1>3. PICK b, i, e, sent : /\ b = call.before /\ i = call.intent /\ e = call.content
                           /\ sent = Sends(agent, e, world.dotenv)
  OBVIOUS
<1>4. IsDoc(b) /\ e = Edited(agent, b, i) /\ i.endpoint.protocol \in SupportedProtocols[agent]
  BY <1>3 DEF Sound, CallIs, Drafted
<1>5. i.endpoint.url # "none"
  BY <1>3, PhasesAre DEF Chosen, ChoiceIs
<1>6. /\ sent.ours
      /\ sent.url = i.endpoint.url
      /\ sent.protocol = i.endpoint.protocol
      /\ sent.model = Default(i)
      /\ sent.credential = "ours" \/ Inspect(agent, e, world.dotenv).warned
  BY <1>1, <1>3, <1>4, <1>5, SendsWhatIsPlanned
<1>7. disk[call.target] = call.content => AsChosen
  BY <1>3, <1>6 DEF AsChosen
<1>. QED BY <1>1, <1>2, <1>7, StartedAs

(* An Agent that was launched reads the file the command wrote and, where  *)
(* nobody has changed it, sends as was chosen; it is the installation that *)
(* was probed (launch, in the adapters; process-probe.ts:118).             *)
THEOREM StartsWhatWasConfigured == Spec => []LaunchedAsConfigured
<1>. QED BY ChosenAlways, LaunchedIs, PTL
==============================================================================
