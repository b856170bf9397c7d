---------------------------- MODULE BacktestProofs ----------------------------
(***************************************************************************)
(* Proofs about Backtest and BacktestRuns for any experiments over finite  *)
(* documents, any securities and any number of commands.                   *)
(*                                                                         *)
(* A session of the engine is a composition of folds over sequences        *)
(* (actions, pending orders, positions to mark) and of a choice.  The      *)
(* first part shows that each fold has a trace of intermediate results,    *)
(* by induction over the natural numbers from WFMin; the second that a     *)
(* session maps states to states with the same fields and only extends     *)
(* what it has recorded; the third defines After(e, k), the state after k  *)
(* sessions of experiment e, and proves that every command that goes on    *)
(* and every checkpoint holds it: RunInv.  What a session keeps is an      *)
(* invariant of After(e, k), as OrderInv and AccountOK are, and so of      *)
(* every command.  ParsedInv keeps what a command has checked of the files *)
(* when it began.  The last part compares the run with the one over the    *)
(* inputs of an earlier day, step by step: their states are Twins.         *)
(***************************************************************************)
EXTENDS BacktestRuns, FiniteSetTheorems, SequenceTheorems, WellFoundedInduction, TLAPS

LEMMA NatInduct ==
    ASSUME NEW T, 0 \in T, \A n \in Nat : n \in T => n + 1 \in T
    PROVE  Nat \subseteq T
<1> DEFINE B == Nat \ T
<1>. SUFFICES ASSUME B # {} PROVE FALSE
    OBVIOUS
<1>1. PICK x \in B : \A y \in B : ~(<<y, x>> \in OpToRel(<, Nat))
    BY WFMin, NatLessThanWellFounded, Zenon
<1>2. x # 0 /\ x - 1 \in Nat /\ x - 1 < x
    OBVIOUS
<1>3. x - 1 \in B
    <2>1. x - 1 \in T => x - 1 + 1 \in T
        BY <1>2
    <2> QED  BY <2>1, <1>2
<1>4. <<x - 1, x>> \in OpToRel(<, Nat)
    BY <1>2 DEF OpToRel
<1> QED  BY <1>1, <1>3, <1>4

\* A property of 0 that is passed on up to n holds up to n.
LEMMA UpTo ==
    ASSUME NEW n \in Nat, NEW T, 0 \in T, \A m \in 0..n : m < n /\ m \in T => m + 1 \in T
    PROVE  0..n \subseteq T
<1> DEFINE U == {m \in Nat : m \in T \/ m > n}
<1>1. 0 \in U
    OBVIOUS
<1>2. \A m \in Nat : m \in U => m + 1 \in U
    OBVIOUS
<1>3. Nat \subseteq U
    <2> HIDE DEF U
    <2> QED  BY <1>1, <1>2, NatInduct
<1> QED  BY <1>3

\* A set of numbers up to n that is not empty has a largest one.
LEMMA HasLargest ==
    ASSUME NEW n \in Nat, NEW S, S \subseteq 0..n, S # {}
    PROVE  \E x \in S : \A y \in S : x >= y
<1> DEFINE T == {m \in Nat : \A R : R \subseteq 0..m /\ R # {} => \E x \in R : \A y \in R : x >= y}
<1>1. 0 \in T
    <2>1. ASSUME NEW R, R \subseteq 0..0, R # {} PROVE \E x \in R : \A y \in R : x >= y
        <3>1. PICK x : x \in R
            BY <2>1
        <3>2. \A y \in R : x >= y
            BY <2>1, <3>1
        <3> QED  BY <3>1, <3>2, Zenon
    <2> QED  BY <2>1
<1>2. ASSUME NEW m \in Nat, m \in T PROVE m + 1 \in T
    <2>1. SUFFICES ASSUME NEW R, R \subseteq 0..(m + 1), R # {}
                   PROVE  \E x \in R : \A y \in R : x >= y
        BY <1>2
    <2>2. CASE m + 1 \in R
        BY <2>1, <2>2
    <2>3. CASE m + 1 \notin R
        <3>1. R \subseteq 0..m
            BY <2>1, <2>3
        <3> QED  BY <3>1, <2>1, <1>2
    <2> QED  BY <2>2, <2>3
<1>3. Nat \subseteq T
    <2> HIDE DEF T
    <2> QED  BY <1>1, <1>2, NatInduct
<1> QED  BY <1>3

LEMMA MaxOf ==
    ASSUME NEW n \in Nat, NEW S, S \subseteq 0..n, S # {}
    PROVE  /\ Max(S) \in S /\ \A y \in S : Max(S) >= y
           /\ Largest(S) \in S /\ \A y \in S : Largest(S) >= y
<1>1. PICK x \in S : \A y \in S : x >= y
    BY HasLargest
<1>2. \A y \in S : y <= x
    BY <1>1
<1> QED  BY <1>1, <1>2, Zenon DEF Max, Largest

LEMMA MaxIsLast ==
    ASSUME NEW n \in Nat, NEW S, S \subseteq 1..n, n \in S
    PROVE  Max(S) = n
<1>1. S \subseteq 0..n /\ S # {}
    OBVIOUS
<1>2. Max(S) \in S /\ Max(S) >= n
    BY <1>1, MaxOf
<1>3. Max(S) \in 1..n
    BY <1>2
<1> QED  BY <1>2, <1>3

-----------------------------------------------------------------------------
(***************************************************************************)
(* What Sorted gives for a strict total order on a finite set: every       *)
(* element once, in order.  rank counts the elements before one.           *)
(***************************************************************************)
Orders(R, S) ==
    /\ \A x \in S : <<x, x>> \notin R
    /\ \A x, y, z \in S : <<x, y>> \in R /\ <<y, z>> \in R => <<x, z>> \in R
    /\ \A x, y \in S : x # y => <<x, y>> \in R \/ <<y, x>> \in R

Below(R, S, x) == {y \in S : <<y, x>> \in R}

LEMMA RankGrows ==
    ASSUME NEW S, IsFiniteSet(S), NEW R, Orders(R, S), NEW x \in S, NEW y \in S, <<x, y>> \in R
    PROVE  Cardinality(Below(R, S, x)) < Cardinality(Below(R, S, y))
<1>1. Below(R, S, x) \subseteq Below(R, S, y)
    BY DEF Below, Orders
<1>2. x \in Below(R, S, y) /\ x \notin Below(R, S, x)
    BY DEF Below, Orders
<1>3. IsFiniteSet(Below(R, S, y)) /\ IsFiniteSet(Below(R, S, x))
    BY FS_Subset DEF Below
<1>4. Cardinality(Below(R, S, x)) <= Cardinality(Below(R, S, y))
    BY <1>1, <1>3, FS_Subset
<1>5. Cardinality(Below(R, S, x)) # Cardinality(Below(R, S, y))
    BY <1>1, <1>2, <1>3, FS_Subset
<1>6. Cardinality(Below(R, S, x)) \in Nat /\ Cardinality(Below(R, S, y)) \in Nat
    BY <1>3, FS_CardinalityType
<1> QED  BY <1>4, <1>5, <1>6

LEMMA RankIsSmall ==
    ASSUME NEW S, IsFiniteSet(S), NEW R, Orders(R, S), NEW n, n = Cardinality(S), NEW x \in S
    PROVE  Cardinality(Below(R, S, x)) \in 0..(n - 1)
<1>1. Below(R, S, x) \subseteq S /\ x \notin Below(R, S, x)
    BY DEF Below, Orders
<1>2. IsFiniteSet(Below(R, S, x))
    BY FS_Subset DEF Below
<1>3. Cardinality(Below(R, S, x)) <= Cardinality(S) /\ Cardinality(Below(R, S, x)) # Cardinality(S)
    BY <1>1, <1>2, FS_Subset
<1>4. Cardinality(Below(R, S, x)) \in Nat /\ Cardinality(S) \in Nat
    BY <1>2, FS_CardinalityType
<1> QED  BY <1>3, <1>4

LEMMA EveryRank ==
    ASSUME NEW S, IsFiniteSet(S), NEW R, Orders(R, S), NEW n, n = Cardinality(S), NEW i \in 1..n
    PROVE  \E x \in S : Cardinality(Below(R, S, x)) = i - 1
<1> DEFINE f == [x \in S |-> Cardinality(Below(R, S, x))]
           Q == {f[x] : x \in S}
<1>1. n \in Nat
    BY FS_CardinalityType
<1>2. \A x \in S : f[x] \in 0..(n - 1)
    BY RankIsSmall
<1>3. \A x, y \in S : x # y => f[x] # f[y]
    <2>1. \A x, y \in S : <<x, y>> \in R => f[x] < f[y]
        BY RankGrows
    <2>2. \A x \in S : f[x] \in Int
        BY <1>1, <1>2
    <2> HIDE DEF f
    <2>3. ASSUME NEW x \in S, NEW y \in S, x # y PROVE f[x] # f[y]
        <3>1. <<x, y>> \in R \/ <<y, x>> \in R
            BY <2>3 DEF Orders
        <3>2. f[x] < f[y] \/ f[y] < f[x]
            BY <2>1, <3>1
        <3> QED  BY <2>2, <3>2
    <2> QED  BY <2>3
<1>4. f \in Bijection(S, Q)
    <2> HIDE DEF f
    <2>1. f = [x \in S |-> f[x]]
        BY DEF f
    <2> QED  BY <1>3, <2>1 DEF Bijection, Injection, Surjection, IsInjective
<1>5. IsFiniteSet(Q) /\ Cardinality(Q) = n
    <2> HIDE DEF f, Q
    <2> QED  BY <1>4, FS_Bijection DEF ExistsBijection
<1>6. Q \subseteq 0..(n - 1)
    <2> HIDE DEF f
    <2> QED  BY <1>2
<1>7. IsFiniteSet(0..(n - 1)) /\ Cardinality(0..(n - 1)) = n
    <2>1. n - 1 \in Int /\ (0 > n - 1 => n = 0) /\ (n - 1) - 0 + 1 = n
        BY <1>1
    <2> QED  BY <1>1, <2>1, FS_Interval
<1>8. Q = 0..(n - 1)
    BY <1>5, <1>6, <1>7, FS_Subset
<1>9. i - 1 \in Q
    BY <1>1, <1>8
<1> QED  BY <1>9

\* s goes through S in the order R.
Enumerates(s, S, R, n) ==
    /\ DOMAIN s = 1..n
    /\ S = {s[i] : i \in 1..n}
    /\ \A i, j \in 1..n : i < j => <<s[i], s[j]>> \in R /\ s[i] # s[j]

LEMMA SortedEnumerates ==
    ASSUME NEW S, IsFiniteSet(S), NEW R, Orders(R, S), NEW n, n = Cardinality(S),
           NEW s, s = [i \in 1..n |-> CHOOSE x \in S : Cardinality(Below(R, S, x)) = i - 1]
    PROVE  Enumerates(s, S, R, n)
<1>1. n \in Nat
    BY FS_CardinalityType
<1>2. ASSUME NEW i \in 1..n PROVE s[i] \in S /\ Cardinality(Below(R, S, s[i])) = i - 1
    <2>1. s[i] = CHOOSE x \in S : Cardinality(Below(R, S, x)) = i - 1
        BY Zenon
    <2>2. \E x \in S : Cardinality(Below(R, S, x)) = i - 1
        BY EveryRank
    <2> QED  BY <2>1, <2>2, Zenon
<1>3. ASSUME NEW i \in 1..n, NEW j \in 1..n, i < j PROVE <<s[i], s[j]>> \in R /\ s[i] # s[j]
    <2>1. PICK x, y : x = s[i] /\ y = s[j]
        OBVIOUS
    <2>2. x \in S /\ y \in S /\ Cardinality(Below(R, S, x)) < Cardinality(Below(R, S, y))
        BY <1>1, <1>2, <1>3, <2>1
    <2>3. x # y
        BY <2>2, RankIsSmall
    <2>4. <<y, x>> \notin R
        <3>1. Cardinality(Below(R, S, x)) \in Int /\ Cardinality(Below(R, S, y)) \in Int
            BY <1>2, <2>1
        <3>2. SUFFICES ASSUME <<y, x>> \in R PROVE FALSE
            OBVIOUS
        <3>3. Cardinality(Below(R, S, y)) < Cardinality(Below(R, S, x))
            BY <2>2, <3>2, RankGrows
        <3> QED  BY <2>2, <3>1, <3>3
    <2> QED  BY <2>1, <2>2, <2>3, <2>4 DEF Orders
<1>4. ASSUME NEW x \in S PROVE \E i \in 1..n : x = s[i]
    <2>1. PICK i \in 1..n : Cardinality(Below(R, S, x)) = i - 1
        <3>1. Cardinality(Below(R, S, x)) \in 0..(n - 1)
            BY RankIsSmall
        <3>2. Cardinality(Below(R, S, x)) + 1 \in 1..n
            BY <1>1, <3>1
        <3> QED  BY <3>1, <3>2
    <2>2. s[i] \in S /\ Cardinality(Below(R, S, s[i])) = Cardinality(Below(R, S, x))
        BY <1>2, <2>1
    <2>3. x = s[i]
        <3>1. SUFFICES ASSUME x # s[i] PROVE FALSE
            OBVIOUS
        <3>2. <<x, s[i]>> \in R \/ <<s[i], x>> \in R
            BY <2>2, <3>1 DEF Orders
        <3>3. \/ Cardinality(Below(R, S, x)) < Cardinality(Below(R, S, s[i]))
              \/ Cardinality(Below(R, S, s[i])) < Cardinality(Below(R, S, x))
            BY <2>2, <3>2, RankGrows
        <3> QED  BY <2>1, <2>2, <3>3
    <2> QED  BY <2>3
<1>5. DOMAIN s = 1..n
    OBVIOUS
<1> QED  BY <1>2, <1>3, <1>4, <1>5 DEF Enumerates

-----------------------------------------------------------------------------
(***************************************************************************)
(* Sequences, and what Append and EXCEPT make of them.                     *)
(***************************************************************************)
IsSeq(s) == s \in Seq({s[i] : i \in DOMAIN s})

LEMMA SeqFacts ==
    ASSUME NEW s, IsSeq(s)
    PROVE  Len(s) \in Nat /\ DOMAIN s = 1..Len(s) /\ IsFiniteSet(DOMAIN s)
<1>1. Len(s) \in Nat /\ DOMAIN s = 1..Len(s)
    BY LenProperties DEF IsSeq
<1> QED  BY <1>1, FS_Interval

LEMMA FunctionIsSeq ==
    ASSUME NEW s, NEW n \in Nat, s = [i \in 1..n |-> s[i]]
    PROVE  IsSeq(s) /\ Len(s) = n
<1>1. DOMAIN s = 1..n
    OBVIOUS
<1>2. s \in [1..n -> {s[i] : i \in DOMAIN s}]
    BY <1>1
<1>3. IsSeq(s)
    BY <1>2, SeqDef DEF IsSeq
<1>4. Len(s) = n
    BY <1>1, <1>3, LenProperties DEF IsSeq
<1> QED  BY <1>3, <1>4

LEMMA AppendFacts ==
    ASSUME NEW s, IsSeq(s), NEW x
    PROVE  /\ IsSeq(Append(s, x)) /\ Len(Append(s, x)) = Len(s) + 1
           /\ DOMAIN Append(s, x) = (DOMAIN s) \cup {Len(s) + 1}
           /\ \A i \in DOMAIN s : Append(s, x)[i] = s[i]
           /\ Append(s, x)[Len(s) + 1] = x
           /\ Len(s) + 1 \notin DOMAIN s
<1> DEFINE S == {s[i] : i \in DOMAIN s} \cup {x}
<1>1. Len(s) \in Nat /\ DOMAIN s = 1..Len(s)
    BY SeqFacts
<1>2. s = [i \in 1..Len(s) |-> s[i]]
    BY SeqDef DEF IsSeq
<1>3. s \in Seq(S) /\ x \in S
    <2>1. s \in [1..Len(s) -> S]
        BY <1>1, <1>2
    <2> QED  BY <1>1, <2>1, SeqDef
<1>4. PICK t : t = Append(s, x)
    OBVIOUS
<1>5. /\ t \in Seq(S) /\ Len(t) = Len(s) + 1 /\ t[Len(s) + 1] = x
      /\ \A i \in 1..Len(s) : t[i] = s[i]
    <2> HIDE DEF S
    <2> QED  BY <1>3, <1>4, AppendProperties
<1>6. DOMAIN t = 1..(Len(s) + 1)
    <2> HIDE DEF S
    <2> QED  BY <1>5, LenProperties
<1>7. t = [i \in 1..(Len(s) + 1) |-> t[i]]
    <2> HIDE DEF S
    <2> QED  BY <1>5, <1>6, SeqDef
<1>8. IsSeq(t)
    <2>1. Len(s) + 1 \in Nat
        BY <1>1
    <2> QED  BY <1>7, <2>1, FunctionIsSeq
<1>9. 1..(Len(s) + 1) = 1..Len(s) \cup {Len(s) + 1} /\ Len(s) + 1 \notin 1..Len(s)
    BY <1>1
<1> QED  BY <1>1, <1>4, <1>5, <1>6, <1>8, <1>9

LEMMA ExceptFacts ==
    ASSUME NEW s, IsSeq(s), NEW t, t = [i \in DOMAIN s |-> t[i]]
    PROVE  IsSeq(t) /\ Len(t) = Len(s) /\ DOMAIN t = DOMAIN s
BY SeqFacts, FunctionIsSeq

-----------------------------------------------------------------------------
(***************************************************************************)
(* Folds.  FoldStep is what the folds of Backtest do to a state with one   *)
(* element of the sequence they go through, c standing for what is the     *)
(* same for all of them.                                                   *)
(***************************************************************************)
FoldStep(kind, c, st, x) ==
    CASE kind = "action"  -> ApplyAction(c[1], c[2], c[3], st, x)
      [] kind = "order"   -> ExecuteOrder(c[1], c[2], c[3], st, x)
      [] kind = "place"   -> PlaceOrder(c[1], c[2], c[3], c[4], st, c[5], x)
      [] kind = "session" -> Session(c[1], c[2], x, st)

\* f is the function FoldLeft is defined with.
Iterates(f, kind, c, st, seq, n) ==
    f = [s \in SUBSET (1..n) |->
            IF s = {} THEN st ELSE FoldStep(kind, c, f[s \ {Max(s)}], seq[Max(s)])]

LEMMA FoldDefined ==
    ASSUME NEW kind, NEW c, NEW st, NEW seq, NEW n \in Nat
    PROVE  \E f : Iterates(f, kind, c, st, seq, n)
<1> DEFINE Is(f, m) == f = [s \in SUBSET (1..m) |->
                          IF s = {} THEN st ELSE FoldStep(kind, c, f[s \ {Max(s)}], seq[Max(s)])]
           T == {m \in Nat : \E f : Is(f, m)}
<1>1. 0 \in T
    <2> DEFINE f == [s \in SUBSET (1..0) |-> st]
    <2>1. \A s \in SUBSET (1..0) : s = {}
        OBVIOUS
    <2>2. Is(f, 0)
        BY <2>1, Zenon
    <2> QED  BY <2>2
<1>2. ASSUME NEW m \in Nat, m \in T PROVE m + 1 \in T
    <2>1. PICK f : Is(f, m)
        BY <1>2
    <2> HIDE DEF T
    <2> DEFINE M == 1..(m + 1)
               g == [s \in SUBSET M |->
                       IF m + 1 \in s THEN FoldStep(kind, c, f[s \ {m + 1}], seq[m + 1]) ELSE f[s]]
    <2>2. ASSUME NEW s \in SUBSET M
          PROVE  g[s] = IF s = {} THEN st ELSE FoldStep(kind, c, g[s \ {Max(s)}], seq[Max(s)])
        <3>1. CASE m + 1 \in s
            <4>1. Max(s) = m + 1
                <5>1. m + 1 \in Nat /\ s \subseteq 1..(m + 1)
                    OBVIOUS
                <5> QED  BY <5>1, <3>1, MaxIsLast
            <4>2. s \ {m + 1} \in SUBSET M /\ m + 1 \notin s \ {m + 1}
                OBVIOUS
            <4>3. g[s \ {m + 1}] = f[s \ {m + 1}]
                BY <4>2, Zenon
            <4> QED  BY <3>1, <4>1, <4>3, Zenon
        <3>2. CASE m + 1 \notin s
            <4>1. s \in SUBSET (1..m)
                BY <3>2
            <4>2. g[s] = f[s]
                BY <3>2, Zenon
            <4>3. f[s] = IF s = {} THEN st ELSE FoldStep(kind, c, f[s \ {Max(s)}], seq[Max(s)])
                BY <2>1, <4>1, Zenon
            <4>4. s \ {Max(s)} \in SUBSET M /\ m + 1 \notin s \ {Max(s)}
                BY <3>2
            <4>5. g[s \ {Max(s)}] = f[s \ {Max(s)}]
                BY <4>4, Zenon
            <4> QED  BY <4>2, <4>3, <4>5, Zenon
        <3> QED  BY <3>1, <3>2
    <2>3. Is(g, m + 1)
        <3> HIDE DEF g
        <3>1. g = [s \in SUBSET M |-> g[s]]
            BY Zenon DEF g
        <3> QED  BY <3>1, <2>2, Zenon
    <2>4. \E x : Is(x, m + 1)
        <3> HIDE DEF Is, g
        <3> QED  BY <2>3, Zenon
    <2> HIDE DEF Is
    <2> QED  BY <2>4 DEF T
<1>3. Nat \subseteq T
    <2> HIDE DEF T
    <2> QED  BY <1>1, <1>2, NatInduct
<1>4. \E f : Is(f, n)
    <2> HIDE DEF Is
    <2> QED  BY <1>3
<1> QED  BY <1>4, Zenon DEF Iterates

(***************************************************************************)
(* tr holds the states a fold goes through, from st on.                    *)
(***************************************************************************)
Traces(tr, kind, c, st, seq, n) ==
    tr[0] = st /\ \A m \in 0..n : m < n => tr[m + 1] = FoldStep(kind, c, tr[m], seq[m + 1])

LEMMA FoldTraced ==
    ASSUME NEW kind, NEW c, NEW st, NEW seq, NEW n \in Nat, NEW f,
           Iterates(f, kind, c, st, seq, n)
    PROVE  \E tr : Traces(tr, kind, c, st, seq, n) /\ f[1..n] = tr[n]
<1> DEFINE tr == [m \in 0..n |-> f[1..m]]
<1>1. tr[0] = st /\ tr[n] = f[1..n]
    <2>1. 1..0 = {} /\ 0 \in 0..n /\ n \in 0..n
        OBVIOUS
    <2>2. f[{}] = st
        BY Zenon DEF Iterates
    <2> QED  BY <2>1, <2>2, Zenon
<1>2. ASSUME NEW m \in 1..n PROVE tr[m] = FoldStep(kind, c, tr[m - 1], seq[m])
    <2>1. 1..m \in SUBSET (1..n) /\ 1..m # {} /\ 1..m \subseteq 0..n /\ m \in 1..m
        BY <1>2
    <2>2. Max(1..m) = m
        BY <2>1, <1>2, MaxIsLast
    <2>3. (1..m) \ {m} = 1..(m - 1) /\ m \in 0..n /\ m - 1 \in 0..n
        BY <1>2
    <2>4. f[1..m] = FoldStep(kind, c, f[(1..m) \ {Max(1..m)}], seq[Max(1..m)])
        BY <2>1, Zenon DEF Iterates
    <2>5. tr[m] = f[1..m] /\ tr[m - 1] = f[1..(m - 1)]
        BY <2>3, Zenon
    <2> QED  BY <2>2, <2>3, <2>4, <2>5, Zenon
<1> HIDE DEF tr
<1>3. ASSUME NEW m \in 0..n, m < n PROVE tr[m + 1] = FoldStep(kind, c, tr[m], seq[m + 1])
    <2>1. PICK k \in 1..n : k = m + 1 /\ k - 1 = m
        BY <1>3
    <2>2. tr[k] = FoldStep(kind, c, tr[k - 1], seq[k])
        BY <1>2
    <2> QED  BY <2>1, <2>2
<1> QED  BY <1>1, <1>3, Zenon DEF Traces

ActionFold(e, in, session, st, seq) == FoldLeft(LAMBDA s, x : ApplyAction(e, in, session, s, x), st, seq)

LEMMA ActionTrace ==
    ASSUME NEW e, NEW in, NEW session, NEW st, NEW seq, NEW n \in Nat, DOMAIN seq = 1..n
    PROVE  \E tr : /\ Traces(tr, "action", <<e, in, session>>, st, seq, n)
                   /\ tr[n] = ActionFold(e, in, session, st, seq)
<1> DEFINE Is(f) == f = [S \in SUBSET (DOMAIN seq) |->
                           IF S = {} THEN st ELSE ApplyAction(e, in, session, f[S \ {Max(S)}], seq[Max(S)])]
           iter == CHOOSE f : Is(f)
<1>0. PICK c : c = <<e, in, session>>
    OBVIOUS
<1>1. \A s, x : FoldStep("action", c, s, x) = ApplyAction(e, in, session, s, x)
    BY <1>0 DEF FoldStep
<1>2. \E f : Is(f)
    <2>1. PICK f : Iterates(f, "action", c, st, seq, n)
        BY FoldDefined, Zenon
    <2>2. Is(f)
        BY <1>1, <2>1, ZenonT(40) DEF Iterates
    <2> QED  BY <2>2
<1>3. Is(iter)
    BY <1>2, Zenon
<1>4. ActionFold(e, in, session, st, seq) = iter[DOMAIN seq]
    BY Zenon DEF ActionFold, FoldLeft, MapThenFoldSet
<1>5. PICK g : g = iter
    OBVIOUS
<1> HIDE DEF iter
<1>6. Iterates(g, "action", c, st, seq, n)
    BY <1>1, <1>3, <1>5, ZenonT(40) DEF Iterates
<1>7. PICK tr : Traces(tr, "action", c, st, seq, n) /\ g[1..n] = tr[n]
    BY <1>6, FoldTraced
<1> QED  BY <1>0, <1>4, <1>5, <1>7, Zenon

OrderFold(e, in, session, st, seq) == FoldLeft(LAMBDA s, x : ExecuteOrder(e, in, session, s, x), st, seq)

LEMMA OrderTrace ==
    ASSUME NEW e, NEW in, NEW session, NEW st, NEW seq, NEW n \in Nat, DOMAIN seq = 1..n
    PROVE  \E tr : /\ Traces(tr, "order", <<e, in, session>>, st, seq, n)
                   /\ tr[n] = OrderFold(e, in, session, st, seq)
<1> DEFINE Is(f) == f = [S \in SUBSET (DOMAIN seq) |->
                           IF S = {} THEN st ELSE ExecuteOrder(e, in, session, f[S \ {Max(S)}], seq[Max(S)])]
           iter == CHOOSE f : Is(f)
<1>0. PICK c : c = <<e, in, session>>
    OBVIOUS
<1>1. \A s, x : FoldStep("order", c, s, x) = ExecuteOrder(e, in, session, s, x)
    BY <1>0 DEF FoldStep
<1>2. \E f : Is(f)
    <2>1. PICK f : Iterates(f, "order", c, st, seq, n)
        BY FoldDefined, Zenon
    <2>2. Is(f)
        BY <1>1, <2>1, ZenonT(40) DEF Iterates
    <2> QED  BY <2>2
<1>3. Is(iter)
    BY <1>2, Zenon
<1>4. OrderFold(e, in, session, st, seq) = iter[DOMAIN seq]
    BY Zenon DEF OrderFold, FoldLeft, MapThenFoldSet
<1>5. PICK g : g = iter
    OBVIOUS
<1> HIDE DEF iter
<1>6. Iterates(g, "order", c, st, seq, n)
    BY <1>1, <1>3, <1>5, ZenonT(40) DEF Iterates
<1>7. PICK tr : Traces(tr, "order", c, st, seq, n) /\ g[1..n] = tr[n]
    BY <1>6, FoldTraced
<1> QED  BY <1>0, <1>4, <1>5, <1>7, Zenon

PlaceFold(e, in, session, next, targets, st, seq) == FoldLeft(LAMBDA s, x : PlaceOrder(e, in, session, next, s, targets, x), st, seq)

LEMMA PlaceTrace ==
    ASSUME NEW e, NEW in, NEW session, NEW next, NEW targets, NEW st, NEW seq, NEW n \in Nat, DOMAIN seq = 1..n
    PROVE  \E tr : /\ Traces(tr, "place", <<e, in, session, next, targets>>, st, seq, n)
                   /\ tr[n] = PlaceFold(e, in, session, next, targets, st, seq)
<1> DEFINE Is(f) == f = [S \in SUBSET (DOMAIN seq) |->
                           IF S = {} THEN st ELSE PlaceOrder(e, in, session, next, f[S \ {Max(S)}], targets, seq[Max(S)])]
           iter == CHOOSE f : Is(f)
<1>0. PICK c : c = <<e, in, session, next, targets>>
    OBVIOUS
<1>1. \A s, x : FoldStep("place", c, s, x) = PlaceOrder(e, in, session, next, s, targets, x)
    BY <1>0 DEF FoldStep
<1>2. \E f : Is(f)
    <2>1. PICK f : Iterates(f, "place", c, st, seq, n)
        BY FoldDefined, Zenon
    <2>2. Is(f)
        BY <1>1, <2>1, ZenonT(40) DEF Iterates
    <2> QED  BY <2>2
<1>3. Is(iter)
    BY <1>2, Zenon
<1>4. PlaceFold(e, in, session, next, targets, st, seq) = iter[DOMAIN seq]
    BY Zenon DEF PlaceFold, FoldLeft, MapThenFoldSet
<1>5. PICK g : g = iter
    OBVIOUS
<1> HIDE DEF iter
<1>6. Iterates(g, "place", c, st, seq, n)
    BY <1>1, <1>3, <1>5, ZenonT(40) DEF Iterates
<1>7. PICK tr : Traces(tr, "place", c, st, seq, n) /\ g[1..n] = tr[n]
    BY <1>6, FoldTraced
<1> QED  BY <1>0, <1>4, <1>5, <1>7, Zenon

SessionFold(e, in, st, seq) == FoldLeft(LAMBDA s, x : Session(e, in, x, s), st, seq)

LEMMA SessionTrace ==
    ASSUME NEW e, NEW in, NEW st, NEW seq, NEW n \in Nat, DOMAIN seq = 1..n
    PROVE  \E tr : /\ Traces(tr, "session", <<e, in>>, st, seq, n)
                   /\ tr[n] = SessionFold(e, in, st, seq)
<1> DEFINE Is(f) == f = [S \in SUBSET (DOMAIN seq) |->
                           IF S = {} THEN st ELSE Session(e, in, seq[Max(S)], f[S \ {Max(S)}])]
           iter == CHOOSE f : Is(f)
<1>0. PICK c : c = <<e, in>>
    OBVIOUS
<1>1. \A s, x : FoldStep("session", c, s, x) = Session(e, in, x, s)
    BY <1>0 DEF FoldStep
<1>2. \E f : Is(f)
    <2>1. PICK f : Iterates(f, "session", c, st, seq, n)
        BY FoldDefined, Zenon
    <2>2. Is(f)
        BY <1>1, <2>1, ZenonT(40) DEF Iterates
    <2> QED  BY <2>2
<1>3. Is(iter)
    BY <1>2, Zenon
<1>4. SessionFold(e, in, st, seq) = iter[DOMAIN seq]
    BY Zenon DEF SessionFold, FoldLeft, MapThenFoldSet
<1>5. PICK g : g = iter
    OBVIOUS
<1> HIDE DEF iter
<1>6. Iterates(g, "session", c, st, seq, n)
    BY <1>1, <1>3, <1>5, ZenonT(40) DEF Iterates
<1>7. PICK tr : Traces(tr, "session", c, st, seq, n) /\ g[1..n] = tr[n]
    BY <1>6, FoldTraced
<1> QED  BY <1>0, <1>4, <1>5, <1>7, Zenon

-----------------------------------------------------------------------------
(***************************************************************************)
(* The shape of a state, which every step keeps.  SameOrders is what a     *)
(* step leaves alone that has nothing to do with orders.  Spends is what a *)
(* fill adds to the costs of its date.                                     *)
(***************************************************************************)
StateFields ==
    {"cash", "qty", "currency", "orders", "fills", "ledger", "pending", "processed", "held",
     "decided", "nav", "benchmark", "costs", "spent", "rejected", "idle", "marks", "holdings", "halt"}

IsState(st) ==
    /\ st = [f \in StateFields |-> st[f]]
    /\ IsFiniteSet(st.pending)

SameCosts(st, t) == t.costs = st.costs /\ t.spent = st.spent

Spends(st, t, date) ==
    \E x \in Int : t.spent = st.spent + x /\ t.costs = [st.costs EXCEPT ![date] = @ + x]

SameOrders(st, t) ==
    /\ t.orders = st.orders /\ t.pending = st.pending
    /\ t.fills = st.fills /\ t.rejected = st.rejected
    /\ SameCosts(st, t)

LEMMA InitialIsState ==
    ASSUME NEW e, NEW in
    PROVE  IsState(Initial(e, in)) /\ Initial(e, in).halt = "none"
BY FS_EmptySet DEF Initial, IsState, StateFields

LEMMA HaltShape ==
    ASSUME NEW st, IsState(st), NEW reason
    PROVE  /\ IsState(Halt(st, reason)) /\ SameOrders(st, Halt(st, reason))
           /\ Halt(st, reason).halt = reason /\ Halt(st, reason).marks = st.marks
BY DEF Halt, IsState, StateFields, SameOrders, SameCosts

LEMMA BookShape ==
    ASSUME NEW st, IsState(st), NEW row
    PROVE  /\ IsState(Book(st, row)) /\ SameOrders(st, Book(st, row))
           /\ Book(st, row).halt = st.halt /\ Book(st, row).marks = st.marks
BY DEF Book, IsState, StateFields, SameOrders, SameCosts

LEMMA ActionShape ==
    ASSUME NEW st, IsState(st), NEW e, NEW in, NEW session, NEW a
    PROVE  LET t == ApplyAction(e, in, session, st, a)
           IN  /\ IsState(t) /\ SameOrders(st, t) /\ t.marks = st.marks
               /\ t.halt = "none" => st.halt = "none"
<1> DEFINE done == [st EXCEPT !.processed = @ \cup {a.id}]
           q == st.qty[a.security]
           split == (q * a.numerator) \div a.denominator
           gain(p) == [done EXCEPT !.cash[a.currency] = @ + q * p]
           Kept(t) == /\ IsState(t) /\ SameOrders(st, t) /\ t.marks = st.marks
                      /\ t.halt = "none" => st.halt = "none"
<1>1. Kept(st) /\ Kept(done)
    BY DEF IsState, StateFields, SameOrders, SameCosts
<1>2. \A reason : reason # "none" => Kept(Halt(st, reason))
    BY HaltShape
<1> HIDE DEF done
<1>3. Kept([done EXCEPT !.qty[a.security] = split])
    BY <1>1 DEF IsState, StateFields, SameOrders, SameCosts
<1>4. ASSUME NEW p PROVE Kept(gain(p)) /\ Kept([gain(p) EXCEPT !.qty[a.security] = 0])
    <2>1. Kept(gain(p))
        BY <1>1 DEF IsState, StateFields, SameOrders, SameCosts
    <2> HIDE DEF gain
    <2> QED  BY <2>1 DEF IsState, StateFields, SameOrders, SameCosts
<1>5. \A t, row : Kept(t) => Kept(Book(t, row))
    BY BookShape DEF SameOrders, SameCosts
<1> HIDE DEF Kept, split, gain
<1> QED
    <2>1. Kept(ApplyAction(e, in, session, st, a))
        BY <1>1, <1>2, <1>3, <1>4, <1>5 DEF ApplyAction, done, q, split, gain
    <2> QED  BY <2>1 DEF Kept

LEMMA ActionsShape ==
    ASSUME NEW st, IsState(st), NEW e, NEW in, IsFiniteSet(in.corporate_actions), NEW session
    PROVE  LET t == ApplyActions(e, in, st, session)
           IN  /\ IsState(t) /\ SameOrders(st, t) /\ t.marks = st.marks
               /\ t.halt = "none" => st.halt = "none"
<1> DEFINE S == {a \in in.corporate_actions :
                    session.date = IF a.type = "cash_dividend" THEN a.payment ELSE a.effective}
           Kept(t) == /\ IsState(t) /\ SameOrders(st, t) /\ t.marks = st.marks
                      /\ t.halt = "none" => st.halt = "none"
<1>1. PICK n \in Nat : n = Cardinality(S)
    BY FS_Subset, FS_CardinalityType
<1>2. PICK seq : seq = ActionEvents(in, session.date)
    OBVIOUS
<1>3. DOMAIN seq = 1..n
    BY <1>1, <1>2 DEF ActionEvents, Sorted
<1>4. PICK tr : /\ Traces(tr, "action", <<e, in, session>>, st, seq, n)
                /\ tr[n] = ActionFold(e, in, session, st, seq)
    BY <1>3, ActionTrace
<1>5. tr[n] = ApplyActions(e, in, st, session)
    BY <1>2, <1>4, Zenon DEF ApplyActions, ActionFold
<1> DEFINE T == {m \in 0..n : Kept(tr[m])}
<1>6. 0 \in T
    <2>1. tr[0] = st /\ 0 \in 0..n
        BY <1>4 DEF Traces
    <2>2. Kept(st)
        BY DEF SameOrders, SameCosts
    <2> QED  BY <2>1, <2>2
<1>7. ASSUME NEW m \in 0..n, m < n, m \in T PROVE m + 1 \in T
    <2>1. m + 1 \in 0..n
        BY <1>7
    <2>2. tr[m + 1] = ApplyAction(e, in, session, tr[m], seq[m + 1])
        <3>1. tr[m + 1] = FoldStep("action", <<e, in, session>>, tr[m], seq[m + 1])
            BY <1>4, <1>7 DEF Traces
        <3> QED  BY <3>1 DEF FoldStep
    <2>3. Kept(ApplyAction(e, in, session, tr[m], seq[m + 1]))
        BY <1>7, ActionShape DEF SameOrders, SameCosts
    <2> QED  BY <2>1, <2>2, <2>3
<1>8. n \in T
    <2> HIDE DEF T
    <2>1. 0..n \subseteq T
        BY <1>6, <1>7, UpTo
    <2> QED  BY <2>1
<1> QED  BY <1>5, <1>8

(***************************************************************************)
(* Executing order i rejects it or fills it, once, and touches no other    *)
(* order (_execute_orders).                                                *)
(***************************************************************************)
Rejects(st, t, i) ==
    /\ t.orders = [st.orders EXCEPT ![i].status = "rejected"]
    /\ t.rejected = st.rejected + 1
    /\ t.fills = st.fills
    /\ SameCosts(st, t)

Fills(st, t, i, date) ==
    \E q, f :
        /\ t.orders = [st.orders EXCEPT ![i] = [@ EXCEPT !.status = "filled", !.qty = q]]
        /\ t.rejected = st.rejected
        /\ t.fills = Append(st.fills, f)
        /\ f.order = i /\ f.date = date /\ f.qty = q

Settles(st, t, i, date) ==
    /\ IsState(t)
    /\ t.marks = st.marks /\ t.pending = st.pending
    /\ t.halt = "none" => st.halt = "none" /\ (Rejects(st, t, i) \/ Fills(st, t, i, date))

Funded(st, t) == IsState(t) /\ SameOrders(st, t) /\ t.marks = st.marks /\ t.halt = st.halt

LEMMA FundShape ==
    ASSUME NEW st, IsState(st), NEW e, NEW in, NEW currency, NEW required, NEW session
    PROVE  Funded(st, FundTradeCurrency(e, in, st, currency, required, session))
<1> DEFINE Kept(u) == IsState(u) /\ SameOrders(st, u) /\ u.marks = st.marks /\ u.halt = st.halt
<1>1. Kept(st)
    BY DEF SameOrders, SameCosts
<1>2. \A u, row : Kept(u) => Kept(Book(u, row))
    BY BookShape DEF SameOrders, SameCosts
<1>3. ASSUME NEW base, NEW x, NEW y
      PROVE  Kept([st EXCEPT !.cash[currency] = @ + x, !.cash[base] = @ - y])
    <2> DEFINE u == [st EXCEPT !.cash[currency] = @ + x, !.cash[base] = @ - y]
    <2>1. DOMAIN u = StateFields /\ \A f \in StateFields : f # "cash" => u[f] = st[f]
        BY DEF IsState, StateFields
    <2>2. u = [f \in StateFields |-> u[f]]
        BY DEF IsState, StateFields
    <2> HIDE DEF u
    <2> QED  BY <2>1, <2>2 DEF IsState, StateFields, SameOrders, SameCosts
<1> HIDE DEF Kept
<1>4. Kept(FundTradeCurrency(e, in, st, currency, required, session))
    BY <1>1, <1>2, <1>3 DEF FundTradeCurrency
<1> QED  BY <1>4 DEF Kept, Funded

LEMMA HaltSettles ==
    ASSUME NEW st, NEW t, IsState(t), t.marks = st.marks, t.pending = st.pending,
           NEW reason, reason # "none", NEW i, NEW date
    PROVE  Settles(st, Halt(t, reason), i, date)
<1>1. /\ IsState(Halt(t, reason)) /\ Halt(t, reason).marks = st.marks
      /\ Halt(t, reason).pending = st.pending /\ Halt(t, reason).halt = reason
    BY HaltShape DEF SameOrders, SameCosts
<1> QED  BY <1>1 DEF Settles

LEMMA RejectShape ==
    ASSUME NEW st, IsState(st), NEW e, NEW i, NEW session, st.halt = "none"
    PROVE  Settles(st, RejectOrder(e, st, i, session), i, session.date)
<1> DEFINE mid == [st EXCEPT !.orders[i].status = "rejected", !.rejected = @ + 1]
           row == Row(session, "reject", st.orders[i].currency, 0, st.orders[i].security,
                      Signed(st.orders[i]))
           rejected == Book(mid, row)
<1>1. /\ IsState(mid) /\ Rejects(st, mid, i)
      /\ mid.marks = st.marks /\ mid.pending = st.pending /\ mid.halt = "none"
    BY DEF IsState, StateFields, Rejects, SameCosts
<1> HIDE DEF mid, row
<1>2. /\ IsState(rejected) /\ Rejects(st, rejected, i)
      /\ rejected.marks = st.marks /\ rejected.pending = st.pending /\ rejected.halt = "none"
    BY <1>1, BookShape DEF SameOrders, Rejects, SameCosts
<1> HIDE DEF rejected
<1>3. Settles(st, rejected, i, session.date)
    BY <1>2 DEF Settles
<1>4. Settles(st, Halt(rejected, "order rejected"), i, session.date)
    BY <1>2, HaltSettles
<1>5. RejectOrder(e, st, i, session) =
          IF e.missing = "halt_experiment" THEN Halt(rejected, "order rejected") ELSE rejected
    BY Zenon DEF RejectOrder, rejected, mid, row
<1> QED  BY <1>3, <1>4, <1>5

LEMMA FillShape ==
    ASSUME NEW st, IsState(st), NEW e, NEW in, NEW i, NEW row, NEW q, NEW session, st.halt = "none"
    PROVE  Settles(st, FillOrder(e, in, st, i, row, q, session), i, session.date)
<1> DEFINE o      == st.orders[i]
           base   == e.accounting.base_currency
           terms  == FillTerms(e.cost, row, o.side, q)
           sign   == IF o.side = "buy" THEN 1 ELSE -1
           cost   == Convert(in, terms.fee + terms.tax + terms.slip, o.currency, base, session.open)
           funded == IF o.side = "buy"
                     THEN FundTradeCurrency(e, in, st, o.currency,
                                            terms.notional + terms.fee + terms.tax, session)
                     ELSE st
           fill   == [order |-> i, date |-> session.date, security |-> o.security,
                      side |-> o.side, qty |-> q, notional |-> terms.notional,
                      fee |-> terms.fee, tax |-> terms.tax]
           out    == sign * terms.notional
           filled == [funded EXCEPT
               !.cash[o.currency] = @ - sign * terms.notional - terms.fee - terms.tax,
               !.qty[o.security]  = Larger(0, @ + sign * q),
               !.orders[i]        = [@ EXCEPT !.status = "filled", !.qty = q],
               !.fills            = Append(@, fill),
               !.spent            = @ + cost,
               !.costs[session.date] = @ + cost]
           r1 == Row(session, "fill", o.currency, -sign * terms.notional, o.security, sign * q)
           r2 == Row(session, "fee", o.currency, -terms.fee, o.security, 0)
           r3 == Row(session, "tax", o.currency, -terms.tax, o.security, 0)
           Good(t) == /\ IsState(t) /\ t.marks = st.marks /\ t.pending = st.pending /\ t.halt = "none"
                      /\ Fills(st, t, i, session.date)
<1>1. fill.order = i /\ fill.date = session.date /\ fill.qty = q
    OBVIOUS
<1> HIDE DEF fill, cost, terms, sign, base
<1>2. IsState(funded) /\ SameOrders(st, funded) /\ funded.marks = st.marks /\ funded.halt = "none"
    <2>1. Funded(st, st)
        BY DEF SameOrders, Funded, SameCosts
    <2>2. \A k, r : Funded(st, FundTradeCurrency(e, in, st, k, r, session))
        BY FundShape
    <2> HIDE DEF o
    <2>3. Funded(st, funded)
        BY <2>1, <2>2
    <2> QED  BY <2>3 DEF Funded
<1> HIDE DEF funded, o
<1>3. /\ IsState(filled)
      /\ filled.orders = [funded.orders EXCEPT ![i] = [@ EXCEPT !.status = "filled", !.qty = q]]
      /\ filled.fills = Append(funded.fills, fill)
      /\ filled.marks = funded.marks /\ filled.pending = funded.pending
      /\ filled.halt = funded.halt /\ filled.rejected = funded.rejected
    <2>1. DOMAIN funded = StateFields
        BY <1>2 DEF IsState
    <2>2. DOMAIN filled = StateFields
        BY <2>1, Zenon
    <2>3. filled.orders = [funded.orders EXCEPT ![i] = [@ EXCEPT !.status = "filled", !.qty = q]]
        BY <2>1 DEF StateFields
    <2>4. filled.fills = Append(funded.fills, fill)
        BY <2>1 DEF StateFields
    <2>5. filled.marks = funded.marks /\ filled.pending = funded.pending
        BY <2>1 DEF StateFields
    <2>7. filled.halt = funded.halt /\ filled.rejected = funded.rejected
        BY <2>1 DEF StateFields
    <2>6. filled = [f \in StateFields |-> filled[f]]
        BY <2>1, Zenon
    <2> HIDE DEF filled
    <2> QED  BY <1>2, <2>2, <2>3, <2>4, <2>5, <2>6, <2>7 DEF IsState
<1> HIDE DEF filled
<1>4. Good(filled)
    <2>1. /\ IsState(filled) /\ filled.marks = st.marks /\ filled.pending = st.pending
          /\ filled.halt = "none"
        BY <1>2, <1>3 DEF SameOrders, SameCosts
    <2>2. funded.orders = st.orders /\ funded.fills = st.fills /\ funded.rejected = st.rejected
        BY <1>2 DEF SameOrders, SameCosts
    <2>3. /\ filled.orders = [st.orders EXCEPT ![i] = [@ EXCEPT !.status = "filled", !.qty = q]]
          /\ filled.fills = Append(st.fills, fill) /\ filled.rejected = st.rejected
        BY <1>3, <2>2
    <2>4. Fills(st, filled, i, session.date)
        BY <1>1, <2>3, Zenon DEF Fills
    <2> QED  BY <2>1, <2>4
<1>5. ASSUME NEW t, NEW r, Good(t) PROVE Good(Book(t, r))
    <2>1. PICK u : u = Book(t, r)
        OBVIOUS
    <2>2. /\ IsState(u) /\ u.marks = st.marks /\ u.pending = st.pending /\ u.halt = "none"
          /\ u.orders = t.orders /\ u.fills = t.fills /\ u.rejected = t.rejected
        BY <1>5, <2>1, BookShape DEF SameOrders, SameCosts
    <2>3. Fills(st, t, i, session.date)
        BY <1>5
    <2>4. Fills(st, u, i, session.date)
        BY <2>2, <2>3, Zenon DEF Fills
    <2> QED  BY <2>1, <2>2, <2>4, Zenon
<1> HIDE DEF Good, r1, r2, r3
<1>6. Good(Book(Book(Book(filled, r1), r2), r3))
    BY <1>4, <1>5
<1>7. FillOrder(e, in, st, i, row, q, session) = Book(Book(Book(filled, r1), r2), r3)
    BY Zenon DEF FillOrder, filled, fill, funded, cost, terms, sign, base, o, r1, r2, r3
<1> QED  BY <1>6, <1>7 DEF Good, Settles

Executed(st, t, i, date) == Settles(st, t, i, date) \/ (st.halt # "none" /\ t = st)

LEMMA OrderShape ==
    ASSUME NEW st, IsState(st), NEW e, NEW in, NEW session, NEW i
    PROVE  Executed(st, ExecuteOrder(e, in, session, st, i), i, session.date)
<1> DEFINE Good(t) == Settles(st, t, i, session.date)
           o      == st.orders[i]
           base   == e.accounting.base_currency
           row    == PriceRow(in, o.security, session.date, session.open)
           wanted == IF o.side = "sell" THEN Smaller(o.qty, st.qty[o.security]) ELSE o.qty
           part   == e.risk.max_participation
           money  == Spendable(e, in, st, o.currency, session)
           q      == IF o.side = "buy" THEN MaxAffordableQuantity(e.cost, row, wanted, money) ELSE wanted
           crowded == IF row.has_volume THEN wanted * part[2] > row.volume * part[1] ELSE part[1] < part[2]
           short   == /\ o.side = "buy"
                      /\ ~CanFund(e, in, st, o.currency, BuyCost(e.cost, row, q), session)
           unrated == ~HasRate(in, o.currency, base, session.open)
           t       == ExecuteOrder(e, in, session, st, i)
<1>1. t = IF st.halt # "none" THEN st
          ELSE IF row = None THEN RejectOrder(e, st, i, session)
          ELSE IF row.currency # o.currency THEN Halt(st, "order currency")
          ELSE IF wanted = 0 \/ crowded THEN RejectOrder(e, st, i, session)
          ELSE IF unrated THEN Halt(st, "no FX rate")
          ELSE IF q = 0 \/ short THEN RejectOrder(e, st, i, session)
          ELSE FillOrder(e, in, st, i, row, q, session)
    BY DEF ExecuteOrder
<1> HIDE DEF t, q, row, wanted, part, money, base, o, crowded, unrated, short
<1>2. CASE st.halt # "none"
    <2>1. t = st
        BY <1>1, <1>2
    <2> QED  BY <1>2, <2>1 DEF t, Executed
<1>3. CASE st.halt = "none"
    <2>1. Good(RejectOrder(e, st, i, session))
        BY <1>3, RejectShape
    <2>2. Good(FillOrder(e, in, st, i, row, q, session))
        BY <1>3, FillShape
    <2>3. Good(Halt(st, "order currency")) /\ Good(Halt(st, "no FX rate"))
        BY HaltSettles
    <2> HIDE DEF Good
    <2>4. Good(t)
        BY <1>1, <1>3, <2>1, <2>2, <2>3
    <2> QED  BY <2>4 DEF Good, t, Executed
<1> QED  BY <1>2, <1>3

(***************************************************************************)
(* The state ExecuteOrders starts from, and the states it goes through, tr, *)
(* one for each order due.                                                 *)
(***************************************************************************)
Taken(st, session) == [st EXCEPT !.pending = @ \ Due(st, session)]

(* The states tr[0], ..., tr[n] that the n orders due in a session go       *)
(* through, in the order of their ids, up to the state u.                  *)
OrderTrail(st, session, u, n, tr) ==
    LET seq == InOrder(Due(st, session))
    IN  /\ n = Cardinality(Due(st, session))
        /\ IsState(Taken(st, session)) /\ tr[0] = Taken(st, session)
        /\ \A m \in 0..n : m < n => Executed(tr[m], tr[m + 1], seq[m + 1], session.date)
        /\ \A m \in 0..n : IsState(tr[m])
        /\ tr[n] = u

LEMMA OrdersTraced ==
    ASSUME NEW st, IsState(st), NEW e, NEW in, NEW session, NEW u, u = ExecuteOrders(e, in, st, session)
    PROVE  \E n \in Nat : \E tr : OrderTrail(st, session, u, n, tr)
<1>1. IsFiniteSet(Due(st, session)) /\ IsFiniteSet(st.pending \ Due(st, session))
    BY FS_Subset DEF Due, IsState
<1>2. PICK n \in Nat : n = Cardinality(Due(st, session))
    BY <1>1, FS_CardinalityType
<1>3. PICK seq : seq = InOrder(Due(st, session))
    OBVIOUS
<1>4. DOMAIN seq = 1..n
    BY <1>2, <1>3 DEF InOrder, Sorted
<1>5. PICK st0 : st0 = Taken(st, session)
    OBVIOUS
<1>6. IsState(st0)
    BY <1>1, <1>5 DEF IsState, StateFields, Taken
<1>7. PICK tr : /\ Traces(tr, "order", <<e, in, session>>, st0, seq, n)
                /\ tr[n] = OrderFold(e, in, session, st0, seq)
    BY <1>4, OrderTrace
<1>8. tr[n] = u
    BY <1>3, <1>5, <1>7, Zenon DEF ExecuteOrders, OrderFold, Taken
<1>9. ASSUME NEW m \in 0..n, m < n, IsState(tr[m])
      PROVE  IsState(tr[m + 1]) /\ Executed(tr[m], tr[m + 1], seq[m + 1], session.date)
    <2>1. tr[m + 1] = FoldStep("order", <<e, in, session>>, tr[m], seq[m + 1])
        BY <1>7, <1>9 DEF Traces
    <2>2. tr[m + 1] = ExecuteOrder(e, in, session, tr[m], seq[m + 1])
        BY <2>1 DEF FoldStep
    <2>3. Executed(tr[m], tr[m + 1], seq[m + 1], session.date)
        BY <1>9, <2>2, OrderShape
    <2> QED  BY <1>9, <2>3 DEF Executed, Settles
<1> DEFINE T == {m \in 0..n : IsState(tr[m])}
<1>11. 0 \in T
    BY <1>6, <1>7 DEF Traces
<1>12. ASSUME NEW m \in 0..n, m < n, m \in T PROVE m + 1 \in T
    <2>1. IsState(tr[m + 1]) /\ m + 1 \in 0..n
        BY <1>9, <1>12
    <2> QED  BY <2>1
<1>13. \A m \in 0..n : IsState(tr[m])
    <2>1. 0..n \subseteq T
        <3> HIDE DEF T
        <3> QED  BY <1>11, <1>12, UpTo
    <2> QED  BY <2>1
<1>14. \A m \in 0..n : m < n => Executed(tr[m], tr[m + 1], seq[m + 1], session.date)
    BY <1>9, <1>13
<1>15. tr[0] = st0
    BY <1>7 DEF Traces
<1>16. OrderTrail(st, session, u, n, tr)
    BY <1>2, <1>3, <1>5, <1>6, <1>8, <1>13, <1>14, <1>15, Zenon DEF OrderTrail
<1> QED  BY <1>2, <1>16, Zenon

LEMMA OrdersShape ==
    ASSUME NEW st, IsState(st), NEW e, NEW in, NEW session, NEW t, t = ExecuteOrders(e, in, st, session)
    PROVE  IsState(t) /\ (t.halt = "none" => st.halt = "none")
<1>1. PICK n \in Nat : \E tr : OrderTrail(st, session, t, n, tr)
    BY OrdersTraced, Zenon
<1>2. PICK tr : OrderTrail(st, session, t, n, tr)
    BY <1>1, Zenon
<1>3. PICK seq :
          /\ tr[0] = Taken(st, session)
          /\ \A m \in 0..n : m < n => Executed(tr[m], tr[m + 1], seq[m + 1], session.date)
          /\ \A m \in 0..n : IsState(tr[m])
          /\ tr[n] = t
    BY <1>2, Zenon DEF OrderTrail
<1> DEFINE T == {m \in 0..n : tr[m].halt = "none" => st.halt = "none"}
<1>4. 0 \in T
    BY <1>3 DEF Taken, IsState, StateFields
<1>5. ASSUME NEW m \in 0..n, m < n, m \in T PROVE m + 1 \in T
    BY <1>3, <1>5 DEF Executed, Settles
<1>6. n \in T
    <2> HIDE DEF T
    <2>1. 0..n \subseteq T
        BY <1>4, <1>5, UpTo
    <2> QED  BY <2>1
<1> QED  BY <1>3, <1>6

(***************************************************************************)
(* The close: a mark, unless the run halts, and after it new orders, which *)
(* are pending.                                                            *)
(***************************************************************************)
Marks(st, t, date) ==
    /\ IsState(t)
    /\ t.halt = "none" => /\ st.halt = "none" /\ SameOrders(st, t)
                      /\ \E m : t.marks = Append(st.marks, m) /\ m.date = date

LEMMA MarkShape ==
    ASSUME NEW st, IsState(st), NEW e, NEW in, NEW session
    PROVE  Marks(st, Mark(e, in, st, session), session.date)
<1> DEFINE base      == e.accounting.base_currency
           reporting == e.accounting.reporting_currency
           close(s)  == PriceRow(in, s, session.date, session.close)
           value(s)  == Convert(in, st.qty[s] * close(s).close, close(s).currency, base, session.close)
           money     == {c \in Currencies : st.cash[c] # 0}
           needed    == money \cup {close(s).currency : s \in Held(st) \cup {e.benchmark}}
           cash      == SumOver(money, LAMBDA c : Convert(in, st.cash[c], c, base, session.close))
           positions == SumOver(Held(st), value)
           nav       == cash + positions
           index     == Convert(in, close(e.benchmark).close, close(e.benchmark).currency, base,
                                session.close)
           start     == IF st.benchmark = None THEN index ELSE st.benchmark
           mark      == [date |-> session.date, cash |-> cash, positions |-> positions, nav |-> nav,
                         benchmark |-> (e.accounting.initial_cash * index) \div start,
                         partition |-> (CHOOSE p \in DatePartition(e, session.date) : TRUE).kind,
                         reporting |-> IF reporting = None THEN None
                                       ELSE Convert(in, nav, base, reporting, session.close)]
           noClose   == \E s \in Held(st) \cup {e.benchmark} : close(s) = None
           noRate    == \E c \in needed : ~HasRate(in, c, base, session.close)
           poor      == nav <= 0
           unreported == reporting # None /\ ~HasRate(in, base, reporting, session.close)
           currency  == [s \in Securities |-> IF s \in Held(st) THEN close(s).currency ELSE st.currency[s]]
           idle      == st.idle + (IF positions = 0 THEN 1 ELSE 0)
           holdings  == st.holdings \cup {[date |-> session.date, security |-> s,
                                           qty |-> st.qty[s], value |-> value(s)] : s \in Held(st)}
           row       == Row(session, "mark", base, positions, None, 0)
           mid       == [st EXCEPT !.currency = currency, !.marks = Append(@, mark),
                                   !.holdings = holdings, !.benchmark = start, !.nav = nav, !.idle = idle]
           t         == Mark(e, in, st, session)
<1>1. t = IF st.halt # "none" THEN st
          ELSE IF noClose THEN Halt(st, "missing close")
          ELSE IF noRate THEN Halt(st, "no FX rate")
          ELSE IF poor THEN Halt(st, "NAV not positive")
          ELSE IF unreported THEN Halt(st, "no FX rate")
          ELSE Book(mid, row)
    BY Zenon DEF Mark
<1>2. mark.date = session.date
    OBVIOUS
<1> HIDE DEF currency, mark, start, nav, idle, holdings, noClose, noRate, poor, unreported, row
<1>3. IsState(mid) /\ SameOrders(st, mid) /\ mid.marks = Append(st.marks, mark) /\ mid.halt = st.halt
    BY DEF IsState, StateFields, SameOrders, SameCosts
<1> HIDE DEF mid
<1>4. PICK u : u = Book(mid, row)
    OBVIOUS
<1>5. IsState(u) /\ SameOrders(mid, u) /\ u.marks = mid.marks /\ u.halt = mid.halt
    BY <1>3, <1>4, BookShape
<1>6. st.halt = "none" => Marks(st, u, session.date)
    BY <1>2, <1>3, <1>5 DEF Marks, SameOrders, SameCosts
<1>7. st.halt # "none" => Marks(st, st, session.date)
    BY DEF Marks
<1>8. \A reason : reason # "none" => Marks(st, Halt(st, reason), session.date)
    BY HaltShape DEF Marks
<1> HIDE DEF t
<1>9. Marks(st, t, session.date)
    BY <1>1, <1>4, <1>6, <1>7, <1>8
<1> QED  BY <1>9 DEF t

OrderFields == {"decision", "execution", "status", "qty"}

Places(st, t, decision, execution) ==
    /\ IsState(t)
    /\ t.halt = st.halt /\ t.marks = st.marks /\ t.fills = st.fills /\ t.rejected = st.rejected
    /\ SameCosts(st, t)
    /\ \/ t.orders = st.orders /\ t.pending = st.pending
       \/ \E o : /\ t.orders = Append(st.orders, o)
                 /\ t.pending = st.pending \cup {Len(st.orders) + 1}
                 /\ o.decision = decision /\ o.execution = execution /\ o.status = "proposed"
                 /\ OrderFields \subseteq DOMAIN o

LEMMA PlaceShape ==
    ASSUME NEW st, IsState(st), NEW e, NEW in, NEW session, NEW next, NEW targets, NEW s
    PROVE  Places(st, PlaceOrder(e, in, session, next, st, targets, s), session.date, next.date)
<1> DEFINE price == PriceRow(in, s, session.date, session.close)
           delta == TargetQuantity(e, in, session, st, targets, s) - st.qty[s]
           o     == [decision |-> session.date, execution |-> next.date, security |-> s,
                     side |-> IF delta > 0 THEN "buy" ELSE "sell", qty |-> Larger(delta, -delta),
                     currency |-> price.currency, status |-> "proposed"]
           row   == Row(session, "order", price.currency, 0, s, delta)
           mid   == [st EXCEPT !.orders = Append(@, o), !.pending = @ \cup {Len(st.orders) + 1}]
           t     == PlaceOrder(e, in, session, next, st, targets, s)
<1>1. t = IF delta = 0 THEN st ELSE Book(mid, row)
    BY Zenon DEF PlaceOrder
<1>2. /\ o.decision = session.date /\ o.execution = next.date /\ o.status = "proposed"
      /\ OrderFields \subseteq DOMAIN o
    BY DEF OrderFields
<1> HIDE DEF o, row, delta
<1>3. IsFiniteSet(st.pending \cup {Len(st.orders) + 1})
    BY FS_AddElement DEF IsState
<1>4. /\ IsState(mid) /\ mid.orders = Append(st.orders, o)
      /\ mid.pending = st.pending \cup {Len(st.orders) + 1}
      /\ mid.halt = st.halt /\ mid.marks = st.marks /\ mid.fills = st.fills /\ mid.rejected = st.rejected
      /\ mid.costs = st.costs /\ mid.spent = st.spent
    BY <1>3 DEF IsState, StateFields
<1> HIDE DEF mid
<1>5. PICK u : u = Book(mid, row)
    OBVIOUS
<1>6. IsState(u) /\ SameOrders(mid, u) /\ u.marks = mid.marks /\ u.halt = mid.halt
    BY <1>4, <1>5, BookShape
<1>7. Places(st, u, session.date, next.date)
    <2>1. SameCosts(st, u)
        BY <1>4, <1>6 DEF SameOrders, SameCosts
    <2> QED  BY <1>2, <1>4, <1>6, <2>1 DEF Places, SameOrders
<1>8. Places(st, st, session.date, next.date)
    BY DEF Places, SameCosts
<1> HIDE DEF t
<1>9. Places(st, t, session.date, next.date)
    BY <1>1, <1>5, <1>7, <1>8
<1> QED  BY <1>9 DEF t

\* What a decision sells or buys is among the universe and the holdings.
LEMMA TargetsAreFinite ==
    ASSUME NEW e, IsFiniteSet(e.universe), IsFiniteSet(Securities),
           NEW in, NEW sessions, NEW k, NEW st
    PROVE  IsFiniteSet(DOMAIN TargetWeights(e, in, sessions, k, st).weight \cup Held(st))
<1> DEFINE session == sessions[k]
           base    == e.accounting.base_currency
           active  == ActiveMembers(e, in, session)
           hold    == e.strategy.name = "buy_and_hold"
           first   == hold /\ ~st.held
           due     == RebalanceDue(e, session, st.decided)
           picked  == CASE first \/ (due /\ e.strategy.name = "equal_weight") -> EqualWeightTargets(active)
                        [] due /\ e.strategy.name = "momentum_12_1" ->
                               MomentumTargets(e, in, sessions, k, active)
                        [] OTHER -> [of |-> st.nav, weight |-> <<>>]
           kept    == IF due \/ first THEN {} ELSE Held(st) \cap active
           D       == DOMAIN picked.weight \cup kept \cup (Held(st) \ active)
<1>1. active \subseteq e.universe /\ Held(st) \subseteq Securities
    BY DEF ActiveMembers, Held
<1>2. \A chosen : DOMAIN EqualWeightTargets(chosen).weight = chosen
    BY DEF EqualWeightTargets
<1>3. DOMAIN MomentumTargets(e, in, sessions, k, active).weight \subseteq active
    <2> DEFINE parameters == e.strategy.parameters
               end        == k - parameters.skip_sessions
               begin      == end - parameters.lookback_sessions
               close(s, i) == PriceRow(in, s, sessions[i].date, sessions[k].close)
               scored     == {s \in active : close(s, begin) # None /\ close(s, end) # None}
               firstOf(s) == close(s, begin).close
               last(s)    == close(s, end).close
               beats(s, r) == \/ last(s) * firstOf(r) > last(r) * firstOf(s)
                              \/ last(s) * firstOf(r) = last(r) * firstOf(s) /\ s < r
               best == IF begin < 1 THEN {}
                       ELSE {s \in scored : Cardinality({r \in scored : beats(r, s)}) < parameters.top_k}
    <2>1. best \subseteq active
        OBVIOUS
    <2>2. MomentumTargets(e, in, sessions, k, active) = EqualWeightTargets(best)
        BY Zenon DEF MomentumTargets
    <2> HIDE DEF best
    <2> QED  BY <1>2, <2>1, <2>2
<1>4. DOMAIN picked.weight \subseteq active
    <2>1. DOMAIN [of |-> st.nav, weight |-> <<>>].weight = {}
        OBVIOUS
    <2> HIDE DEF first, due, active
    <2>2. picked \in {EqualWeightTargets(active), MomentumTargets(e, in, sessions, k, active),
                      [of |-> st.nav, weight |-> <<>>]}
        BY Zenon
    <2> HIDE DEF picked
    <2> QED  BY <1>2, <1>3, <2>1, <2>2
<1>5. DOMAIN TargetWeights(e, in, sessions, k, st).weight = D
    <2>1. \E f, x : TargetWeights(e, in, sessions, k, st) = [of |-> x, weight |-> [s \in D |-> f[s]]]
        <3> DEFINE close(s) == PriceRow(in, s, session.date, session.close)
                   value(s) == Convert(in, st.qty[s] * close(s).close, close(s).currency, base, session.close)
                   f == [s \in D |-> CASE s \in Held(st) \ active -> 0
                                       [] s \in kept -> value(s)
                                       [] OTHER -> picked.weight[s]]
        <3>1. TargetWeights(e, in, sessions, k, st) = [of |-> picked.of, weight |-> f]
            BY Zenon DEF TargetWeights
        <3>2. f = [s \in D |-> f[s]]
            BY Zenon
        <3> HIDE DEF f, D, picked
        <3> QED  BY <3>1, <3>2, Zenon
    <2> HIDE DEF D
    <2> QED  BY <2>1
<1>6. D \cup Held(st) \subseteq e.universe \cup Securities
    <2> HIDE DEF picked, active, due, first
    <2> QED  BY <1>1, <1>4
<1>7. IsFiniteSet(e.universe \cup Securities)
    BY FS_Union
<1> HIDE DEF D
<1> QED  BY <1>5, <1>6, <1>7, FS_Subset

\* The state the orders of a decision are added to.
Decided(st, u) == /\ IsState(u) /\ SameOrders(st, u)
                  /\ u.marks = st.marks /\ u.halt = st.halt

Decides(st, t, decision, execution) ==
    /\ IsState(t)
    /\ t.halt = "none" =>
          /\ st.halt = "none"
          /\ \E n \in Nat : \E tr :
                /\ Decided(st, tr[0])
                /\ \A m \in 0..n : m < n => Places(tr[m], tr[m + 1], decision, execution)
                /\ \A m \in 0..n : IsState(tr[m])
                /\ t = tr[n]

LEMMA DecideShape ==
    ASSUME NEW st, IsState(st), NEW e, IsFiniteSet(e.universe), IsFiniteSet(Securities),
           NEW in, NEW sessions, NEW k
    PROVE  Decides(st, Decide(e, in, sessions, k, st), sessions[k].date, sessions[k + 1].date)
<1> DEFINE session  == sessions[k]
           base     == e.accounting.base_currency
           targets  == TargetWeights(e, in, sessions, k, st)
           C        == DOMAIN targets.weight \cup Held(st)
           chosen   == Sorted(C, LAMBDA s, r : s < r)
           cur(s)   == PriceRow(in, s, session.date, session.close).currency
           checked  == \/ e.strategy.name = "buy_and_hold"
                       \/ RebalanceDue(e, session, st.decided)
                       \/ \E s \in DOMAIN targets.weight : targets.weight[s] = 0
           held     == st.held \/ e.strategy.name = "buy_and_hold"
           currency == [s \in Securities |-> IF s \in ToSet(chosen) THEN cur(s) ELSE st.currency[s]]
           decided  == [st EXCEPT !.decided = session.date, !.held = held, !.currency = currency]
           unknown  == \E s \in e.universe :
                          Cardinality(MembershipState(in, s, session.date, session.close)) # 1
           over     == checked /\ ~WithinLimits(e, targets)
           unrated  == \E s \in ToSet(chosen) : ~HasRate(in, base, cur(s), session.close)
           t        == Decide(e, in, sessions, k, st)
<1>1. t = IF st.halt # "none" THEN st
          ELSE IF unknown THEN Halt(st, "membership unavailable")
          ELSE IF over THEN Halt(st, "target exceeds a limit")
          ELSE IF unrated THEN Halt(st, "no FX rate")
          ELSE PlaceFold(e, in, session, sessions[k + 1], targets, decided, chosen)
    BY Zenon DEF Decide, PlaceFold
<1>2. PICK n \in Nat : n = Cardinality(C)
    BY TargetsAreFinite, FS_CardinalityType
<1>3. PICK seq : seq = chosen
    OBVIOUS
<1>4. DOMAIN seq = 1..n
    BY <1>2, <1>3 DEF Sorted
<1> HIDE DEF currency, held, targets, chosen, unknown, over, unrated
<1>5. PICK st0 : st0 = decided
    OBVIOUS
<1>6. Decided(st, st0)
    BY <1>5 DEF IsState, StateFields, SameOrders, Decided, SameCosts
<1> HIDE DEF decided
<1>7. PICK next : next = sessions[k + 1]
    OBVIOUS
<1>8. PICK tr : /\ Traces(tr, "place", <<e, in, session, next, targets>>, st0, seq, n)
                /\ tr[n] = PlaceFold(e, in, session, next, targets, st0, seq)
    BY <1>4, PlaceTrace
<1>9. ASSUME NEW m \in 0..n, m < n, IsState(tr[m])
      PROVE  IsState(tr[m + 1]) /\ Places(tr[m], tr[m + 1], session.date, next.date)
    <2>1. tr[m + 1] = FoldStep("place", <<e, in, session, next, targets>>, tr[m], seq[m + 1])
        BY <1>8, <1>9 DEF Traces
    <2>2. tr[m + 1] = PlaceOrder(e, in, session, next, tr[m], targets, seq[m + 1])
        BY <2>1 DEF FoldStep
    <2>3. Places(tr[m], tr[m + 1], session.date, next.date)
        BY <1>9, <2>2, PlaceShape
    <2> QED  BY <2>3 DEF Places
<1>10. tr[0] = st0
    BY <1>8 DEF Traces
<1> DEFINE T == {m \in 0..n : IsState(tr[m])}
<1>11. 0 \in T
    BY <1>6, <1>10 DEF Decided
<1>12. ASSUME NEW m \in 0..n, m < n, m \in T PROVE m + 1 \in T
    <2>1. IsState(tr[m + 1]) /\ m + 1 \in 0..n
        BY <1>9, <1>12
    <2> QED  BY <2>1
<1>13. \A m \in 0..n : IsState(tr[m])
    <2>1. 0..n \subseteq T
        <3> HIDE DEF T
        <3> QED  BY <1>11, <1>12, UpTo
    <2> QED  BY <2>1
<1>14. \A m \in 0..n : m < n => Places(tr[m], tr[m + 1], session.date, next.date)
    BY <1>9, <1>13
<1>15. tr[n] = PlaceFold(e, in, session, sessions[k + 1], targets, decided, chosen)
    BY <1>3, <1>5, <1>7, <1>8, Zenon
<1> HIDE DEF t
<1>16. \/ IsState(t) /\ t.halt # "none"
       \/ t = tr[n] /\ st.halt = "none"
    <2>1. \A reason : reason # "none" => LET u == Halt(st, reason)
                                         IN  IsState(u) /\ u.halt # "none"
        BY HaltShape
    <2> QED  BY <1>1, <1>15, <2>1, Zenon
<1>17. IsState(tr[n])
    BY <1>13
<1>18. Decides(st, t, session.date, next.date)
    BY <1>6, <1>10, <1>13, <1>14, <1>16, <1>17 DEF Decides
<1> QED  BY <1>7, <1>18 DEF t

LEMMA SessionShape ==
    ASSUME NEW e \in Specs, NEW k, NEW st, IsState(st)
    PROVE  /\ IsState(Session(e, Load(e), k, st))
           /\ Session(e, Load(e), k, st).halt = "none" => st.halt = "none"
<1>1. PICK in : in = Load(e)
    OBVIOUS
<1>2. IsFiniteSet(in.corporate_actions) /\ IsFiniteSet(e.universe) /\ IsFiniteSet(Securities)
    BY <1>1, SpecsAssumption, SecuritiesAssumption, FS_Subset DEF Kinds, TypedAccount
<1>3. PICK sessions : sessions = CalendarSessions(e, in)
    OBVIOUS
<1>4. PICK s : s = sessions[k]
    OBVIOUS
<1>5. PICK opened : opened = ApplyActions(e, in, st, s)
    OBVIOUS
<1>6. PICK traded : traded = ExecuteOrders(e, in, opened, s)
    OBVIOUS
<1>7. PICK marked : marked = Mark(e, in, traded, s)
    OBVIOUS
<1>8. IsState(opened) /\ (opened.halt = "none" => st.halt = "none")
    BY <1>2, <1>5, ActionsShape
<1>9. IsState(traded) /\ (traded.halt = "none" => opened.halt = "none")
    BY <1>6, <1>8, OrdersShape
<1>10. IsState(marked) /\ (marked.halt = "none" => traded.halt = "none")
    BY <1>7, <1>9, MarkShape DEF Marks
<1>11. PICK t : t = Decide(e, in, sessions, k, marked)
    OBVIOUS
<1>12. IsState(t) /\ (t.halt = "none" => marked.halt = "none")
    <2>1. Decides(marked, t, s.date, sessions[k + 1].date)
        BY <1>2, <1>4, <1>10, <1>11, DecideShape
    <2> QED  BY <2>1 DEF Decides
<1>13. Session(e, in, k, st) = IF k = Len(sessions) THEN marked ELSE t
    BY <1>3, <1>4, <1>5, <1>6, <1>7, <1>11, Zenon DEF Session
<1> QED  BY <1>1, <1>8, <1>9, <1>10, <1>12, <1>13

-----------------------------------------------------------------------------
(***************************************************************************)
(* The order book: P are the orders that are proposed; the others have one *)
(* fill of their quantity on their date or are counted as rejected.        *)
(***************************************************************************)
RejectedOrders(st) == {i \in DOMAIN st.orders : st.orders[i].status = "rejected"}

IsFilled(st, i) == \E f \in DOMAIN st.fills : st.fills[f].order = i

FillMatches(st, f) ==
    /\ st.fills[f].order \in DOMAIN st.orders
    /\ st.fills[f].date = st.orders[st.fills[f].order].execution
    /\ st.fills[f].qty  = st.orders[st.fills[f].order].qty

BookOK(st, P) ==
    /\ IsSeq(st.orders) /\ IsSeq(st.fills)
    /\ P \subseteq DOMAIN st.orders
    /\ \A i \in DOMAIN st.orders :
          /\ OrderFields \subseteq DOMAIN st.orders[i]
          /\ st.orders[i].status = "proposed" <=> i \in P
          /\ st.orders[i].status = "filled" <=> IsFilled(st, i)
    /\ \A f \in DOMAIN st.fills : FillMatches(st, f)
    /\ \A f, g \in DOMAIN st.fills : st.fills[f].order = st.fills[g].order => f = g
    /\ st.rejected = Cardinality(RejectedOrders(st))

SameDates(st, t) ==
    /\ DOMAIN t.orders = DOMAIN st.orders
    /\ \A i \in DOMAIN st.orders : /\ t.orders[i].decision = st.orders[i].decision
                                   /\ t.orders[i].execution = st.orders[i].execution

LEMMA RejectKeeps ==
    ASSUME NEW st, NEW P, BookOK(st, P), NEW i \in P, NEW t, Rejects(st, t, i)
    PROVE  BookOK(t, P \ {i}) /\ SameDates(st, t)
<1>1. i \in DOMAIN st.orders
    BY DEF BookOK
<1>2. t.orders = [x \in DOMAIN st.orders |-> t.orders[x]] /\ DOMAIN t.orders = DOMAIN st.orders
    BY DEF Rejects, SameCosts
<1>3. \A x \in DOMAIN st.orders : x # i => t.orders[x] = st.orders[x]
    BY DEF Rejects, SameCosts
<1>4. t.orders[i] = [st.orders[i] EXCEPT !.status = "rejected"]
    BY <1>1 DEF Rejects, SameCosts
<1>5. /\ DOMAIN t.orders[i] = DOMAIN st.orders[i] /\ t.orders[i].status = "rejected"
      /\ t.orders[i].decision = st.orders[i].decision
      /\ t.orders[i].execution = st.orders[i].execution /\ t.orders[i].qty = st.orders[i].qty
    BY <1>1, <1>4 DEF BookOK, OrderFields
<1>6. t.fills = st.fills
    BY DEF Rejects, SameCosts
<1>7. IsSeq(t.orders) /\ IsSeq(t.fills)
    BY <1>2, <1>6, ExceptFacts DEF BookOK
<1>8. \A x \in DOMAIN st.orders : /\ t.orders[x].execution = st.orders[x].execution
                                  /\ t.orders[x].qty = st.orders[x].qty
    BY <1>3, <1>5
<1>9. st.orders[i].status = "proposed" /\ ~IsFilled(st, i)
    BY <1>1 DEF BookOK
<1>10. \A x : IsFilled(t, x) <=> IsFilled(st, x)
    BY <1>6 DEF IsFilled
<1>11. t.rejected = Cardinality(RejectedOrders(t))
    <2>1. RejectedOrders(t) = RejectedOrders(st) \cup {i} /\ i \notin RejectedOrders(st)
        BY <1>1, <1>2, <1>3, <1>5, <1>9 DEF RejectedOrders
    <2>2. IsFiniteSet(RejectedOrders(st))
        BY SeqFacts, FS_Subset DEF RejectedOrders, BookOK
    <2>3. Cardinality(RejectedOrders(st) \cup {i}) = Cardinality(RejectedOrders(st)) + 1
        BY <2>1, <2>2, FS_AddElement
    <2> QED  BY <2>1, <2>3 DEF Rejects, BookOK, SameCosts
<1>12. \A x \in DOMAIN t.orders :
          /\ OrderFields \subseteq DOMAIN t.orders[x]
          /\ t.orders[x].status = "proposed" <=> x \in P \ {i}
          /\ t.orders[x].status = "filled" <=> IsFilled(t, x)
    BY <1>2, <1>3, <1>5, <1>9, <1>10 DEF BookOK
<1>13. ASSUME NEW f \in DOMAIN t.fills PROVE FillMatches(t, f)
    <2>1. FillMatches(st, f)
        BY <1>6, <1>13 DEF BookOK
    <2>2. PICK x : x = st.fills[f].order
        OBVIOUS
    <2>3. x \in DOMAIN st.orders /\ x \in DOMAIN t.orders
        BY <1>2, <2>1, <2>2 DEF FillMatches
    <2>4. t.orders[x].execution = st.orders[x].execution /\ t.orders[x].qty = st.orders[x].qty
        BY <1>8, <2>3
    <2> QED  BY <1>6, <2>1, <2>2, <2>3, <2>4, Zenon DEF FillMatches
<1>14. BookOK(t, P \ {i})
    BY <1>2, <1>6, <1>7, <1>11, <1>12, <1>13 DEF BookOK
<1>15. SameDates(st, t)
    BY <1>2, <1>3, <1>5 DEF SameDates
<1> QED  BY <1>14, <1>15

LEMMA FillKeeps ==
    ASSUME NEW st, NEW P, BookOK(st, P), NEW i \in P, NEW t,
           Fills(st, t, i, st.orders[i].execution)
    PROVE  BookOK(t, P \ {i}) /\ SameDates(st, t)
<1>0. PICK q, f :
          /\ t.orders = [st.orders EXCEPT ![i] = [@ EXCEPT !.status = "filled", !.qty = q]]
          /\ t.rejected = st.rejected
          /\ t.fills = Append(st.fills, f)
          /\ f.order = i /\ f.date = st.orders[i].execution /\ f.qty = q
    BY DEF Fills
<1>1. i \in DOMAIN st.orders
    BY DEF BookOK
<1>2. t.orders = [x \in DOMAIN st.orders |-> t.orders[x]] /\ DOMAIN t.orders = DOMAIN st.orders
    BY <1>0
<1>3. \A x \in DOMAIN st.orders : x # i => t.orders[x] = st.orders[x]
    BY <1>0
<1>4. t.orders[i] = [st.orders[i] EXCEPT !.status = "filled", !.qty = q]
    BY <1>0, <1>1
<1>5. /\ DOMAIN t.orders[i] = DOMAIN st.orders[i] /\ t.orders[i].status = "filled"
      /\ t.orders[i].decision = st.orders[i].decision
      /\ t.orders[i].execution = st.orders[i].execution /\ t.orders[i].qty = q
    BY <1>1, <1>4 DEF BookOK, OrderFields
<1>6. PICK new : new = Len(st.fills) + 1
    OBVIOUS
<1>7. /\ IsSeq(t.fills) /\ DOMAIN t.fills = (DOMAIN st.fills) \cup {new} /\ new \notin DOMAIN st.fills
      /\ \A g \in DOMAIN st.fills : t.fills[g] = st.fills[g]
      /\ t.fills[new] = f
    BY <1>0, <1>6, AppendFacts DEF BookOK
<1>8. IsSeq(t.orders)
    BY <1>2, ExceptFacts DEF BookOK
<1>9. st.orders[i].status = "proposed" /\ ~IsFilled(st, i)
    BY <1>1 DEF BookOK
<1>10. IsFilled(t, i) /\ \A x : x # i => (IsFilled(t, x) <=> IsFilled(st, x))
    BY <1>0, <1>7 DEF IsFilled
<1>11. t.rejected = Cardinality(RejectedOrders(t))
    <2>1. RejectedOrders(t) = RejectedOrders(st)
        BY <1>1, <1>2, <1>3, <1>5, <1>9 DEF RejectedOrders
    <2> QED  BY <2>1, <1>0 DEF BookOK
<1>12. \A x \in DOMAIN t.orders :
          /\ OrderFields \subseteq DOMAIN t.orders[x]
          /\ t.orders[x].status = "proposed" <=> x \in P \ {i}
          /\ t.orders[x].status = "filled" <=> IsFilled(t, x)
    BY <1>2, <1>3, <1>5, <1>9, <1>10 DEF BookOK
<1>13. \A g \in DOMAIN st.fills : st.fills[g].order \in DOMAIN st.orders /\ st.fills[g].order # i
    BY <1>9 DEF BookOK, FillMatches, IsFilled
<1>14. ASSUME NEW g \in DOMAIN t.fills
       PROVE  FillMatches(t, g)
    <2>1. CASE g = new
        BY <1>0, <1>1, <1>2, <1>5, <1>7, <2>1 DEF FillMatches
    <2>2. CASE g # new
        <3>1. g \in DOMAIN st.fills /\ t.fills[g] = st.fills[g]
            BY <1>7, <2>2
        <3>2. FillMatches(st, g)
            BY <3>1 DEF BookOK
        <3> QED  BY <1>2, <1>3, <1>13, <3>1, <3>2 DEF FillMatches
    <2> QED  BY <2>1, <2>2
<1>15. \A g, h \in DOMAIN t.fills : t.fills[g].order = t.fills[h].order => g = h
    BY <1>0, <1>7, <1>13 DEF BookOK
<1>16. BookOK(t, P \ {i})
    BY <1>2, <1>7, <1>8, <1>11, <1>12, <1>14, <1>15 DEF BookOK
<1>17. SameDates(st, t)
    BY <1>2, <1>3, <1>5 DEF SameDates
<1> QED  BY <1>16, <1>17

\* A new order is proposed, and the others stay what they are.
LEMMA PlaceKeeps ==
    ASSUME NEW st, NEW P, BookOK(st, P), NEW t, NEW o,
           t.orders = Append(st.orders, o), t.fills = st.fills, t.rejected = st.rejected,
           OrderFields \subseteq DOMAIN o, o.status = "proposed"
    PROVE  BookOK(t, P \cup {Len(st.orders) + 1})
<1>1. PICK new : new = Len(st.orders) + 1
    OBVIOUS
<1>2. /\ IsSeq(t.orders) /\ DOMAIN t.orders = (DOMAIN st.orders) \cup {new}
      /\ new \notin DOMAIN st.orders
      /\ \A x \in DOMAIN st.orders : t.orders[x] = st.orders[x]
      /\ t.orders[new] = o
    BY <1>1, AppendFacts DEF BookOK
<1>3. ~IsFilled(st, new)
    BY <1>2 DEF IsFilled, BookOK, FillMatches
<1>4. \A x : IsFilled(t, x) <=> IsFilled(st, x)
    BY DEF IsFilled
<1>5. RejectedOrders(t) = RejectedOrders(st)
    BY <1>2 DEF RejectedOrders
<1>6. \A x \in DOMAIN t.orders :
          /\ OrderFields \subseteq DOMAIN t.orders[x]
          /\ t.orders[x].status = "proposed" <=> x \in P \cup {new}
          /\ t.orders[x].status = "filled" <=> IsFilled(t, x)
    BY <1>2, <1>3, <1>4 DEF BookOK
<1>7. \A f \in DOMAIN t.fills : FillMatches(t, f)
    BY <1>2 DEF BookOK, FillMatches
<1>8. BookOK(t, P \cup {new})
    BY <1>2, <1>5, <1>6, <1>7 DEF BookOK
<1> QED  BY <1>1, <1>8

(***************************************************************************)
(* Executing the orders that are due settles each of them: rest(m) are     *)
(* those that are left after m (_execute_orders).                          *)
(***************************************************************************)
LEMMA InOrderEnumerates ==
    ASSUME NEW I, IsFiniteSet(I), I \subseteq Int, NEW n, n = Cardinality(I)
    PROVE  \E R : Enumerates(InOrder(I), I, R, n)
<1> DEFINE R == {p \in I \X I : p[1] < p[2]}
<1>1. \A x, y \in I : <<x, y>> \in R <=> x < y
    OBVIOUS
<1>2. Orders(R, I)
    <2> HIDE DEF R
    <2> QED  BY <1>1 DEF Orders
<1>3. \A x \in I : Below(R, I, x) = {y \in I : y < x}
    <2> HIDE DEF R
    <2> QED  BY <1>1 DEF Below
<1>4. InOrder(I) = [i \in 1..n |-> CHOOSE x \in I : Cardinality({y \in I : y < x}) = i - 1]
    BY Zenon DEF InOrder, Sorted
<1>5. \A i : (CHOOSE x \in I : Cardinality({y \in I : y < x}) = i - 1)
           = (CHOOSE x \in I : Cardinality(Below(R, I, x)) = i - 1)
    <2> HIDE DEF R
    <2> QED  BY <1>3
<1>6. InOrder(I) = [i \in 1..n |-> CHOOSE x \in I : Cardinality(Below(R, I, x)) = i - 1]
    <2> HIDE DEF R
    <2> QED  BY <1>4, <1>5, Zenon
<1>7. PICK s : s = InOrder(I)
    OBVIOUS
<1>8. s = [i \in 1..n |-> CHOOSE x \in I : Cardinality(Below(R, I, x)) = i - 1]
    BY <1>6, <1>7, Zenon
<1>9. Enumerates(s, I, R, n)
    <2> HIDE DEF R
    <2> QED  BY <1>2, <1>8, SortedEnumerates
<1> QED  BY <1>7, <1>9, Zenon

LEMMA SettleKeeps ==
    ASSUME NEW st, NEW P, BookOK(st, P), NEW i \in P, NEW t,
           Settles(st, t, i, st.orders[i].execution), t.halt = "none"
    PROVE  BookOK(t, P \ {i}) /\ SameDates(st, t) /\ st.halt = "none"
BY RejectKeeps, FillKeeps DEF Settles

LEMMA ExecutionKeeps ==
    ASSUME NEW st, IsState(st), BookOK(st, st.pending), NEW e, NEW in, NEW session,
           \A i \in st.pending : st.orders[i].execution = session.date,
           NEW t, t = ExecuteOrders(e, in, st, session), t.halt = "none"
    PROVE  /\ IsState(t) /\ BookOK(t, {}) /\ SameDates(st, t)
           /\ t.pending = {} /\ t.marks = st.marks /\ st.halt = "none"
<1>1. PICK seq : seq = InOrder(st.pending)
    OBVIOUS
<1>2. Due(st, session) = st.pending
    BY DEF Due
<1>3. PICK n \in Nat : \E tr : OrderTrail(st, session, t, n, tr)
    BY OrdersTraced, Zenon
<1>4. PICK tr :
          /\ n = Cardinality(st.pending)
          /\ tr[0] = Taken(st, session)
          /\ \A m \in 0..n : m < n => Executed(tr[m], tr[m + 1], seq[m + 1], session.date)
          /\ \A m \in 0..n : IsState(tr[m])
          /\ tr[n] = t
    <2>1. PICK tr : OrderTrail(st, session, t, n, tr)
        BY <1>3, Zenon
    <2> QED  BY <1>1, <1>2, <2>1, Zenon DEF OrderTrail
<1>5. PICK R : Enumerates(seq, st.pending, R, n)
    <2>1. st.pending \subseteq Nat
        BY SeqFacts DEF BookOK
    <2> QED  BY <1>1, <1>4, <2>1, InOrderEnumerates DEF IsState
<1> DEFINE rest(m) == {seq[x] : x \in {x \in 1..n : m < x}}
           Fine(m) == /\ BookOK(tr[m], rest(m)) /\ SameDates(st, tr[m])
                      /\ tr[m].pending = {} /\ tr[m].marks = st.marks /\ st.halt = "none"
           T == {m \in 0..n : tr[m].halt = "none" => Fine(m)}
<1>6. 0 \in T
    <2>1. PICK u : u = Taken(st, session)
        OBVIOUS
    <2>2. /\ u.orders = st.orders /\ u.fills = st.fills /\ u.rejected = st.rejected
          /\ u.marks = st.marks /\ u.halt = st.halt /\ u.pending = {}
        BY <1>2, <2>1 DEF Taken, IsState, StateFields
    <2>3. rest(0) = st.pending
        BY <1>5 DEF Enumerates
    <2>4. BookOK(u, st.pending)
        BY <2>2 DEF BookOK, FillMatches, IsFilled, RejectedOrders
    <2>5. SameDates(st, u)
        BY <2>2 DEF SameDates
    <2> HIDE DEF rest
    <2> QED  BY <1>4, <2>1, <2>2, <2>3, <2>4, <2>5
<1>7. ASSUME NEW m \in 0..n, m < n, m \in T PROVE m + 1 \in T
    <2>1. m + 1 \in 1..n /\ m + 1 \in 0..n
        BY <1>7
    <2>2. PICK a, b, i : a = tr[m] /\ b = tr[m + 1] /\ i = seq[m + 1]
        OBVIOUS
    <2>3. SUFFICES ASSUME b.halt = "none" PROVE Fine(m + 1)
        BY <2>1, <2>2
    <2>4. Settles(a, b, i, session.date) /\ a.halt = "none"
        BY <1>4, <1>7, <2>2, <2>3 DEF Executed, Settles
    <2>5. Fine(m)
        BY <1>7, <2>2, <2>4
    <2>6. i \in rest(m) /\ rest(m) \ {i} = rest(m + 1)
        <3>1. \A x \in 1..n : m < x <=> (m + 1 < x \/ x = m + 1)
            BY <2>1
        <3>2. \A x \in 1..n : m + 1 < x => seq[x] # seq[m + 1]
            BY <1>5, <2>1 DEF Enumerates
        <3> QED  BY <2>1, <2>2, <3>1, <3>2
    <2>7. i \in st.pending /\ i \in DOMAIN st.orders
        BY <1>5, <2>1, <2>2 DEF Enumerates, BookOK
    <2>8. a.orders[i].execution = session.date
        BY <2>2, <2>5, <2>7 DEF SameDates
    <2> HIDE DEF rest
    <2>9. BookOK(b, rest(m) \ {i}) /\ SameDates(a, b)
        BY <2>2, <2>3, <2>4, <2>5, <2>6, <2>8, SettleKeeps
    <2>10. b.pending = {} /\ b.marks = st.marks /\ st.halt = "none"
        BY <2>2, <2>4, <2>5 DEF Settles
    <2>11. SameDates(st, b)
        BY <2>2, <2>5, <2>9 DEF SameDates
    <2> QED  BY <2>2, <2>6, <2>9, <2>10, <2>11
<1>8. n \in T
    <2> HIDE DEF T
    <2>1. 0..n \subseteq T
        BY <1>6, <1>7, UpTo
    <2> QED  BY <2>1
<1>9. rest(n) = {}
    OBVIOUS
<1> HIDE DEF rest
<1> QED  BY <1>4, <1>8, <1>9

-----------------------------------------------------------------------------
(***************************************************************************)
(* When an order was decided and is due, D being the dates of the n        *)
(* sessions and k of them having run: the orders of session k are those    *)
(* that are proposed.                                                      *)
(***************************************************************************)
DecidedAt(o, D, j) == o.decision = D[j] /\ o.execution = D[j + 1]

Timely(st, P, D, n, k) ==
    \A i \in DOMAIN st.orders : \E j \in 1..n :
        j < n /\ j <= k /\ DecidedAt(st.orders[i], D, j) /\ (i \in P <=> j = k)

MarksAre(st, D, k) ==
    IsSeq(st.marks) /\ Len(st.marks) = k /\ \A i \in 1..k : st.marks[i].date = D[i]

OrderInv(st, D, n, k) ==
    /\ IsState(st)
    /\ BookOK(st, st.pending)
    /\ Timely(st, st.pending, D, n, k)
    /\ MarksAre(st, D, k)

\* What the invariant depends on.
LEMMA SameOrdersSameBook ==
    ASSUME NEW st, NEW t, SameOrders(st, t), NEW P, BookOK(st, P)
    PROVE  BookOK(t, P)
BY DEF SameOrders, BookOK, FillMatches, IsFilled, RejectedOrders, SameCosts

LEMMA SameOrdersSameInv ==
    ASSUME NEW st, NEW t, IsState(t), SameOrders(st, t), t.marks = st.marks,
           NEW D, NEW n, NEW k, OrderInv(st, D, n, k)
    PROVE  OrderInv(t, D, n, k)
<1>1. BookOK(t, t.pending)
    BY SameOrdersSameBook DEF OrderInv, SameOrders, SameCosts
<1>2. Timely(t, t.pending, D, n, k)
    BY DEF OrderInv, SameOrders, Timely, SameCosts
<1>3. MarksAre(t, D, k)
    BY DEF OrderInv, MarksAre
<1> QED  BY <1>1, <1>2, <1>3 DEF OrderInv

LEMMA InitialOrders ==
    ASSUME NEW e, NEW in, NEW D, NEW n \in Nat
    PROVE  OrderInv(Initial(e, in), D, n, 0)
<1>1. PICK st : st = Initial(e, in)
    OBVIOUS
<1>2. /\ IsState(st) /\ st.orders = <<>> /\ st.fills = <<>> /\ st.marks = <<>>
      /\ st.pending = {} /\ st.rejected = 0
    BY <1>1, InitialIsState DEF Initial
<1>3. IsSeq(<<>>) /\ DOMAIN <<>> = {} /\ Len(<<>>) = 0
    BY DEF IsSeq
<1>4. RejectedOrders(st) = {}
    BY <1>2, <1>3 DEF RejectedOrders
<1>5. BookOK(st, st.pending)
    BY <1>2, <1>3, <1>4, FS_EmptySet DEF BookOK
<1>6. Timely(st, st.pending, D, n, 0) /\ MarksAre(st, D, 0)
    BY <1>2, <1>3 DEF Timely, MarksAre
<1> QED  BY <1>1, <1>2, <1>5, <1>6 DEF OrderInv

(***************************************************************************)
(* The orders of a decision are due at the next session.                   *)
(***************************************************************************)
LEMMA PlacesKeeps ==
    ASSUME NEW n \in Nat, NEW k \in 1..n, k < n, NEW D,
           NEW st, OrderInv(st, D, n, k), NEW t, Places(st, t, D[k], D[k + 1])
    PROVE  OrderInv(t, D, n, k)
<1>1. CASE t.orders = st.orders /\ t.pending = st.pending
    BY <1>1, SameOrdersSameInv DEF Places, SameOrders, SameCosts
<1>2. CASE \E o : /\ t.orders = Append(st.orders, o)
                  /\ t.pending = st.pending \cup {Len(st.orders) + 1}
                  /\ o.decision = D[k] /\ o.execution = D[k + 1] /\ o.status = "proposed"
                  /\ OrderFields \subseteq DOMAIN o
    <2>1. PICK o : /\ t.orders = Append(st.orders, o)
                   /\ t.pending = st.pending \cup {Len(st.orders) + 1}
                   /\ o.decision = D[k] /\ o.execution = D[k + 1] /\ o.status = "proposed"
                   /\ OrderFields \subseteq DOMAIN o
        BY <1>2
    <2>2. PICK new : new = Len(st.orders) + 1
        OBVIOUS
    <2>3. /\ DOMAIN t.orders = (DOMAIN st.orders) \cup {new}
          /\ new \notin DOMAIN st.orders
          /\ \A x \in DOMAIN st.orders : t.orders[x] = st.orders[x]
          /\ t.orders[new] = o
        BY <2>1, <2>2, AppendFacts DEF OrderInv, BookOK
    <2>4. BookOK(t, t.pending)
        BY <2>1, PlaceKeeps DEF OrderInv, Places
    <2>5. Timely(t, t.pending, D, n, k)
        <3>1. ASSUME NEW i \in DOMAIN st.orders
              PROVE  \E j \in 1..n : /\ j < n /\ j <= k /\ DecidedAt(t.orders[i], D, j)
                                     /\ (i \in t.pending <=> j = k)
            <4>1. i \in t.pending <=> i \in st.pending
                BY <2>1, <2>2, <2>3
            <4>2. t.orders[i] = st.orders[i]
                BY <2>3
            <4> QED  BY <4>1, <4>2 DEF OrderInv, Timely
        <3>2. DecidedAt(t.orders[new], D, k) /\ new \in t.pending
            BY <2>1, <2>2, <2>3 DEF DecidedAt
        <3>3. \E j \in 1..n : /\ j < n /\ j <= k /\ DecidedAt(t.orders[new], D, j)
                              /\ (new \in t.pending <=> j = k)
            BY <3>2
        <3> QED  BY <2>3, <3>1, <3>3 DEF Timely
    <2>6. MarksAre(t, D, k)
        BY DEF MarksAre, OrderInv, Places
    <2> QED  BY <2>4, <2>5, <2>6 DEF OrderInv, Places
<1> QED  BY <1>1, <1>2 DEF Places

LEMMA DecidesKeeps ==
    ASSUME NEW n \in Nat, NEW k \in 1..n, k < n, NEW D,
           NEW st, OrderInv(st, D, n, k), NEW t, Decides(st, t, D[k], D[k + 1]), t.halt = "none"
    PROVE  OrderInv(t, D, n, k) /\ st.halt = "none"
<1>1. PICK c \in Nat : \E tr : /\ Decided(st, tr[0])
                               /\ \A m \in 0..c : m < c => Places(tr[m], tr[m + 1], D[k], D[k + 1])
                               /\ t = tr[c]
    BY DEF Decides
<1>2. PICK tr : /\ Decided(st, tr[0])
                /\ \A m \in 0..c : m < c => Places(tr[m], tr[m + 1], D[k], D[k + 1])
                /\ t = tr[c]
    BY <1>1
<1> DEFINE T == {m \in 0..c : OrderInv(tr[m], D, n, k)}
<1>3. 0 \in T
    BY <1>2, SameOrdersSameInv DEF Decided
<1>4. ASSUME NEW m \in 0..c, m < c, m \in T PROVE m + 1 \in T
    BY <1>2, <1>4, PlacesKeeps
<1>5. c \in T
    <2> HIDE DEF T
    <2>1. 0..c \subseteq T
        BY <1>3, <1>4, UpTo
    <2> QED  BY <2>1
<1> QED  BY <1>2, <1>5 DEF Decides

\* A session that does not halt settles the orders of the one before and marks its date.
LEMMA ExecutedOrders ==
    ASSUME NEW n \in Nat, NEW k \in 0..n, k < n, NEW D,
           NEW st, OrderInv(st, D, n, k), NEW e, NEW in, NEW session, session.date = D[k + 1],
           NEW t, t = ExecuteOrders(e, in, st, session), t.halt = "none"
    PROVE  /\ IsState(t) /\ BookOK(t, {}) /\ t.pending = {} /\ Timely(t, {}, D, n, k + 1)
           /\ MarksAre(t, D, k) /\ st.halt = "none"
<1>1. \A i \in st.pending : st.orders[i].execution = session.date
    <2> SUFFICES ASSUME NEW i \in st.pending PROVE st.orders[i].execution = session.date
        OBVIOUS
    <2>1. i \in DOMAIN st.orders
        BY DEF OrderInv, BookOK
    <2>2. DecidedAt(st.orders[i], D, k)
        BY <2>1 DEF OrderInv, Timely
    <2> QED  BY <2>2 DEF DecidedAt
<1>2. /\ IsState(t) /\ BookOK(t, {}) /\ SameDates(st, t)
      /\ t.pending = {} /\ t.marks = st.marks /\ st.halt = "none"
    BY <1>1, ExecutionKeeps DEF OrderInv
<1>3. ASSUME NEW i \in DOMAIN t.orders
      PROVE  \E j \in 1..n : j < n /\ j <= k + 1 /\ DecidedAt(t.orders[i], D, j) /\ j # k + 1
    <2>1. PICK j \in 1..n : j < n /\ j <= k /\ DecidedAt(st.orders[i], D, j)
        BY <1>2, <1>3 DEF OrderInv, Timely, SameDates
    <2>2. DecidedAt(t.orders[i], D, j)
        BY <1>2, <1>3, <2>1 DEF DecidedAt, SameDates
    <2>3. j <= k + 1 /\ j # k + 1
        BY <2>1
    <2> QED  BY <2>1, <2>2, <2>3
<1>4. Timely(t, {}, D, n, k + 1)
    BY <1>3 DEF Timely
<1>5. MarksAre(t, D, k)
    BY <1>2 DEF OrderInv, MarksAre
<1> QED  BY <1>2, <1>4, <1>5

LEMMA MarksKeeps ==
    ASSUME NEW n \in Nat, NEW k \in 0..n, k < n, NEW D,
           NEW st, BookOK(st, {}), st.pending = {}, Timely(st, {}, D, n, k + 1), MarksAre(st, D, k),
           NEW t, Marks(st, t, D[k + 1]), t.halt = "none"
    PROVE  OrderInv(t, D, n, k + 1) /\ st.halt = "none"
<1>1. PICK m : t.marks = Append(st.marks, m) /\ m.date = D[k + 1]
    BY DEF Marks
<1>2. MarksAre(t, D, k + 1)
    <2>1. /\ IsSeq(t.marks) /\ Len(t.marks) = k + 1
          /\ \A i \in DOMAIN st.marks : t.marks[i] = st.marks[i]
          /\ t.marks[k + 1] = m
        BY <1>1, AppendFacts DEF MarksAre
    <2>2. DOMAIN st.marks = 1..k
        BY SeqFacts DEF MarksAre
    <2>3. \A i \in 1..(k + 1) : i \in 1..k \/ i = k + 1
        OBVIOUS
    <2> QED  BY <1>1, <2>1, <2>2, <2>3 DEF MarksAre
<1>3. BookOK(t, t.pending)
    BY SameOrdersSameBook DEF Marks, SameOrders, SameCosts
<1>4. Timely(t, t.pending, D, n, k + 1)
    BY DEF Marks, SameOrders, Timely, SameCosts
<1> QED  BY <1>2, <1>3, <1>4 DEF OrderInv, Marks

LEMMA SessionKeepsOrders ==
    ASSUME NEW e \in Specs, NEW n \in Nat, NEW k \in 0..n, k < n, NEW D,
           n = Len(CalendarSessions(e, Load(e))),
           \A i \in 1..n : CalendarSessions(e, Load(e))[i].date = D[i],
           NEW st, OrderInv(st, D, n, k),
           NEW t, t = Session(e, Load(e), k + 1, st), t.halt = "none"
    PROVE  OrderInv(t, D, n, k + 1)
<1>1. PICK in : in = Load(e)
    OBVIOUS
<1>2. IsFiniteSet(in.corporate_actions) /\ IsFiniteSet(e.universe) /\ IsFiniteSet(Securities)
    BY <1>1, SpecsAssumption, SecuritiesAssumption, FS_Subset DEF Kinds, TypedAccount
<1>3. PICK sessions : sessions = CalendarSessions(e, in)
    OBVIOUS
<1>4. PICK s : s = sessions[k + 1]
    OBVIOUS
<1>5. PICK opened : opened = ApplyActions(e, in, st, s)
    OBVIOUS
<1>6. PICK traded : traded = ExecuteOrders(e, in, opened, s)
    OBVIOUS
<1>7. PICK marked : marked = Mark(e, in, traded, s)
    OBVIOUS
<1>8. t = IF k + 1 = Len(sessions) THEN marked ELSE Decide(e, in, sessions, k + 1, marked)
    BY <1>1, <1>3, <1>4, <1>5, <1>6, <1>7, Zenon DEF Session
<1>9. n = Len(sessions) /\ k + 1 \in 1..n /\ s.date = D[k + 1]
    BY <1>1, <1>3, <1>4
<1>10. /\ IsState(opened) /\ SameOrders(st, opened) /\ opened.marks = st.marks
    BY <1>2, <1>5, ActionsShape DEF OrderInv
<1>11. OrderInv(opened, D, n, k)
    BY <1>10, SameOrdersSameInv
<1>12. traded.halt = "none" =>
           /\ IsState(traded) /\ BookOK(traded, {}) /\ traded.pending = {}
           /\ Timely(traded, {}, D, n, k + 1) /\ MarksAre(traded, D, k) /\ opened.halt = "none"
    BY <1>6, <1>9, <1>11, ExecutedOrders
<1>13. marked.halt = "none" => OrderInv(marked, D, n, k + 1) /\ traded.halt = "none"
    <2> SUFFICES ASSUME marked.halt = "none"
                 PROVE  OrderInv(marked, D, n, k + 1) /\ traded.halt = "none"
        OBVIOUS
    <2>1. IsState(traded)
        BY <1>6, <1>10, OrdersShape
    <2>2. Marks(traded, marked, D[k + 1])
        BY <1>7, <1>9, <2>1, MarkShape
    <2>3. traded.halt = "none"
        BY <2>2 DEF Marks
    <2> QED  BY <1>12, <2>2, <2>3, MarksKeeps
<1>14. CASE k + 1 = n
    BY <1>8, <1>9, <1>10, <1>12, <1>13, <1>14
<1>15. CASE k + 1 # n
    <2>1. t = Decide(e, in, sessions, k + 1, marked)
        BY <1>8, <1>9, <1>15
    <2>2. IsState(marked)
        <3>1. IsState(traded)
            BY <1>6, <1>10, OrdersShape
        <3> QED  BY <1>7, <3>1, MarkShape DEF Marks
    <2>3. (k + 1) + 1 \in 1..n /\ k + 1 < n
        BY <1>9, <1>15
    <2>4. sessions[k + 1].date = D[k + 1] /\ sessions[(k + 1) + 1].date = D[(k + 1) + 1]
        BY <1>1, <1>3, <1>9, <2>3
    <2>5. Decides(marked, t, D[k + 1], D[(k + 1) + 1])
        BY <1>2, <2>1, <2>2, <2>4, DecideShape
    <2>6. marked.halt = "none"
        BY <2>5 DEF Decides
    <2>7. OrderInv(marked, D, n, k + 1) /\ traded.halt = "none"
        BY <1>13, <2>6
    <2>8. OrderInv(t, D, n, k + 1)
        BY <1>9, <2>3, <2>5, <2>7, DecidesKeeps
    <2> QED  BY <1>10, <1>12, <2>7, <2>8
<1> QED  BY <1>14, <1>15

-----------------------------------------------------------------------------
(***************************************************************************)
(* After(e, k) is the state of experiment e after k sessions without any   *)
(* interruption, which is what one more session makes of After(e, k - 1).  *)
(***************************************************************************)
After(e, k) == SessionFold(e, Load(e), Initial(e, Load(e)), [i \in 1..k |-> i])

LEMMA UninterruptedIsAfter ==
    \A k : Uninterrupted(Load(spec), k) = After(spec, k)
BY Zenon DEF Uninterrupted, After, SessionFold

LEMMA AfterTraced ==
    ASSUME NEW e, NEW n \in Nat
    PROVE  \E tr : /\ tr[0] = Initial(e, Load(e)) /\ tr[n] = After(e, n)
                   /\ \A m \in 0..n : m < n => tr[m + 1] = Session(e, Load(e), m + 1, tr[m])
<1>1. PICK seq : seq = [i \in 1..n |-> i]
    OBVIOUS
<1>2. PICK in, st : in = Load(e) /\ st = Initial(e, in)
    OBVIOUS
<1>3. DOMAIN seq = 1..n
    BY <1>1
<1>4. PICK tr : Traces(tr, "session", <<e, in>>, st, seq, n) /\ tr[n] = SessionFold(e, in, st, seq)
    BY <1>3, SessionTrace
<1>5. ASSUME NEW m \in 0..n, m < n PROVE tr[m + 1] = Session(e, in, m + 1, tr[m])
    <2>1. tr[m + 1] = FoldStep("session", <<e, in>>, tr[m], seq[m + 1])
        BY <1>4, <1>5 DEF Traces
    <2>2. seq[m + 1] = m + 1
        BY <1>1, <1>5
    <2> QED  BY <2>1, <2>2 DEF FoldStep
<1>6. tr[0] = st
    BY <1>4 DEF Traces
<1>7. tr[n] = After(e, n)
    BY <1>1, <1>2, <1>4, Zenon DEF After
<1> QED  BY <1>2, <1>5, <1>6, <1>7

LEMMA AfterNone ==
    ASSUME NEW e
    PROVE  After(e, 0) = Initial(e, Load(e))
BY AfterTraced

LEMMA AfterNext ==
    ASSUME NEW e, NEW n \in Nat
    PROVE  After(e, n + 1) = Session(e, Load(e), n + 1, After(e, n))
<1>1. PICK f : /\ f[0] = Initial(e, Load(e)) /\ f[n] = After(e, n)
               /\ \A m \in 0..n : m < n => f[m + 1] = Session(e, Load(e), m + 1, f[m])
    BY AfterTraced
<1>2. PICK k \in Nat : k = n + 1
    OBVIOUS
<1>3. PICK g : /\ g[0] = Initial(e, Load(e)) /\ g[k] = After(e, k)
               /\ \A m \in 0..k : m < k => g[m + 1] = Session(e, Load(e), m + 1, g[m])
    BY AfterTraced
<1> DEFINE T == {m \in 0..n : f[m] = g[m]}
<1>4. 0 \in T
    BY <1>1, <1>3
<1>5. ASSUME NEW m \in 0..n, m < n, m \in T PROVE m + 1 \in T
    <2>1. m \in 0..k /\ m < k /\ m + 1 \in 0..n
        BY <1>2, <1>5
    <2>2. f[m] = g[m]
        BY <1>5
    <2>3. f[m + 1] = g[m + 1]
        BY <1>1, <1>3, <1>5, <2>1, <2>2
    <2> QED  BY <2>1, <2>3
<1>6. f[n] = g[n]
    <2>1. 0..n \subseteq T
        <3> HIDE DEF T
        <3> QED  BY <1>4, <1>5, UpTo
    <2> QED  BY <2>1
<1>7. n \in 0..k /\ n < k
    BY <1>2
<1> QED  BY <1>1, <1>2, <1>3, <1>6, <1>7

LEMMA AfterIsState ==
    ASSUME NEW e \in Specs, NEW n \in Nat
    PROVE  IsState(After(e, n))
<1> DEFINE T == {m \in Nat : IsState(After(e, m))}
<1>1. 0 \in T
    BY AfterNone, InitialIsState
<1>2. ASSUME NEW m \in Nat, m \in T PROVE m + 1 \in T
    BY <1>2, AfterNext, SessionShape
<1>3. Nat \subseteq T
    <2> HIDE DEF T
    <2> QED  BY <1>1, <1>2, NatInduct
<1> QED  BY <1>3

-----------------------------------------------------------------------------
(***************************************************************************)
(* Commands.  The inductive invariant: what a command that goes on holds   *)
(* is what the experiment comes to after k sessions, and a checkpoint says *)
(* the same of its session; in between only k and the files tell commands  *)
(* apart.                                                                  *)
(***************************************************************************)
NumberOf(e) == Cardinality({r \in Load(e).calendar :
                               e.period.start <= r.date /\ r.date <= e.period.end})

LEMMA SessionsCounted ==
    ASSUME NEW e \in Specs
    PROVE  /\ NumberOf(e) \in Nat
           /\ Len(CalendarSessions(e, Load(e))) = NumberOf(e)
           /\ DOMAIN CalendarSessions(e, Load(e)) = 1..NumberOf(e)
<1> DEFINE S == {r \in Load(e).calendar : e.period.start <= r.date /\ r.date <= e.period.end}
<1>1. IsFiniteSet(S)
    BY SpecsAssumption, FS_Subset DEF Kinds
<1>2. PICK n \in Nat : n = Cardinality(S)
    BY <1>1, FS_CardinalityType
<1>3. PICK s : s = CalendarSessions(e, Load(e))
    OBVIOUS
<1>4. s = [i \in 1..n |-> s[i]]
    <2> DEFINE x(i) == CHOOSE r \in S : Cardinality({q \in S : q.date < r.date}) = i - 1
    <2>1. s = [i \in 1..n |-> x(i)]
        BY <1>2, <1>3, Zenon DEF CalendarSessions, Sorted
    <2> HIDE DEF x
    <2> QED  BY <2>1
<1>5. s \in [1..n -> {s[i] : i \in 1..n}]
    BY <1>4
<1>6. s \in Seq({s[i] : i \in 1..n})
    BY <1>5, SeqDef
<1>7. DOMAIN s = 1..n /\ Len(s) = n
    BY <1>5, <1>6, LenProperties
<1> QED  BY <1>2, <1>3, <1>7 DEF NumberOf

Good(e, r) ==
    /\ r = [f \in {"pc", "k", "st", "saves", "stop"} |-> r[f]]
    /\ r.pc \in {"running", "saving", "done"}
    /\ r.k \in 0..NumberOf(e) /\ (r.pc = "saving" => r.k # 0)
    /\ r.pc = "done" => r.k = NumberOf(e)
    /\ r.st = After(e, r.k) /\ r.st.halt = "none"

Saved(e, k, p) ==
    /\ k \in 1..NumberOf(e)
    /\ p = [spec |-> e, next |-> k, state |-> StateDocument(After(e, k))]
    /\ After(e, k).halt = "none"

RunInv ==
    /\ spec \in Specs
    /\ run = [c \in Commands |-> run[c]]
    /\ \A c \in Commands : Live(c) => Good(spec, run[c])
    /\ \A k \in DOMAIN checkpoints : Saved(spec, k, checkpoints[k])

LEMMA RunInvImplies == RunInv => ResumeIsTransparent
<1> SUFFICES ASSUME RunInv PROVE ResumeIsTransparent
    OBVIOUS
<1>1. ASSUME NEW c \in Commands, Live(c)
      PROVE  run[c].pc # "conflict" /\ run[c].st = Uninterrupted(Load(spec), run[c].k)
    <2>1. Good(spec, run[c])
        BY <1>1 DEF RunInv
    <2> QED  BY <2>1, UninterruptedIsAfter DEF Good
<1>2. ASSUME NEW k \in DOMAIN checkpoints
      PROVE  checkpoints[k].state = StateDocument(Uninterrupted(Load(spec), k))
    <2>1. Saved(spec, k, checkpoints[k])
        BY <1>2 DEF RunInv
    <2>2. checkpoints[k].state = StateDocument(After(spec, k))
        BY <2>1 DEF Saved
    <2>3. Uninterrupted(Load(spec), k) = After(spec, k)
        BY UninterruptedIsAfter
    <2> QED  BY <2>2, <2>3, Zenon
<1> QED  BY <1>1, <1>2 DEF ResumeIsTransparent

LEMMA RunInvInit == Init => RunInv
<1> SUFFICES ASSUME Init PROVE RunInv
    OBVIOUS
<1>1. \A c \in Commands : ~Live(c)
    BY DEF Init, Live, Idle
<1>2. DOMAIN checkpoints = {}
    BY DEF Init
<1> QED  BY <1>1, <1>2 DEF Init, RunInv

\* What a restored checkpoint gives back.
LEMMA RestoredIsTheState ==
    ASSUME NEW st, IsState(st), st.halt = "none"
    PROVE  Restored(StateDocument(st)) = st
<1>1. PICK doc : doc = StateDocument(st)
    OBVIOUS
<1>2. DOMAIN doc = StateFields \ {"halt"} /\ \A f \in StateFields \ {"halt"} : doc[f] = st[f]
    BY <1>1 DEF StateDocument, IsState, StateFields
<1>3. (DOMAIN doc) \cup {"halt"} = StateFields
    BY <1>2 DEF StateFields
<1>4. Restored(doc) = [f \in StateFields |-> IF f = "halt" THEN "none" ELSE doc[f]]
    BY <1>3, Zenon DEF Restored
<1>5. \A f \in StateFields : (IF f = "halt" THEN "none" ELSE doc[f]) = st[f]
    BY <1>2
<1>6. Restored(doc) = [f \in StateFields |-> st[f]]
    BY <1>4, <1>5, Zenon
<1> QED  BY <1>1, <1>6 DEF IsState

\* Where a step changes one command at most and no checkpoint.
LEMMA RunInvStep ==
    ASSUME RunInv, NEW c \in Commands, NEW r, run' = [run EXCEPT ![c] = r],
           UNCHANGED <<spec, checkpoints>>,
           r.pc \in {"idle", "failed"} \/ Good(spec, r)
    PROVE  RunInv'
<1>1. \A d \in Commands : run'[d] = IF d = c THEN r ELSE run[d]
    BY DEF RunInv
<1>2. run' = [d \in Commands |-> run'[d]]
    BY DEF RunInv
<1>3. ASSUME NEW d \in Commands, Live(d)' PROVE Good(spec', run'[d])
    BY <1>1, <1>3 DEF RunInv, Live
<1> QED  BY <1>2, <1>3 DEF RunInv

LEMMA RunInvSession ==
    ASSUME RunInv, NEW c \in Commands, RunSession(c)
    PROVE  RunInv'
<1>1. PICK r : r = run[c]
    OBVIOUS
<1>2. Good(spec, r) /\ r.pc = "running"
    BY <1>1 DEF RunInv, RunSession, Live
<1>3. PICK n : n = NumberOf(spec)
    OBVIOUS
<1>4. n \in Nat /\ Len(Sessions) = n
    BY <1>3, SessionsCounted DEF RunInv, Sessions
<1>5. PICK k \in Nat : k = r.k
    BY <1>2, <1>3, <1>4 DEF Good
<1>6. k < n
    BY <1>1, <1>4, <1>5 DEF RunSession
<1>7. PICK after : after = Session(spec, Load(spec), k + 1, r.st)
    OBVIOUS
<1>8. after = After(spec, k + 1)
    <2>1. r.st = After(spec, k)
        BY <1>2, <1>5 DEF Good
    <2> QED  BY <1>7, <2>1, AfterNext DEF RunInv
<1>9. PICK s : s = [r EXCEPT !.pc = IF after.halt # "none" THEN "failed"
                                    ELSE IF r.saves THEN "saving" ELSE "running",
                             !.k = @ + 1, !.st = after]
    OBVIOUS
<1>10. run' = [run EXCEPT ![c] = s] /\ UNCHANGED <<spec, checkpoints>>
    <2>1. after = Session(spec, Load(spec), run[c].k + 1, run[c].st)
        BY <1>1, <1>5, <1>7
    <2>2. s = [run[c] EXCEPT !.pc = IF after.halt # "none" THEN "failed"
                                    ELSE IF run[c].saves THEN "saving" ELSE "running",
                             !.k = @ + 1, !.st = after]
        BY <1>1, <1>9, Zenon
    <2> QED  BY <2>1, <2>2, Zenon DEF RunSession
<1>11. /\ s = [f \in {"pc", "k", "st", "saves", "stop"} |-> s[f]]
       /\ s.k = k + 1 /\ s.st = after
       /\ s.pc = IF after.halt # "none" THEN "failed" ELSE IF r.saves THEN "saving" ELSE "running"
    BY <1>2, <1>5, <1>9 DEF Good
<1>12. s.pc = "failed" \/ Good(spec, s)
    <2>1. k + 1 \in 0..NumberOf(spec) /\ k + 1 # 0
        BY <1>3, <1>4, <1>6
    <2> QED  BY <1>8, <1>11, <2>1 DEF Good
<1> QED  BY <1>10, <1>12, RunInvStep

LEMMA RunInvWrite ==
    ASSUME RunInv, NEW c \in Commands, WriteCheckpoint(c)
    PROVE  RunInv'
<1>1. PICK r, k : r = run[c] /\ k = r.k
    OBVIOUS
<1>2. Good(spec, r) /\ r.pc = "saving"
    BY <1>1 DEF RunInv, WriteCheckpoint, Live
<1>3. NumberOf(spec) \in Nat
    BY SessionsCounted DEF RunInv
<1>4. PICK payload : payload = CheckpointPayload(k, r.st)
    OBVIOUS
<1>5. Saved(spec, k, payload)
    BY <1>1, <1>2, <1>3, <1>4 DEF Good, Saved, CheckpointPayload
<1>6. k \in DOMAIN checkpoints => checkpoints[k] = payload
    BY <1>5 DEF RunInv, Saved
<1>7. PICK s : s = IF r.stop = k THEN Idle ELSE [r EXCEPT !.pc = "running"]
    OBVIOUS
<1>8. run' = [run EXCEPT ![c] = s] /\ spec' = spec
    BY <1>1, <1>4, <1>6, <1>7, Zenon DEF WriteCheckpoint
<1>9. \A i \in DOMAIN checkpoints' :
          \/ i = k /\ checkpoints'[i] = payload
          \/ i \in DOMAIN checkpoints /\ checkpoints'[i] = checkpoints[i]
    <2>1. checkpoints' = IF k \in DOMAIN checkpoints THEN checkpoints
                         ELSE [i \in DOMAIN checkpoints \cup {k} |->
                                  IF i = k THEN payload ELSE checkpoints[i]]
        BY <1>1, <1>4, Zenon DEF WriteCheckpoint
    <2>2. CASE k \in DOMAIN checkpoints
        BY <2>1, <2>2
    <2>3. CASE k \notin DOMAIN checkpoints
        <3>1. checkpoints' = [i \in DOMAIN checkpoints \cup {k} |->
                                  IF i = k THEN payload ELSE checkpoints[i]]
            BY <2>1, <2>3
        <3> QED  BY <3>1
    <2> QED  BY <2>2, <2>3
<1>10. s.pc = "idle" \/ Good(spec, s)
    <2>1. CASE r.stop = k
        BY <1>7, <2>1 DEF Idle
    <2>2. CASE r.stop # k
        BY <1>2, <1>7, <2>2 DEF Good
    <2> QED  BY <2>1, <2>2
<1>11. \A d \in Commands : run'[d] = IF d = c THEN s ELSE run[d]
    BY <1>8 DEF RunInv
<1>12. run' = [d \in Commands |-> run'[d]]
    BY <1>8 DEF RunInv
<1>13. ASSUME NEW d \in Commands, Live(d)' PROVE Good(spec', run'[d])
    BY <1>8, <1>10, <1>11, <1>13 DEF RunInv, Live
<1>14. ASSUME NEW i \in DOMAIN checkpoints' PROVE Saved(spec', i, checkpoints'[i])
    BY <1>5, <1>8, <1>9 DEF RunInv
<1> QED  BY <1>8, <1>12, <1>13, <1>14 DEF RunInv

LEMMA RunInvResume ==
    ASSUME RunInv, NEW c \in Commands, Resume(c)
    PROVE  RunInv'
<1>1. PICK k : k = LatestCheckpoint
    OBVIOUS
<1>2. k \in DOMAIN checkpoints
    <2>1. NumberOf(spec) \in Nat
        BY SessionsCounted DEF RunInv
    <2>2. DOMAIN checkpoints \subseteq 0..NumberOf(spec)
        BY <2>1 DEF RunInv, Saved
    <2>3. DOMAIN checkpoints # {}
        BY DEF Resume, LatestCheckpoint
    <2>4. Largest(DOMAIN checkpoints) \in DOMAIN checkpoints
        BY <2>1, <2>2, <2>3, MaxOf
    <2> QED  BY <1>1, <2>3, <2>4 DEF LatestCheckpoint
<1>3. Saved(spec, k, checkpoints[k])
    BY <1>2 DEF RunInv
<1>4. IsState(After(spec, k))
    <2>1. NumberOf(spec) \in Nat
        BY SessionsCounted DEF RunInv
    <2>2. k \in Nat
        BY <1>3, <2>1 DEF Saved
    <2> QED  BY <2>2, AfterIsState DEF RunInv
<1>5. RestoreCheckpoint(checkpoints[k]) = After(spec, k)
    BY <1>3, <1>4, RestoredIsTheState DEF Saved, RestoreCheckpoint
<1>6. PICK s : s = [pc |-> "running", k |-> k, st |-> RestoreCheckpoint(checkpoints[k]),
                    saves |-> TRUE, stop |-> 0]
    OBVIOUS
<1>7. Good(spec, s)
    <2>1. NumberOf(spec) \in Nat
        BY SessionsCounted DEF RunInv
    <2> QED  BY <1>3, <1>5, <1>6, <2>1 DEF Good, Saved
<1>8. run' = [run EXCEPT ![c] = s] /\ UNCHANGED <<spec, checkpoints>>
    BY <1>1, <1>6, Zenon DEF Resume
<1> QED  BY <1>7, <1>8, RunInvStep

LEMMA RunInvNext == RunInv /\ [Next]_vars => RunInv'
<1> SUFFICES ASSUME RunInv, [Next]_vars PROVE RunInv'
    OBVIOUS
<1>1. ASSUME NEW c \in Commands, NEW saves \in BOOLEAN, NEW stop \in Stops, Start(c, saves, stop)
      PROVE  RunInv'
    <2>1. PICK s : s = [pc |-> "running", k |-> 0, st |-> Initial(spec, Load(spec)),
                        saves |-> saves, stop |-> stop]
        OBVIOUS
    <2>2. NumberOf(spec) \in Nat
        BY SessionsCounted DEF RunInv
    <2>3. After(spec, 0) = Initial(spec, Load(spec)) /\ Initial(spec, Load(spec)).halt = "none"
        BY AfterNone, InitialIsState
    <2>4. Good(spec, s)
        BY <2>1, <2>2, <2>3 DEF Good
    <2>5. run' = [run EXCEPT ![c] = s] /\ UNCHANGED <<spec, checkpoints>>
        BY <1>1, <2>1, Zenon DEF Start
    <2> QED  BY <2>4, <2>5, RunInvStep
<1>2. ASSUME NEW c \in Commands, Finish(c) PROVE RunInv'
    <2>1. PICK r, s : r = run[c] /\ s = [r EXCEPT !.pc = IF CanFinish(r.st) THEN "done" ELSE "failed"]
        OBVIOUS
    <2>2. Good(spec, r)
        BY <1>2, <2>1 DEF RunInv, Finish, Live
    <2>3. s.pc = "failed" \/ Good(spec, s)
        <3>1. r.k = NumberOf(spec)
            BY <1>2, <2>1, SessionsCounted DEF Finish, Sessions, RunInv
        <3> QED  BY <2>1, <2>2, <3>1 DEF Good
    <2>4. run' = [run EXCEPT ![c] = s] /\ UNCHANGED <<spec, checkpoints>>
        BY <1>2, <2>1 DEF Finish
    <2> QED  BY <2>3, <2>4, RunInvStep
<1>3. ASSUME NEW c \in Commands, Crash(c) PROVE RunInv'
    BY <1>3, RunInvStep DEF Crash, Idle
<1>4. ASSUME UNCHANGED <<spec, checkpoints, run>> PROVE RunInv'
    BY <1>4 DEF RunInv, Live
<1> QED
    BY <1>1, <1>2, <1>3, <1>4, RunInvResume, RunInvSession, RunInvWrite
    DEF Next, vars, ReplaceInput

(***************************************************************************)
(* simulate_backtest with checkpoints: a command that goes on holds what   *)
(* the experiment comes to after its sessions, and checkpoint-<k>.json is  *)
(* the document of that state after k sessions, however many commands      *)
(* run, die and resume, and whatever someone writes over the inputs.       *)
(***************************************************************************)
THEOREM RunsInductive == Spec => []RunInv
<1> QED  BY RunInvInit, RunInvNext, PTL DEF Spec

(***************************************************************************)
(* Resuming is transparent: after _restore_checkpoint and any further      *)
(* sessions a run is the one that was never interrupted, and no command    *)
(* finds a checkpoint in conflict with its own.                            *)
(***************************************************************************)
THEOREM ResumingIsTransparent == Spec => []ResumeIsTransparent
<1> QED  BY RunsInductive, RunInvImplies, PTL

-----------------------------------------------------------------------------
(***************************************************************************)
(* The orders of a run.  The sessions of an admitted experiment have       *)
(* different dates, since its calendar has one row for a date              *)
(* (load_calendar), so the order in which they run is the order of their   *)
(* dates.                                                                  *)
(***************************************************************************)
SessionDates(e) == [i \in 1..NumberOf(e) |-> CalendarSessions(e, Load(e))[i].date]

OneRowPerDate(e) == \A r, q \in Load(e).calendar : r.date = q.date => r = q

(***************************************************************************)
(* What the parsers let through besides: prices, rates and ratios above    *)
(* zero, one action for an id, and sessions that open before they close.   *)
(***************************************************************************)
SoundAction(a) ==
    /\ a.type \in {"split", "cash_dividend", "delisting"}
    /\ a.type = "split" => a.numerator > 0 /\ a.denominator > 0
    /\ a.type = "cash_dividend" => a.cash > 0
    /\ a.settlement # None => a.settlement > 0

Sound(e, in) ==
    /\ TypedAccount(e) /\ TypedInputs(in)
    /\ e.accounting.initial_cash > 0
    /\ \A r \in in.calendar : r.open < r.close
    /\ \A r \in in.prices : r.low > 0 /\ {r.open, r.close} \subseteq r.low..r.high
    /\ \A a \in in.corporate_actions : SoundAction(a)
    /\ \A a, b \in in.corporate_actions : a.id = b.id => a = b
    /\ \A r \in in.fx : r.rate > 0

Parsed(e) == OneRowPerDate(e) /\ Sound(e, Load(e))

LEMMA DatesIncrease ==
    ASSUME NEW e \in Specs, OneRowPerDate(e)
    PROVE  /\ \A i, j \in 1..NumberOf(e) :
                  /\ SessionDates(e)[i] \in Int
                  /\ i < j => SessionDates(e)[i] < SessionDates(e)[j]
           /\ \A i \in 1..NumberOf(e) : CalendarSessions(e, Load(e))[i] \in Load(e).calendar
<1> DEFINE S == {r \in Load(e).calendar : e.period.start <= r.date /\ r.date <= e.period.end}
           R == {p \in S \X S : p[1].date < p[2].date}
<1>1. IsFiniteSet(S)
    BY SpecsAssumption, FS_Subset DEF Kinds
<1>2. PICK n \in Nat : n = Cardinality(S)
    BY <1>1, FS_CardinalityType
<1>3. n = NumberOf(e)
    BY <1>2 DEF NumberOf
<1>4. \A r \in S : r.date \in Int
    BY SpecsAssumption DEF TypedInputs
<1>5. \A r, q \in S : r # q => r.date # q.date
    BY DEF OneRowPerDate
<1> DEFINE x(i) == CHOOSE r \in S : Cardinality({q \in S : q.date < r.date}) = i - 1
<1>6. CalendarSessions(e, Load(e)) = [i \in 1..n |-> x(i)]
    BY <1>2, Zenon DEF CalendarSessions, Sorted
<1> HIDE DEF S
<1>7. \A r, q \in S : <<r, q>> \in R <=> r.date < q.date
    OBVIOUS
<1> HIDE DEF R
<1>8. Orders(R, S)
    BY <1>4, <1>5, <1>7 DEF Orders
<1>9. \A r \in S : Below(R, S, r) = {q \in S : q.date < r.date}
    BY <1>7 DEF Below
<1>10. \A i : x(i) = CHOOSE r \in S : Cardinality(Below(R, S, r)) = i - 1
    BY <1>9
<1>11. PICK s : s = CalendarSessions(e, Load(e))
    OBVIOUS
<1>12. s = [i \in 1..n |-> CHOOSE r \in S : Cardinality(Below(R, S, r)) = i - 1]
    <2> HIDE DEF x
    <2> QED  BY <1>6, <1>10, <1>11, Zenon
<1>13. Enumerates(s, S, R, n)
    BY <1>1, <1>2, <1>8, <1>12, SortedEnumerates
<1>14. \A i \in 1..n : SessionDates(e)[i] = s[i].date
    BY <1>3, <1>11 DEF SessionDates
<1>15. \A i \in 1..n : s[i] \in S
    BY <1>13 DEF Enumerates
<1>16. \A i, j \in 1..n : i < j => s[i].date < s[j].date
    BY <1>7, <1>13, <1>15 DEF Enumerates
<1>17. S \subseteq Load(e).calendar
    BY DEF S
<1> QED  BY <1>3, <1>4, <1>11, <1>14, <1>15, <1>16, <1>17

LEMMA AfterOrders ==
    ASSUME NEW e \in Specs, NEW k \in 0..NumberOf(e), After(e, k).halt = "none"
    PROVE  OrderInv(After(e, k), SessionDates(e), NumberOf(e), k)
<1>1. PICK n \in Nat : n = NumberOf(e)
    BY SessionsCounted
<1>2. PICK D : D = SessionDates(e)
    OBVIOUS
<1>3. n = Len(CalendarSessions(e, Load(e)))
    BY <1>1, SessionsCounted
<1>4. \A i \in 1..n : CalendarSessions(e, Load(e))[i].date = D[i]
    BY <1>1, <1>2 DEF SessionDates
<1> DEFINE T == {m \in 0..n : After(e, m).halt = "none" => OrderInv(After(e, m), D, n, m)}
<1>5. 0 \in T
    BY AfterNone, InitialOrders
<1>6. ASSUME NEW m \in 0..n, m < n, m \in T PROVE m + 1 \in T
    <2>1. m + 1 \in 0..n
        BY <1>6
    <2>2. PICK st, t : st = After(e, m) /\ t = After(e, m + 1)
        OBVIOUS
    <2>3. t = Session(e, Load(e), m + 1, st) /\ IsState(st)
        BY <2>2, AfterNext, AfterIsState
    <2>4. SUFFICES ASSUME t.halt = "none" PROVE OrderInv(t, D, n, m + 1)
        BY <2>1, <2>2
    <2>5. st.halt = "none"
        BY <2>3, <2>4, SessionShape
    <2>6. OrderInv(st, D, n, m)
        BY <1>6, <2>2, <2>5
    <2> QED  BY <1>3, <1>4, <1>6, <2>3, <2>4, <2>6, SessionKeepsOrders
<1>7. k \in T
    <2> HIDE DEF T
    <2>1. 0..n \subseteq T
        BY <1>5, <1>6, UpTo
    <2> QED  BY <1>1, <2>1
<1> QED  BY <1>1, <1>2, <1>7

\* OrdersSettleOnce of order i, which is o; later are the dates after its decision.
SettledOnce(st, i, o, later, fills) ==
    /\ o.execution \in later /\ \A d \in later : o.execution <= d
    /\ (\E m \in ToSet(st.marks) : m.date >= o.execution) <=> o.status # "proposed"
    /\ (\E m \in ToSet(st.marks) : m.date >= o.execution) <=> i \notin st.pending
    /\ IF o.status = "filled" THEN \E f \in DOMAIN st.fills : fills = {f} ELSE fills = {}
    /\ \A f \in fills : st.fills[f].date = o.execution /\ st.fills[f].qty = o.qty

LEMMA OrderSettles ==
    ASSUME NEW n \in Nat, NEW k \in 0..n, NEW D,
           \A i, j \in 1..n : D[i] \in Int /\ (i < j => D[i] < D[j]),
           NEW st, OrderInv(st, D, n, k), NEW i \in DOMAIN st.orders,
           NEW o, o = st.orders[i],
           NEW later, later = {D[x] : x \in {x \in 1..n : D[x] > o.decision}},
           NEW fills, fills = {f \in DOMAIN st.fills : st.fills[f].order = i}
    PROVE  SettledOnce(st, i, o, later, fills)
<1>1. PICK j \in 1..n : j < n /\ j <= k /\ DecidedAt(o, D, j) /\ (i \in st.pending <=> j = k)
    BY DEF OrderInv, Timely
<1>2. j + 1 \in 1..n /\ o.decision = D[j] /\ o.execution = D[j + 1]
    BY <1>1 DEF DecidedAt
<1>3. D[j] < D[j + 1]
    BY <1>1, <1>2
<1>4. ASSUME NEW x \in 1..n, D[x] > D[j] PROVE D[j + 1] <= D[x]
    <2>1. j < x
        <3>1. SUFFICES ASSUME x <= j PROVE FALSE
            OBVIOUS
        <3>2. x = j \/ x < j
            BY <3>1
        <3>3. D[x] <= D[j] /\ D[x] \in Int /\ D[j] \in Int
            BY <3>2
        <3> QED  BY <1>4, <3>3
    <2>2. x = j + 1 \/ j + 1 < x
        BY <2>1
    <2> QED  BY <1>2, <2>2
<1>5. o.execution \in later /\ \A d \in later : o.execution <= d
    BY <1>2, <1>3, <1>4
<1>6. (\E m \in ToSet(st.marks) : m.date >= o.execution) <=> \E x \in 1..k : D[x] >= D[j + 1]
    <2>1. DOMAIN st.marks = 1..k
        BY SeqFacts DEF OrderInv, MarksAre
    <2>2. ToSet(st.marks) = {st.marks[x] : x \in 1..k}
        BY <2>1 DEF ToSet
    <2>3. \A x \in 1..k : st.marks[x].date = D[x]
        BY DEF OrderInv, MarksAre
    <2> QED  BY <1>2, <2>2, <2>3
<1>7. (\E x \in 1..k : D[x] >= D[j + 1]) <=> j # k
    <2>1. CASE j = k
        <3>1. \A x \in 1..k : D[x] < D[j + 1] /\ D[x] \in Int
            BY <1>1, <1>2, <2>1
        <3>2. D[j + 1] \in Int
            BY <1>2
        <3> QED  BY <2>1, <3>1, <3>2
    <2>2. CASE j # k
        <3>1. j + 1 \in 1..k
            BY <1>1, <2>2
        <3>2. D[j + 1] >= D[j + 1]
            BY <1>2
        <3> QED  BY <2>2, <3>1, <3>2
    <2> QED  BY <2>1, <2>2
<1>8. BookOK(st, st.pending)
    BY DEF OrderInv
<1>9. o.status # "proposed" <=> i \notin st.pending
    BY <1>8 DEF BookOK
<1>10. IF o.status = "filled" THEN \E f \in DOMAIN st.fills : fills = {f} ELSE fills = {}
    <2>1. CASE o.status = "filled"
        <3>1. PICK f \in DOMAIN st.fills : st.fills[f].order = i
            BY <1>8, <2>1 DEF BookOK, IsFilled
        <3>2. \A g \in DOMAIN st.fills : st.fills[g].order = i => g = f
            BY <1>8, <3>1 DEF BookOK
        <3>3. fills = {f}
            BY <3>1, <3>2
        <3> QED  BY <2>1, <3>3
    <2>2. CASE o.status # "filled"
        <3>1. fills = {}
            BY <1>8, <2>2 DEF BookOK, IsFilled
        <3> QED  BY <2>2, <3>1
    <2> QED  BY <2>1, <2>2
<1>11. \A f \in fills : st.fills[f].date = o.execution /\ st.fills[f].qty = o.qty
    BY <1>8 DEF BookOK, FillMatches
<1> QED  BY <1>1, <1>5, <1>6, <1>7, <1>9, <1>10, <1>11 DEF SettledOnce

\* All rows of a kind come from the file of that kind, which its parser accepts.
LEMMA RowsOfOneFile ==
    ASSUME Admitted, NEW kind \in Kinds
    PROVE  \E rows : Load(spec)[kind] \subseteq rows /\ (rows = {} \/ Rows(kind, rows))
<1>1. Load(spec)[kind] = UNION {x.artifact.rows : x \in {y \in spec.inputs : y.kind = kind}}
    BY DEF Load
<1>2. CASE \E x \in spec.inputs : x.kind = kind
    <2>1. PICK x \in spec.inputs : x.kind = kind
        BY <1>2
    <2>2. \A y \in spec.inputs : Loads(y, disk)
        BY DEF Admitted, CanLoad
    <2>3. \A y \in spec.inputs : y.kind = kind => y.artifact = x.artifact
        BY <2>1, <2>2 DEF Loads
    <2>4. Load(spec)[kind] \subseteq x.artifact.rows
        BY <1>1, <2>3
    <2>5. Rows(kind, x.artifact.rows)
        BY <2>1, <2>2 DEF Loads
    <2> QED  BY <2>4, <2>5
<1>3. CASE ~\E x \in spec.inputs : x.kind = kind
    <2>1. Load(spec)[kind] \subseteq {}
        BY <1>1, <1>3
    <2> QED  BY <2>1
<1> QED  BY <1>2, <1>3

LEMMA AdmittedParsed ==
    ASSUME Admitted, spec \in Specs
    PROVE  Parsed(spec)
<1>1. PICK in : in = Load(spec)
    OBVIOUS
<1>2. PICK rows : in["calendar"] \subseteq rows /\ (rows = {} \/ CalendarRows(rows))
    BY <1>1, RowsOfOneFile DEF Kinds, Rows
<1>3. OneRowPerDate(spec)
    BY <1>1, <1>2 DEF OneRowPerDate, CalendarRows, UniqueBy
<1>4. \A r \in in.calendar : r.open < r.close
    BY <1>2 DEF CalendarRows
<1>5. TypedAccount(spec) /\ TypedInputs(in)
    BY <1>1, SpecsAssumption
<1>6. spec.accounting.initial_cash > 0
    BY DEF Admitted, SpecAccepted
<1>7. PICK prices : in["prices"] \subseteq prices /\ (prices = {} \/ PriceRows(prices))
    BY <1>1, RowsOfOneFile DEF Kinds, Rows
<1>8. \A r \in in.prices : r.low > 0 /\ {r.open, r.close} \subseteq r.low..r.high
    BY <1>7 DEF PriceRows
<1>9. PICK actions : /\ in["corporate_actions"] \subseteq actions
                     /\ actions = {} \/ ActionRows(actions)
    BY <1>1, RowsOfOneFile DEF Kinds, Rows
<1>10. \A a \in in.corporate_actions : SoundAction(a)
    BY <1>9 DEF ActionRows, SoundAction
<1>11. \A a, b \in in.corporate_actions : a.id = b.id => a = b
    BY <1>9 DEF ActionRows, UniqueBy
<1>12. PICK fx : in["fx"] \subseteq fx /\ (fx = {} \/ FxRows(fx))
    BY <1>1, RowsOfOneFile DEF Kinds, Rows
<1>13. \A r \in in.fx : r.rate > 0
    BY <1>12 DEF FxRows
<1>14. Sound(spec, in)
    BY <1>5, <1>6, <1>8, <1>10, <1>11, <1>13, <1>4 DEF Sound
<1> QED  BY <1>1, <1>3, <1>14 DEF Parsed

ParsedInv == \A c \in Commands : Live(c) => Parsed(spec)

LEMMA ParsedInvNext == RunInv /\ ParsedInv /\ [Next]_vars => ParsedInv'
<1> SUFFICES ASSUME RunInv, ParsedInv, [Next]_vars PROVE ParsedInv'
    OBVIOUS
<1>1. spec' = spec /\ spec \in Specs
    BY DEF Next, vars, Start, Resume, RunSession, WriteCheckpoint, Finish, Crash, ReplaceInput, RunInv
<1>2. ASSUME Parsed(spec) PROVE ParsedInv'
    <2>1. Parsed(spec)'
        BY <1>1, <1>2 DEF Parsed, OneRowPerDate, Sound
    <2> QED  BY <2>1 DEF ParsedInv
<1>3. ASSUME NEW c \in Commands, Live(c) PROVE ParsedInv'
    BY <1>2, <1>3 DEF ParsedInv
<1>4. ASSUME NEW c \in Commands, NEW saves \in BOOLEAN, NEW stop \in Stops, Start(c, saves, stop)
      PROVE  ParsedInv'
    BY <1>1, <1>2, <1>4, AdmittedParsed DEF Start
<1>5. ASSUME NEW c \in Commands, Resume(c) PROVE ParsedInv'
    BY <1>1, <1>2, <1>5, AdmittedParsed DEF Resume
<1>6. ASSUME NEW c \in Commands, RunSession(c) \/ WriteCheckpoint(c) \/ Finish(c) \/ Crash(c)
      PROVE  ParsedInv'
    <2>1. Live(c)
        BY <1>6 DEF RunSession, WriteCheckpoint, Finish, Crash, Live
    <2> QED  BY <1>3, <2>1
<1>7. ASSUME run' = run PROVE ParsedInv'
    <2>1. ASSUME NEW c \in Commands, Live(c)' PROVE ParsedInv'
        <3>1. Live(c)
            BY <1>7, <2>1 DEF Live
        <3> QED  BY <1>3, <3>1
    <2> QED  BY <2>1 DEF ParsedInv
<1> QED  BY <1>4, <1>5, <1>6, <1>7 DEF Next, vars, ReplaceInput

LEMMA RunsAreParsed == Spec => []ParsedInv
<1>1. Init => ParsedInv
    BY DEF Init, Idle, ParsedInv, Live
<1> QED  BY <1>1, RunsInductive, ParsedInvNext, PTL DEF Spec

SettlesInTime(st, sessions, i) ==
    SettledOnce(st, i, st.orders[i],
                {s.date : s \in {s \in ToSet(sessions) : s.date > st.orders[i].decision}},
                {f \in DOMAIN st.fills : st.fills[f].order = i})

LEMMA RunInvSettles == RunInv /\ ParsedInv => OrdersSettleOnce
<1> SUFFICES ASSUME RunInv, ParsedInv PROVE OrdersSettleOnce
    OBVIOUS
<1>1. ASSUME NEW c \in Commands, Live(c), NEW st, st = run[c].st
      PROVE  /\ \A i \in DOMAIN st.orders : SettlesInTime(st, Sessions, i)
             /\ st.rejected = Cardinality({i \in DOMAIN st.orders : st.orders[i].status = "rejected"})
    <2>1. PICK n \in Nat : n = NumberOf(spec)
        BY SessionsCounted DEF RunInv
    <2>2. PICK k \in 0..n : run[c].k = k
        BY <1>1, <2>1 DEF RunInv, Good
    <2>3. PICK D : D = SessionDates(spec)
        OBVIOUS
    <2>4. OrderInv(st, D, n, k)
        BY <1>1, <2>1, <2>2, <2>3, AfterOrders DEF RunInv, Good
    <2>5. \A i, j \in 1..n : D[i] \in Int /\ (i < j => D[i] < D[j])
        BY <1>1, <2>1, <2>3, DatesIncrease DEF RunInv, ParsedInv, Parsed
    <2>6. PICK sessions : sessions = Sessions
        OBVIOUS
    <2>7. DOMAIN sessions = 1..n /\ \A x \in 1..n : sessions[x].date = D[x]
        BY <2>1, <2>3, <2>6, SessionsCounted DEF Sessions, SessionDates, RunInv
    <2>8. \A d : {s.date : s \in {s \in ToSet(sessions) : s.date > d}}
                    = {D[x] : x \in {x \in 1..n : D[x] > d}}
        <3>1. ToSet(sessions) = {sessions[x] : x \in 1..n}
            BY <2>7 DEF ToSet
        <3> QED  BY <2>7, <3>1
    <2>9. ASSUME NEW i \in DOMAIN st.orders PROVE SettlesInTime(st, sessions, i)
        <3>1. PICK o : o = st.orders[i]
            OBVIOUS
        <3>2. PICK later : later = {D[x] : x \in {x \in 1..n : D[x] > o.decision}}
            OBVIOUS
        <3>3. PICK fills : fills = {f \in DOMAIN st.fills : st.fills[f].order = i}
            OBVIOUS
        <3>4. SettledOnce(st, i, o, later, fills)
            BY <2>4, <2>5, <3>1, <3>2, <3>3, OrderSettles
        <3>5. later = {s.date : s \in {s \in ToSet(sessions) : s.date > o.decision}}
            BY <2>8, <3>2
        <3> QED  BY <3>1, <3>3, <3>4, <3>5 DEF SettlesInTime
    <2>10. st.rejected = Cardinality({i \in DOMAIN st.orders : st.orders[i].status = "rejected"})
        BY <2>4 DEF OrderInv, BookOK, RejectedOrders
    <2> QED  BY <2>6, <2>9, <2>10
<1>2. ASSUME NEW c \in Commands, Live(c)
      PROVE  /\ \A i \in DOMAIN run[c].st.orders : SettlesInTime(run[c].st, Sessions, i)
             /\ run[c].st.rejected = Cardinality({i \in DOMAIN run[c].st.orders :
                                                      run[c].st.orders[i].status = "rejected"})
    BY <1>1, <1>2
<1> QED  BY <1>2 DEF OrdersSettleOnce, SettlesInTime, SettledOnce

(***************************************************************************)
(* An order is settled once, at the open after the close that decided it:  *)
(* it is filled, once and of its quantity, or rejected and counted, and is *)
(* pending until then; no rerun or resumption executes it again            *)
(* (_execute_orders and the pending list of simulate_backtest).            *)
(***************************************************************************)
THEOREM OrdersAreSettledOnce == Spec => []OrdersSettleOnce
<1> QED  BY RunsInductive, RunsAreParsed, RunInvSettles, PTL
-----------------------------------------------------------------------------
(***************************************************************************)
(* Sums.  SumOver goes through a set in the order of CHOOSE; Sums says     *)
(* that any other order gives the same, so that one more element adds its  *)
(* value.                                                                  *)
(***************************************************************************)
Total(v, S) == SumOver(S, LAMBDA x : v[x])

Picked(s) == CHOOSE x \in s : TRUE

WalkRule(g, v, s) == IF s = {} THEN 0 ELSE g[s \ {Picked(s)}] + v[Picked(s)]

Walks(g, v, S) == g = [s \in SUBSET S |-> WalkRule(g, v, s)]

Sums(g, v, S) ==
    \A s \in SUBSET S : /\ g[s] \in Int
                        /\ s = {} => g[s] = 0
                        /\ \A x \in s : g[s] = v[x] + g[s \ {x}]

LEMMA OneLess ==
    ASSUME NEW S, IsFiniteSet(S), NEW s \in SUBSET S
    PROVE  /\ Cardinality(s) \in 0..Cardinality(S)
           /\ Cardinality(s) = 0 <=> s = {}
           /\ \A x \in s : Cardinality(s \ {x}) = Cardinality(s) - 1
<1>1. IsFiniteSet(s) /\ Cardinality(s) <= Cardinality(S)
    BY FS_Subset
<1>2. Cardinality(s) \in Nat /\ Cardinality(S) \in Nat
    BY <1>1, FS_CardinalityType
<1>3. Cardinality(s) = 0 <=> s = {}
    BY <1>1, FS_EmptySet
<1>4. \A x \in s : Cardinality(s \ {x}) = Cardinality(s) - 1
    BY <1>1, FS_RemoveElement
<1> QED  BY <1>1, <1>2, <1>3, <1>4

LEMMA WalkDefined ==
    ASSUME NEW S, IsFiniteSet(S), NEW v
    PROVE  \E g : Walks(g, v, S)
<1>1. PICK n \in Nat : n = Cardinality(S)
    BY FS_CardinalityType
<1>2. \A s \in SUBSET S : Cardinality(s) \in 0..n
    BY <1>1, OneLess
<1>3. \A s \in SUBSET S : s # {} => /\ Picked(s) \in s /\ s \ {Picked(s)} \in SUBSET S
                                    /\ Cardinality(s \ {Picked(s)}) = Cardinality(s) - 1
    <2>1. \A s : s # {} => Picked(s) \in s
        BY DEF Picked
    <2> QED  BY <2>1, OneLess
<1> DEFINE Right(g, m) == \A s \in SUBSET S : Cardinality(s) <= m => g[s] = WalkRule(g, v, s)
           T == {m \in 0..n : \E g : Right(g, m)}
<1>4. 0 \in T
    <2>1. PICK g : g = [s \in SUBSET S |-> 0]
        OBVIOUS
    <2>2. \A s \in SUBSET S : Cardinality(s) <= 0 => s = {}
        BY <1>2, OneLess
    <2>3. Right(g, 0)
        BY <2>1, <2>2 DEF WalkRule
    <2> QED  BY <2>3
<1>5. ASSUME NEW m \in 0..n, m < n, m \in T PROVE m + 1 \in T
    <2>1. PICK g : Right(g, m)
        BY <1>5
    <2>2. PICK h : h = [s \in SUBSET S |-> IF Cardinality(s) <= m THEN g[s] ELSE WalkRule(g, v, s)]
        OBVIOUS
    <2>3. ASSUME NEW s \in SUBSET S, Cardinality(s) <= m + 1 PROVE h[s] = WalkRule(h, v, s)
        <3>1. h[s] = WalkRule(g, v, s)
            BY <2>1, <2>2
        <3>2. s # {} => h[s \ {Picked(s)}] = g[s \ {Picked(s)}]
            <4>1. s # {} => Cardinality(s \ {Picked(s)}) <= m /\ s \ {Picked(s)} \in SUBSET S
                BY <1>2, <1>3, <2>3
            <4> QED  BY <2>2, <4>1
        <3> QED  BY <3>1, <3>2 DEF WalkRule
    <2>4. Right(h, m + 1)
        BY <2>3
    <2> QED  BY <1>5, <2>4
<1>6. n \in T
    <2> HIDE DEF T
    <2>1. 0..n \subseteq T
        BY <1>4, <1>5, UpTo
    <2> QED  BY <2>1
<1>7. PICK g : \A s \in SUBSET S : g[s] = WalkRule(g, v, s)
    BY <1>2, <1>6
<1>8. PICK h : h = [s \in SUBSET S |-> g[s]]
    OBVIOUS
<1>9. \A s \in SUBSET S : WalkRule(h, v, s) = WalkRule(g, v, s)
    BY <1>3, <1>8 DEF WalkRule
<1>10. h = [s \in SUBSET S |-> WalkRule(h, v, s)]
    BY <1>7, <1>8, <1>9
<1> QED  BY <1>10, Zenon DEF Walks

SumsAt(g, v, s) == g[s] \in Int /\ \A x \in s : g[s] = v[x] + g[s \ {x}]

LEMMA WalkSums ==
    ASSUME NEW S, IsFiniteSet(S), NEW v, \A x \in S : v[x] \in Int, NEW g, Walks(g, v, S)
    PROVE  Sums(g, v, S)
<1>1. PICK n \in Nat : n = Cardinality(S)
    BY FS_CardinalityType
<1>2. \A s \in SUBSET S : Cardinality(s) \in 0..n /\ (Cardinality(s) = 0 <=> s = {})
    BY <1>1, OneLess
<1>3. \A s \in SUBSET S : \A x \in s : s \ {x} \in SUBSET S /\ Cardinality(s \ {x}) = Cardinality(s) - 1
    BY OneLess
<1>4. \A s \in SUBSET S : g[s] = WalkRule(g, v, s)
    <2>1. g = [s \in SUBSET S |-> WalkRule(g, v, s)]
        BY DEF Walks
    <2> QED  BY <2>1, Zenon
<1> DEFINE T == {m \in 0..n : \A s \in SUBSET S : Cardinality(s) <= m => SumsAt(g, v, s)}
<1>5. g[{}] = 0
    BY <1>4 DEF WalkRule
<1>6. 0 \in T
    <2>1. \A s \in SUBSET S : Cardinality(s) <= 0 => s = {}
        BY <1>2
    <2>2. SumsAt(g, v, {})
        BY <1>5 DEF SumsAt
    <2> QED  BY <2>1, <2>2
<1>7. ASSUME NEW m \in 0..n, m < n, m \in T PROVE m + 1 \in T
    <2> SUFFICES ASSUME NEW s \in SUBSET S, Cardinality(s) <= m + 1, s # {} PROVE SumsAt(g, v, s)
        <3>1. SumsAt(g, v, {})
            BY <1>5 DEF SumsAt
        <3>2. m + 1 \in 0..n
            BY <1>7
        <3> QED  BY <3>1, <3>2
    <2>1. PICK c : c = Picked(s)
        OBVIOUS
    <2>2. c \in s
        BY <2>1 DEF Picked
    <2>3. \A r \in SUBSET S : Cardinality(r) <= m => SumsAt(g, v, r)
        BY <1>7
    <2>4. ASSUME NEW x \in s PROVE s \ {x} \in SUBSET S /\ SumsAt(g, v, s \ {x})
        <3>1. s \ {x} \in SUBSET S /\ Cardinality(s \ {x}) = Cardinality(s) - 1
            BY <1>3
        <3>2. Cardinality(s \ {x}) <= m
            BY <1>2, <3>1
        <3> QED  BY <2>3, <3>1, <3>2
    <2>5. g[s] = g[s \ {c}] + v[c]
        BY <1>4, <2>1 DEF WalkRule
    <2>6. v[c] \in Int /\ g[s \ {c}] \in Int
        BY <2>2, <2>4 DEF SumsAt
    <2>7. ASSUME NEW x \in s PROVE g[s] = v[x] + g[s \ {x}]
        <3>1. CASE x = c
            BY <2>5, <2>6, <3>1
        <3>2. CASE x # c
            <4>1. PICK r : r = (s \ {c}) \ {x}
                OBVIOUS
            <4>2. r = (s \ {x}) \ {c} /\ x \in s \ {c} /\ c \in s \ {x}
                BY <2>2, <3>2, <4>1
            <4>3. g[s \ {c}] = v[x] + g[r]
                BY <2>2, <2>4, <4>1, <4>2 DEF SumsAt
            <4>4. g[s \ {x}] = v[c] + g[r]
                BY <2>4, <4>2 DEF SumsAt
            <4>5. g[r] \in Int
                <5>1. s \ {c} \in SUBSET S
                    BY <2>2, <2>4
                <5>2. r \in SUBSET S /\ Cardinality(r) = Cardinality(s \ {c}) - 1
                    BY <1>3, <4>1, <4>2, <5>1
                <5>3. Cardinality(s \ {c}) = Cardinality(s) - 1
                    BY <1>3, <2>2
                <5>4. Cardinality(r) <= m
                    BY <1>2, <5>1, <5>2, <5>3
                <5> QED  BY <2>3, <5>2, <5>4 DEF SumsAt
            <4>6. v[x] \in Int
                OBVIOUS
            <4> QED  BY <2>5, <2>6, <4>3, <4>4, <4>5, <4>6
        <3> QED  BY <3>1, <3>2
    <2>8. g[s] \in Int
        BY <2>5, <2>6
    <2> QED  BY <2>7, <2>8 DEF SumsAt
<1>8. n \in T
    <2> HIDE DEF T
    <2>1. 0..n \subseteq T
        BY <1>6, <1>7, UpTo
    <2> QED  BY <2>1
<1>9. \A s \in SUBSET S : SumsAt(g, v, s)
    <2>1. \A s \in SUBSET S : Cardinality(s) <= n
        BY <1>2
    <2> QED  BY <1>8, <2>1
<1> QED  BY <1>5, <1>9 DEF Sums, SumsAt

LEMMA TotalIsSum ==
    ASSUME NEW S, IsFiniteSet(S), NEW v, \A x \in S : v[x] \in Int
    PROVE  \E g : Sums(g, v, S) /\ Total(v, S) = g[S]
<1> DEFINE Is(g) == g = [s \in SUBSET S |-> IF s = {} THEN 0
                                            ELSE g[s \ {CHOOSE x \in s : TRUE}] + v[CHOOSE x \in s : TRUE]]
           iter == CHOOSE g : Is(g)
<1>1. \A g : Is(g) <=> Walks(g, v, S)
    BY Zenon DEF Walks, WalkRule, Picked
<1>2. \E g : Is(g)
    <2>1. PICK g : Walks(g, v, S)
        BY WalkDefined, Zenon
    <2>2. Is(g)
        BY <1>1, <2>1, Zenon
    <2> QED  BY <2>2
<1>3. Is(iter)
    BY <1>2, Zenon
<1>4. Total(v, S) = iter[S]
    BY Zenon DEF Total, SumOver, FoldSet, MapThenFoldSet
<1>5. PICK g : g = iter
    OBVIOUS
<1>6. Walks(g, v, S)
    BY <1>1, <1>3, <1>5, Zenon
<1>7. Sums(g, v, S)
    BY <1>6, WalkSums
<1> QED  BY <1>4, <1>5, <1>7, Zenon

LEMMA SumsAgree ==
    ASSUME NEW S, NEW v, NEW g, Sums(g, v, S), NEW T, NEW w, NEW h, Sums(h, w, T),
           NEW U, IsFiniteSet(U), U \subseteq S, U \subseteq T, \A x \in U : v[x] = w[x]
    PROVE  g[U] = h[U]
<1>1. PICK n \in Nat : n = Cardinality(U)
    BY FS_CardinalityType
<1> DEFINE M == {m \in 0..n : \A s \in SUBSET U : Cardinality(s) = m => g[s] = h[s]}
<1>2. \A s \in SUBSET U : s \in SUBSET S /\ s \in SUBSET T
    OBVIOUS
<1>3. 0 \in M
    <2>1. \A s \in SUBSET U : Cardinality(s) = 0 => s = {}
        BY OneLess
    <2>2. g[{}] = 0 /\ h[{}] = 0
        BY DEF Sums
    <2> QED  BY <2>1, <2>2
<1>4. ASSUME NEW m \in 0..n, m < n, m \in M PROVE m + 1 \in M
    <2> SUFFICES ASSUME NEW s \in SUBSET U, Cardinality(s) = m + 1 PROVE g[s] = h[s]
        BY <1>4
    <2>1. s # {}
        BY OneLess
    <2>2. PICK x \in s : TRUE
        BY <2>1
    <2>3. s \ {x} \in SUBSET U /\ Cardinality(s \ {x}) = m
        BY <2>2, OneLess
    <2>4. g[s \ {x}] = h[s \ {x}]
        BY <1>4, <2>3
    <2>5. g[s] = v[x] + g[s \ {x}] /\ h[s] = w[x] + h[s \ {x}]
        BY <1>2, <2>2 DEF Sums
    <2>6. v[x] = w[x]
        BY <2>2
    <2> QED  BY <2>4, <2>5, <2>6
<1>5. n \in M
    <2> HIDE DEF M
    <2>1. 0..n \subseteq M
        BY <1>3, <1>4, UpTo
    <2> QED  BY <2>1
<1> QED  BY <1>1, <1>5

LEMMA TotalSame ==
    ASSUME NEW S, IsFiniteSet(S), NEW v, NEW w, \A x \in S : v[x] \in Int /\ v[x] = w[x]
    PROVE  Total(v, S) = Total(w, S) /\ Total(v, S) \in Int
<1>1. PICK g : Sums(g, v, S) /\ Total(v, S) = g[S]
    BY TotalIsSum
<1>2. \A x \in S : w[x] \in Int
    OBVIOUS
<1>3. PICK h : Sums(h, w, S) /\ Total(w, S) = h[S]
    BY <1>2, TotalIsSum
<1>4. g[S] = h[S]
    BY <1>1, <1>3, SumsAgree
<1>5. g[S] \in Int
    BY <1>1 DEF Sums
<1> QED  BY <1>1, <1>3, <1>4, <1>5

LEMMA TotalEmpty ==
    ASSUME NEW v
    PROVE  Total(v, {}) = 0
<1>1. PICK g : Sums(g, v, {}) /\ Total(v, {}) = g[{}]
    BY TotalIsSum, FS_EmptySet
<1> QED  BY <1>1 DEF Sums

LEMMA TotalMore ==
    ASSUME NEW S, IsFiniteSet(S), NEW y, y \notin S, NEW w, w[y] \in Int,
           \A x \in S : w[x] \in Int
    PROVE  Total(w, S \cup {y}) = Total(w, S) + w[y]
<1>1. PICK g : Sums(g, w, S) /\ Total(w, S) = g[S]
    BY TotalIsSum
<1>2. IsFiniteSet(S \cup {y})
    BY FS_AddElement
<1>3. \A x \in S \cup {y} : w[x] \in Int
    OBVIOUS
<1>4. PICK h : Sums(h, w, S \cup {y}) /\ Total(w, S \cup {y}) = h[S \cup {y}]
    BY <1>2, <1>3, TotalIsSum
<1>5. g[S] = h[S]
    BY <1>1, <1>4, SumsAgree
<1>6. h[S \cup {y}] = w[y] + h[S]
    <2>1. (S \cup {y}) \ {y} = S
        OBVIOUS
    <2> QED  BY <1>4, <2>1 DEF Sums
<1>7. h[S] \in Int
    BY <1>4 DEF Sums
<1> QED  BY <1>1, <1>4, <1>5, <1>6, <1>7

\* A sum of values written as an expression is the sum of the function v of them.
LEMMA BalanceIsTotal ==
    ASSUME NEW l, NEW cur, NEW v, \A i \in DOMAIN l : v[i] = Amount(l[i])
    PROVE  Balance(l, cur) = Total(v, {i \in DOMAIN l : l[i].currency = cur})
<1> DEFINE S == {i \in DOMAIN l : l[i].currency = cur}
           IsV(g) == g = [s \in SUBSET S |-> IF s = {} THEN 0 ELSE g[s \ {Picked(s)}] + v[Picked(s)]]
           IsW(g) == g = [s \in SUBSET S |-> IF s = {} THEN 0
                                             ELSE g[s \ {Picked(s)}] + Amount(l[Picked(s)])]
<1>1. \A s \in SUBSET S : s # {} => v[Picked(s)] = Amount(l[Picked(s)])
    BY DEF Picked
<1>2. ASSUME NEW g PROVE IsV(g) <=> IsW(g)
    <2>1. \A s \in SUBSET S : (IF s = {} THEN 0 ELSE g[s \ {Picked(s)}] + v[Picked(s)])
                                = (IF s = {} THEN 0 ELSE g[s \ {Picked(s)}] + Amount(l[Picked(s)]))
        BY <1>1, Zenon
    <2> QED  BY <2>1, Zenon
<1>3. (CHOOSE g : IsV(g)) = (CHOOSE g : IsW(g))
    <2> HIDE DEF IsV, IsW
    <2> QED  BY <1>2, Zenon
<1>4. Total(v, S) = (CHOOSE g : IsV(g))[S]
    BY Zenon DEF Total, SumOver, FoldSet, MapThenFoldSet, Picked
<1>5. Balance(l, cur) = (CHOOSE g : IsW(g))[S]
    BY Zenon DEF Balance, SumOver, FoldSet, MapThenFoldSet, Picked
<1> QED  BY <1>3, <1>4, <1>5, Zenon

LEMMA PositionIsTotal ==
    ASSUME NEW l, NEW sec, NEW v, \A i \in DOMAIN l : v[i] = Quantity(l[i])
    PROVE  Position(l, sec) = Total(v, {i \in DOMAIN l : l[i].security = sec})
<1> DEFINE S == {i \in DOMAIN l : l[i].security = sec}
           IsV(g) == g = [s \in SUBSET S |-> IF s = {} THEN 0 ELSE g[s \ {Picked(s)}] + v[Picked(s)]]
           IsW(g) == g = [s \in SUBSET S |-> IF s = {} THEN 0
                                             ELSE g[s \ {Picked(s)}] + Quantity(l[Picked(s)])]
<1>1. \A s \in SUBSET S : s # {} => v[Picked(s)] = Quantity(l[Picked(s)])
    BY DEF Picked
<1>2. ASSUME NEW g PROVE IsV(g) <=> IsW(g)
    <2>1. \A s \in SUBSET S : (IF s = {} THEN 0 ELSE g[s \ {Picked(s)}] + v[Picked(s)])
                                = (IF s = {} THEN 0 ELSE g[s \ {Picked(s)}] + Quantity(l[Picked(s)]))
        BY <1>1, Zenon
    <2> QED  BY <2>1, Zenon
<1>3. (CHOOSE g : IsV(g)) = (CHOOSE g : IsW(g))
    <2> HIDE DEF IsV, IsW
    <2> QED  BY <1>2, Zenon
<1>4. Total(v, S) = (CHOOSE g : IsV(g))[S]
    BY Zenon DEF Total, SumOver, FoldSet, MapThenFoldSet, Picked
<1>5. Position(l, sec) = (CHOOSE g : IsW(g))[S]
    BY Zenon DEF Position, SumOver, FoldSet, MapThenFoldSet, Picked
<1> QED  BY <1>3, <1>4, <1>5, Zenon

LEMMA GrowsByOne ==
    ASSUME NEW D, IsFiniteSet(D), NEW y, y \notin D, NEW v, NEW w, w[y] \in Int,
           \A x \in D : v[x] \in Int /\ v[x] = w[x], NEW S, S \subseteq D,
           NEW T, T = S \/ T = S \cup {y}
    PROVE  /\ Total(v, S) \in Int
           /\ Total(w, T) = Total(v, S) + IF y \in T THEN w[y] ELSE 0
<1>1. IsFiniteSet(S) /\ y \notin S
    BY FS_Subset
<1>2. \A x \in S : v[x] \in Int /\ v[x] = w[x]
    OBVIOUS
<1>3. Total(v, S) = Total(w, S) /\ Total(v, S) \in Int
    BY <1>1, <1>2, TotalSame
<1>4. CASE T = S
    BY <1>1, <1>3, <1>4
<1>5. CASE T = S \cup {y}
    <2>1. Total(w, S \cup {y}) = Total(w, S) + w[y]
        <3>1. (\A x \in S : w[x] \in Int) /\ w[y] \in Int
            BY <1>2
        <3> QED  BY <1>1, <3>1, TotalMore
    <2> QED  BY <1>3, <1>5, <2>1
<1> QED  BY <1>4, <1>5

-----------------------------------------------------------------------------
(***************************************************************************)
(* What one more row of the ledger adds to a balance and to a holding.     *)
(***************************************************************************)
IsRow(row) == Amount(row) \in Int /\ Quantity(row) \in Int

IsLedger(l) == IsSeq(l) /\ \A i \in DOMAIN l : IsRow(l[i])

Gained(row, cur) == IF row.currency = cur THEN Amount(row) ELSE 0

Moved(row, sec) == IF row.security = sec THEN Quantity(row) ELSE 0

RowAdds(l, row, m) ==
    /\ IsLedger(m)
    /\ \A cur : Balance(l, cur) \in Int /\ Balance(m, cur) = Balance(l, cur) + Gained(row, cur)
    /\ \A sec : Position(l, sec) \in Int /\ Position(m, sec) = Position(l, sec) + Moved(row, sec)

LEMMA RowBooked ==
    ASSUME NEW l, IsLedger(l), NEW row, IsRow(row)
    PROVE  RowAdds(l, row, Append(l, row))
<1>0. PICK m : m = Append(l, row)
    OBVIOUS
<1>1. PICK y : y = Len(l) + 1
    OBVIOUS
<1>2. PICK D : D = DOMAIN l
    OBVIOUS
<1>3. /\ IsSeq(m) /\ DOMAIN m = D \cup {y} /\ y \notin D /\ m[y] = row
      /\ \A i \in D : m[i] = l[i]
    BY <1>0, <1>1, <1>2, AppendFacts DEF IsLedger
<1>4. IsFiniteSet(D)
    BY <1>2, SeqFacts DEF IsLedger
<1>5. IsLedger(m)
    BY <1>2, <1>3 DEF IsLedger
<1>6. ASSUME NEW cur
      PROVE  Balance(l, cur) \in Int /\ Balance(m, cur) = Balance(l, cur) + Gained(row, cur)
    <2>1. PICK v : v = [i \in D |-> Amount(l[i])]
        OBVIOUS
    <2>2. PICK w : w = [i \in D \cup {y} |-> Amount(m[i])]
        OBVIOUS
    <2>3. PICK S : S = {i \in DOMAIN l : l[i].currency = cur}
        OBVIOUS
    <2>4. PICK T : T = {i \in DOMAIN m : m[i].currency = cur}
        OBVIOUS
    <2>5. \A x \in D : v[x] \in Int /\ v[x] = w[x]
        BY <1>2, <1>3, <2>1, <2>2 DEF IsLedger, IsRow
    <2>6. w[y] = Amount(row) /\ w[y] \in Int
        BY <1>3, <2>2 DEF IsRow
    <2>7. /\ S \subseteq D
          /\ T = S \/ T = S \cup {y}
        BY <1>2, <1>3, <2>3, <2>4
    <2>8. y \in T <=> row.currency = cur
        BY <1>3, <2>4
    <2>9. Total(v, S) \in Int /\ Total(w, T) = Total(v, S) + IF y \in T THEN w[y] ELSE 0
        BY <1>3, <1>4, <2>5, <2>6, <2>7, GrowsByOne
    <2>10. Balance(l, cur) = Total(v, S) /\ Balance(m, cur) = Total(w, T)
        <3>1. (\A i \in DOMAIN l : v[i] = Amount(l[i])) /\ (\A i \in DOMAIN m : w[i] = Amount(m[i]))
            BY <1>2, <1>3, <2>1, <2>2
        <3>2. Balance(l, cur) = Total(v, {i \in DOMAIN l : l[i].currency = cur})
            BY <3>1, BalanceIsTotal
        <3>3. Balance(m, cur) = Total(w, {i \in DOMAIN m : m[i].currency = cur})
            BY <3>1, BalanceIsTotal
        <3> QED  BY <2>3, <2>4, <3>2, <3>3
    <2> QED  BY <2>6, <2>8, <2>9, <2>10 DEF Gained
<1>7. ASSUME NEW sec
      PROVE  Position(l, sec) \in Int /\ Position(m, sec) = Position(l, sec) + Moved(row, sec)
    <2>1. PICK v : v = [i \in D |-> Quantity(l[i])]
        OBVIOUS
    <2>2. PICK w : w = [i \in D \cup {y} |-> Quantity(m[i])]
        OBVIOUS
    <2>3. PICK S : S = {i \in DOMAIN l : l[i].security = sec}
        OBVIOUS
    <2>4. PICK T : T = {i \in DOMAIN m : m[i].security = sec}
        OBVIOUS
    <2>5. \A x \in D : v[x] \in Int /\ v[x] = w[x]
        BY <1>2, <1>3, <2>1, <2>2 DEF IsLedger, IsRow
    <2>6. w[y] = Quantity(row) /\ w[y] \in Int
        BY <1>3, <2>2 DEF IsRow
    <2>7. /\ S \subseteq D
          /\ T = S \/ T = S \cup {y}
        BY <1>2, <1>3, <2>3, <2>4
    <2>8. y \in T <=> row.security = sec
        BY <1>3, <2>4
    <2>9. Total(v, S) \in Int /\ Total(w, T) = Total(v, S) + IF y \in T THEN w[y] ELSE 0
        BY <1>3, <1>4, <2>5, <2>6, <2>7, GrowsByOne
    <2>10. Position(l, sec) = Total(v, S) /\ Position(m, sec) = Total(w, T)
        <3>1. (\A i \in DOMAIN l : v[i] = Quantity(l[i])) /\ (\A i \in DOMAIN m : w[i] = Quantity(m[i]))
            BY <1>2, <1>3, <2>1, <2>2
        <3>2. Position(l, sec) = Total(v, {i \in DOMAIN l : l[i].security = sec})
            BY <3>1, PositionIsTotal
        <3>3. Position(m, sec) = Total(w, {i \in DOMAIN m : m[i].security = sec})
            BY <3>1, PositionIsTotal
        <3> QED  BY <2>3, <2>4, <3>2, <3>3
    <2> QED  BY <2>6, <2>8, <2>9, <2>10 DEF Moved
<1>8. RowAdds(l, row, m)
    BY <1>5, <1>6, <1>7 DEF RowAdds
<1> QED  BY <1>0, <1>8, Zenon

(***************************************************************************)
(* The books: whole balances, holdings that are not short, and a ledger    *)
(* that adds up to both.                                                   *)
(***************************************************************************)
Accounts(cash, qty, l) ==
    /\ cash \in [Currencies -> Int] /\ qty \in [Securities -> Nat]
    /\ IsLedger(l)
    /\ \A cur \in Currencies : cash[cur] = Balance(l, cur)
    /\ \A sec \in Securities : qty[sec] = Position(l, sec)

LEMMA RowKeepsAccounts ==
    ASSUME NEW cash, NEW qty, NEW l, Accounts(cash, qty, l), NEW row, IsRow(row),
           NEW c2 \in [Currencies -> Int], NEW q2 \in [Securities -> Nat],
           \A cur \in Currencies : c2[cur] = cash[cur] + Gained(row, cur),
           \A sec \in Securities : q2[sec] = qty[sec] + Moved(row, sec)
    PROVE  Accounts(c2, q2, Append(l, row))
<1>1. PICK m : m = Append(l, row)
    OBVIOUS
<1>2. IsLedger(l)
    BY DEF Accounts
<1>3. RowAdds(l, row, m)
    BY <1>1, <1>2, RowBooked, Zenon
<1>4. Accounts(c2, q2, m)
    BY <1>3 DEF Accounts, RowAdds
<1> QED  BY <1>1, <1>4

-----------------------------------------------------------------------------
(***************************************************************************)
(* Prices, rates and conversions of what was parsed are whole numbers.     *)
(***************************************************************************)
LEMMA PriceFacts ==
    ASSUME NEW e, NEW in, Sound(e, in), NEW s, NEW d, NEW asOf, NEW row,
           row = PriceRow(in, s, d, asOf), row # None
    PROVE  /\ row.currency \in Currencies
           /\ row.open \in Int /\ row.open > 0 /\ row.close \in Int /\ row.close > 0
<1>1. row \in in.prices
    BY DEF PriceRow
<1>2. row.low \in Int /\ row.high \in Int /\ row.currency \in Currencies
    BY <1>1 DEF Sound, TypedInputs
<1>3. row.low > 0 /\ row.open \in row.low..row.high /\ row.close \in row.low..row.high
    BY <1>1 DEF Sound
<1> QED  BY <1>2, <1>3

LEMMA RateFacts ==
    ASSUME NEW e, NEW in, Sound(e, in), NEW source, NEW target, NEW asOf,
           NEW r \in FxRate(in, source, target, asOf)
    PROVE  r[1] \in Int /\ r[1] > 0 /\ r[2] \in Int /\ r[2] > 0
<1>1. \A q \in in.fx : q.rate \in Int /\ q.rate > 0
    BY DEF Sound, TypedInputs
<1>2. CASE source = target
    BY <1>2 DEF FxRate
<1>3. CASE source # target
    <2>1. \E q \in in.fx : r = <<q.rate, 1>> \/ r = <<1, q.rate>>
        BY <1>3 DEF FxRate
    <2> QED  BY <1>1, <2>1
<1> QED  BY <1>2, <1>3

LEMMA Quotient ==
    ASSUME NEW x \in Int, NEW y \in Int, y > 0
    PROVE  x \div y \in Int /\ (x >= 0 => x \div y >= 0)
OBVIOUS

LEMMA Product ==
    ASSUME NEW x \in Int, NEW y \in Int
    PROVE  x * y \in Int /\ (x >= 0 /\ y >= 0 => x * y >= 0) /\ (x > 0 /\ y > 0 => x * y > 0)
OBVIOUS

LEMMA ConvertFacts ==
    ASSUME NEW e, NEW in, Sound(e, in), NEW source, NEW target, NEW asOf,
           HasRate(in, source, target, asOf), NEW amount \in Int
    PROVE  /\ Convert(in, amount, source, target, asOf) \in Int
           /\ amount >= 0 => Convert(in, amount, source, target, asOf) >= 0
<1>1. FxRate(in, source, target, asOf) # {}
    BY FS_EmptySet DEF HasRate
<1>2. PICK r : r = CHOOSE q \in FxRate(in, source, target, asOf) : TRUE
    OBVIOUS
<1>3. r \in FxRate(in, source, target, asOf)
    BY <1>1, <1>2
<1>4. r[1] \in Int /\ r[1] > 0 /\ r[2] \in Int /\ r[2] > 0
    BY <1>3, RateFacts
<1>5. PICK p : p = amount * r[1]
    OBVIOUS
<1>6. p \in Int /\ (amount >= 0 => p >= 0)
    BY <1>4, <1>5, Product
<1>7. p \div r[2] \in Int /\ (p >= 0 => p \div r[2] >= 0)
    BY <1>4, <1>6, Quotient
<1>8. Convert(in, amount, source, target, asOf) = p \div r[2]
    BY <1>2, <1>5, Zenon DEF Convert
<1> QED  BY <1>6, <1>7, <1>8

-----------------------------------------------------------------------------
(***************************************************************************)
(* Accounts of states.  Only a sell that costs more than it brings leaves  *)
(* a balance below zero.                                                   *)
(***************************************************************************)
Solvent(cash, fills) ==
    \/ \A cur \in Currencies : cash[cur] >= 0
    \/ \E f \in ToSet(fills) : f.side = "sell" /\ f.notional < f.fee + f.tax

IsOrder(o) ==
    /\ {"security", "currency", "side", "qty", "status"} \subseteq DOMAIN o
    /\ o.security \in Securities /\ o.currency \in Currencies
    /\ o.side \in {"buy", "sell"} /\ o.qty \in Nat

OrdersTyped(st) ==
    /\ IsSeq(st.orders) /\ st.pending \subseteq DOMAIN st.orders
    /\ \A i \in DOMAIN st.orders : IsOrder(st.orders[i])

Healthy(st) ==
    /\ Accounts(st.cash, st.qty, st.ledger)
    /\ OrdersTyped(st)
    /\ IsSeq(st.fills) /\ Solvent(st.cash, st.fills)

AccountOK(st) == IsState(st) /\ (st.halt = "none" => Healthy(st))

LEMMA HaltAccount ==
    ASSUME NEW st, IsState(st), NEW reason, reason # "none"
    PROVE  AccountOK(Halt(st, reason))
BY HaltShape DEF AccountOK

LEMMA BookFields ==
    ASSUME NEW st, IsState(st), NEW row
    PROVE  LET t == Book(st, row)
           IN  /\ IsState(t) /\ SameOrders(st, t) /\ t.halt = st.halt
               /\ t.cash = st.cash /\ t.qty = st.qty /\ t.nav = st.nav
               /\ t.ledger = Append(st.ledger, row)
BY BookShape DEF Book, IsState, StateFields

\* A state that adds to another a row and what it says of balances and holdings.
Moves(st, t, row) ==
    /\ IsRow(row) /\ t.ledger = Append(st.ledger, row)
    /\ t.cash \in [Currencies -> Int] /\ t.qty \in [Securities -> Nat]
    /\ \A cur \in Currencies : t.cash[cur] = st.cash[cur] + Gained(row, cur)
    /\ \A sec \in Securities : t.qty[sec] = st.qty[sec] + Moved(row, sec)

LEMMA MovesAccounts ==
    ASSUME NEW st, Accounts(st.cash, st.qty, st.ledger), NEW t, NEW row, Moves(st, t, row)
    PROVE  Accounts(t.cash, t.qty, t.ledger)
<1>1. PICK c2, q2 : c2 = t.cash /\ q2 = t.qty
    OBVIOUS
<1>2. c2 \in [Currencies -> Int] /\ q2 \in [Securities -> Nat] /\ IsRow(row)
    BY <1>1 DEF Moves
<1>3. /\ \A cur \in Currencies : c2[cur] = st.cash[cur] + Gained(row, cur)
      /\ \A sec \in Securities : q2[sec] = st.qty[sec] + Moved(row, sec)
    BY <1>1 DEF Moves
<1>4. Accounts(c2, q2, Append(st.ledger, row))
    BY <1>2, <1>3, RowKeepsAccounts
<1> QED  BY <1>1, <1>4 DEF Moves

LEMMA GainsKeep ==
    ASSUME NEW st, Healthy(st), NEW t, SameOrders(st, t), NEW row, Moves(st, t, row),
           \A cur \in Currencies : Gained(row, cur) >= 0
    PROVE  Healthy(t)
<1>1. Accounts(t.cash, t.qty, t.ledger)
    BY MovesAccounts DEF Healthy
<1>2. \A cur \in Currencies : st.cash[cur] \in Int /\ Gained(row, cur) \in Int
    BY DEF Healthy, Accounts, Gained, Moves, IsRow
<1>3. Solvent(t.cash, t.fills)
    <2>1. Solvent(st.cash, t.fills)
        BY DEF Healthy, SameOrders, SameCosts
    <2>2. ASSUME \A cur \in Currencies : st.cash[cur] >= 0
          PROVE  \A cur \in Currencies : t.cash[cur] >= 0
        BY <1>2, <2>2 DEF Moves
    <2> QED  BY <2>1, <2>2 DEF Solvent
<1> QED  BY <1>1, <1>3 DEF Healthy, SameOrders, OrdersTyped, SameCosts

\* The same books and orders.
LEMMA SameAccount ==
    ASSUME NEW st, Healthy(st), NEW t, SameOrders(st, t),
           t.cash = st.cash, t.qty = st.qty, t.ledger = st.ledger
    PROVE  Healthy(t)
BY DEF Healthy, SameOrders, OrdersTyped, SameCosts

\* A row that says nothing of balances and holdings.
LEMMA SilentRow ==
    ASSUME NEW st, Healthy(st), NEW t, SameOrders(st, t), NEW row,
           t.cash = st.cash, t.qty = st.qty, t.ledger = Append(st.ledger, row),
           Amount(row) = 0, Quantity(row) = 0
    PROVE  Healthy(t)
<1>1. \A x : Gained(row, x) = 0 /\ Moved(row, x) = 0
    BY DEF Gained, Moved
<1>2. Moves(st, t, row)
    BY <1>1 DEF Moves, IsRow, Healthy, Accounts
<1>3. \A cur \in Currencies : Gained(row, cur) >= 0
    BY <1>1
<1> QED  BY <1>2, <1>3, GainsKeep

LEMMA Emptied ==
    ASSUME NEW q \in [Securities -> Nat], NEW sec
    PROVE  [q EXCEPT ![sec] = 0] \in [Securities -> Nat]
OBVIOUS

LEMMA ActionAccount ==
    ASSUME NEW e, NEW in, Sound(e, in), NEW session, NEW st, AccountOK(st),
           NEW a \in in.corporate_actions
    PROVE  AccountOK(ApplyAction(e, in, session, st, a))
<1> DEFINE q       == st.qty[a.security]
           base    == e.accounting.base_currency
           done    == [st EXCEPT !.processed = @ \cup {a.id}]
           split   == (q * a.numerator) \div a.denominator
           gain(p) == [done EXCEPT !.cash[a.currency] = @ + q * p]
           r1      == Row(session, "split", a.currency, 0, a.security, split - q)
           r2      == Row(session, "dividend", a.currency, q * a.cash, a.security, q)
           r3      == Row(session, "delisting", a.currency, q * a.settlement, a.security, -q)
           g1      == [done EXCEPT !.qty[a.security] = split]
           g2      == gain(a.cash)
           g3      == [gain(a.settlement) EXCEPT !.qty[a.security] = 0]
           t       == ApplyAction(e, in, session, st, a)
           late    == a.available > session.open
           other   == st.currency[a.security] # a.currency
           unrated == ~HasRate(in, a.currency, base, session.open)
<1>0. t = IF st.halt # "none" \/ a.id \in st.processed THEN st
          ELSE IF q = 0 THEN done
          ELSE IF late THEN Halt(st, "action not available")
          ELSE IF other THEN Halt(st, "action currency")
          ELSE IF a.type = "split" THEN Book(g1, r1)
          ELSE IF unrated THEN Halt(st, "no FX rate")
          ELSE IF a.type = "cash_dividend" THEN Book(g2, r2)
          ELSE IF a.settlement = None THEN Halt(st, "no settlement price")
          ELSE Book(g3, r3)
    BY Zenon DEF ApplyAction
<1> HIDE DEF t, late, other, unrated
<1>1. /\ AccountOK(st) /\ \A reason : reason # "none" => AccountOK(Halt(st, reason))
    BY HaltAccount DEF AccountOK
<1> SUFFICES ASSUME st.halt = "none" PROVE AccountOK(t)
    <2>1. ASSUME st.halt # "none" PROVE AccountOK(t)
        <3>1. t = st
            BY <1>0, <2>1, Zenon
        <3> QED  BY <1>1, <3>1, Zenon
    <2> QED  BY <2>1, Zenon DEF t
<1>2. Healthy(st) /\ IsState(st)
    BY DEF AccountOK
<1>3. /\ a.security \in Securities /\ a.currency \in Currencies /\ SoundAction(a)
      /\ a.type = "split" => a.numerator \in Int /\ a.denominator \in Int
      /\ a.type = "cash_dividend" => a.cash \in Int
      /\ a.settlement # None => a.settlement \in Int
    BY DEF Sound, TypedInputs
<1>4. /\ st.cash \in [Currencies -> Int] /\ st.qty \in [Securities -> Nat] /\ q \in Nat
    BY <1>2, <1>3 DEF Healthy, Accounts
<1>5. /\ IsState(done) /\ SameOrders(st, done) /\ done.halt = st.halt
      /\ done.cash = st.cash /\ done.qty = st.qty /\ done.ledger = st.ledger
    BY <1>2 DEF IsState, StateFields, SameOrders, SameCosts
<1> HIDE DEF done, q
<1>6. AccountOK(done)
    BY <1>2, <1>5, SameAccount DEF AccountOK
<1>7. CASE a.type = "split"
    <2>1. split \in Nat
        <3>1. PICK x : x = q * a.numerator
            OBVIOUS
        <3>2. x \in Int /\ x >= 0
            BY <1>3, <1>4, <1>7, <3>1, Product DEF SoundAction
        <3>3. x \div a.denominator \in Int /\ x \div a.denominator >= 0
            BY <1>3, <1>7, <3>2, Quotient DEF SoundAction
        <3> QED  BY <3>1, <3>3
    <2>2. IsRow(r1) /\ Amount(r1) = 0 /\ Quantity(r1) = split - q /\ r1.security = a.security
        BY <1>4, <2>1 DEF IsRow, Amount, Quantity, Row
    <2> HIDE DEF split, r1
    <2>3. /\ IsState(g1) /\ SameOrders(st, g1) /\ g1.cash = st.cash
          /\ g1.qty = [st.qty EXCEPT ![a.security] = split] /\ g1.ledger = st.ledger
        BY <1>5 DEF IsState, StateFields, SameOrders, SameCosts
    <2> HIDE DEF g1
    <2>4. PICK u : u = Book(g1, r1)
        OBVIOUS
    <2>5. /\ IsState(u) /\ SameOrders(st, u) /\ u.cash = st.cash
          /\ u.qty = [st.qty EXCEPT ![a.security] = split] /\ u.ledger = Append(st.ledger, r1)
        BY <2>3, <2>4, BookFields DEF SameOrders, SameCosts
    <2>6. Moves(st, u, r1)
        BY <1>3, <1>4, <2>1, <2>2, <2>5 DEF Moves, Gained, Moved, q
    <2>7. \A cur \in Currencies : Gained(r1, cur) >= 0
        BY <2>2 DEF Gained
    <2>8. AccountOK(u)
        BY <1>2, <2>5, <2>6, <2>7, GainsKeep DEF AccountOK
    <2> QED  BY <1>0, <1>1, <1>6, <1>7, <2>4, <2>8
<1>8. CASE a.type = "cash_dividend"
    <2>1. q * a.cash \in Int /\ q * a.cash >= 0
        BY <1>3, <1>4, <1>8, Product DEF SoundAction
    <2>2. PICK x : x = q * a.cash
        OBVIOUS
    <2>3. IsRow(r2) /\ Amount(r2) = x /\ Quantity(r2) = 0 /\ r2.currency = a.currency
        BY <2>1, <2>2 DEF IsRow, Amount, Quantity, Row
    <2> HIDE DEF r2
    <2>4. /\ IsState(g2) /\ SameOrders(st, g2) /\ g2.qty = st.qty
          /\ g2.cash = [st.cash EXCEPT ![a.currency] = @ + x] /\ g2.ledger = st.ledger
        BY <1>5, <2>2 DEF IsState, StateFields, SameOrders, SameCosts
    <2> HIDE DEF g2
    <2>5. PICK u : u = Book(g2, r2)
        OBVIOUS
    <2>6. /\ IsState(u) /\ SameOrders(st, u) /\ u.qty = st.qty
          /\ u.cash = [st.cash EXCEPT ![a.currency] = @ + x] /\ u.ledger = Append(st.ledger, r2)
        BY <2>4, <2>5, BookFields DEF SameOrders, SameCosts
    <2>7. Moves(st, u, r2)
        BY <1>3, <1>4, <2>1, <2>2, <2>3, <2>6 DEF Moves, Gained, Moved
    <2>8. \A cur \in Currencies : Gained(r2, cur) >= 0
        BY <2>1, <2>2, <2>3 DEF Gained
    <2>9. AccountOK(u)
        BY <1>2, <2>6, <2>7, <2>8, GainsKeep DEF AccountOK
    <2> QED  BY <1>0, <1>1, <1>6, <1>8, <2>5, <2>9
<1>9. CASE a.type \notin {"split", "cash_dividend"}
    <2> SUFFICES ASSUME a.settlement # None PROVE AccountOK(t)
        BY <1>0, <1>1, <1>6, <1>9
    <2>1. q * a.settlement \in Int /\ q * a.settlement >= 0
        BY <1>3, <1>4, Product DEF SoundAction
    <2>2. PICK x : x = q * a.settlement
        OBVIOUS
    <2>3. /\ IsRow(r3) /\ Amount(r3) = x /\ Quantity(r3) = -q
          /\ r3.currency = a.currency /\ r3.security = a.security
        BY <1>4, <2>1, <2>2 DEF IsRow, Amount, Quantity, Row
    <2> HIDE DEF r3
    <2>4. /\ IsState(g3) /\ SameOrders(st, g3) /\ g3.qty = [st.qty EXCEPT ![a.security] = 0]
          /\ g3.cash = [st.cash EXCEPT ![a.currency] = @ + x] /\ g3.ledger = st.ledger
        <3> DEFINE g == gain(a.settlement)
        <3>1. /\ IsState(g) /\ SameOrders(st, g) /\ g.qty = st.qty
              /\ g.cash = [st.cash EXCEPT ![a.currency] = @ + x] /\ g.ledger = st.ledger
            BY <1>5, <2>2 DEF IsState, StateFields, SameOrders, SameCosts
        <3> HIDE DEF g
        <3>2. g3 = [g EXCEPT !.qty[a.security] = 0]
            BY DEF g
        <3> HIDE DEF g3
        <3> QED  BY <3>1, <3>2 DEF IsState, StateFields, SameOrders, SameCosts
    <2> HIDE DEF g3
    <2>5. PICK u : u = Book(g3, r3)
        OBVIOUS
    <2>6. /\ IsState(u) /\ SameOrders(st, u) /\ u.qty = [st.qty EXCEPT ![a.security] = 0]
          /\ u.cash = [st.cash EXCEPT ![a.currency] = @ + x] /\ u.ledger = Append(st.ledger, r3)
        BY <2>4, <2>5, BookFields DEF SameOrders, SameCosts
    <2>7. Moves(st, u, r3)
        <3>1. x \in Int
            BY <2>1, <2>2
        <3>2. u.cash \in [Currencies -> Int] /\ u.qty \in [Securities -> Nat]
            <4>1. u.cash \in [Currencies -> Int]
                BY <1>3, <1>4, <2>6, <3>1
            <4>2. u.qty \in [Securities -> Nat]
                <5>1. PICK p : p = [st.qty EXCEPT ![a.security] = 0]
                    OBVIOUS
                <5>2. p \in [Securities -> Nat]
                    BY <1>4, <5>1, Emptied
                <5> QED  BY <2>6, <5>1, <5>2, Zenon
            <4> QED  BY <4>1, <4>2
        <3>3. \A cur \in Currencies : u.cash[cur] = st.cash[cur] + Gained(r3, cur)
            BY <1>3, <1>4, <2>3, <2>6, <3>1 DEF Gained
        <3>4. \A sec \in Securities : u.qty[sec] = st.qty[sec] + Moved(r3, sec)
            BY <1>3, <1>4, <2>3, <2>6 DEF Moved, q
        <3> QED  BY <2>3, <2>6, <3>2, <3>3, <3>4 DEF Moves
    <2>8. \A cur \in Currencies : Gained(r3, cur) >= 0
        BY <2>1, <2>2, <2>3 DEF Gained
    <2>9. AccountOK(u)
        BY <1>2, <2>6, <2>7, <2>8, GainsKeep DEF AccountOK
    <2> QED  BY <1>0, <1>1, <1>6, <1>9, <2>5, <2>9
<1> QED  BY <1>7, <1>8, <1>9 DEF t

LEMMA EventsEnumerate ==
    ASSUME NEW e, NEW in, Sound(e, in), IsFiniteSet(in.corporate_actions), NEW date
    PROVE  \E n \in Nat : /\ DOMAIN ActionEvents(in, date) = 1..n
                          /\ \A i \in 1..n : ActionEvents(in, date)[i] \in in.corporate_actions
<1> DEFINE On(a) == date = IF a.type = "cash_dividend" THEN a.payment ELSE a.effective
           S == {a \in in.corporate_actions : On(a)}
           Before(a, b) == \/ Priority(a) < Priority(b)
                           \/ Priority(a) = Priority(b) /\ a.id < b.id
           R == {p \in S \X S : Before(p[1], p[2])}
<1>1. IsFiniteSet(S)
    BY FS_Subset
<1>2. PICK n \in Nat : n = Cardinality(S)
    BY <1>1, FS_CardinalityType
<1>3. \A a \in S : Priority(a) \in Int /\ a.id \in Int /\ a \in in.corporate_actions
    BY DEF Sound, TypedInputs, Priority
<1>4. \A a, b \in S : a.id = b.id => a = b
    BY DEF Sound
<1> HIDE DEF S
<1>5. \A a, b \in S : <<a, b>> \in R <=> Before(a, b)
    OBVIOUS
<1> HIDE DEF R
<1>6. Orders(R, S)
    <2>1. \A a \in S : <<a, a>> \notin R
        BY <1>3, <1>5
    <2>2. ASSUME NEW a \in S, NEW b \in S, NEW c \in S, Before(a, b), Before(b, c) PROVE Before(a, c)
        <3>1. /\ Priority(a) \in Int /\ Priority(b) \in Int /\ Priority(c) \in Int
              /\ a.id \in Int /\ b.id \in Int /\ c.id \in Int
            BY <1>3
        <3> QED  BY <2>2, <3>1
    <2>3. ASSUME NEW a \in S, NEW b \in S, a # b PROVE Before(a, b) \/ Before(b, a)
        <3>1. /\ Priority(a) \in Int /\ Priority(b) \in Int /\ a.id \in Int /\ b.id \in Int
              /\ a.id # b.id
            BY <1>3, <1>4, <2>3
        <3> QED  BY <3>1
    <2> HIDE DEF Before
    <2> QED  BY <1>5, <2>1, <2>2, <2>3 DEF Orders
<1>7. \A a \in S : Below(R, S, a) = {b \in S : Before(b, a)}
    <2> HIDE DEF Before
    <2> QED  BY <1>5 DEF Below
<1> DEFINE x(i) == CHOOSE a \in S : Cardinality({b \in S : Before(b, a)}) = i - 1
<1>8. ActionEvents(in, date) = [i \in 1..n |-> x(i)]
    BY <1>2, Zenon DEF ActionEvents, Sorted, S
<1> HIDE DEF Before
<1>9. \A i : x(i) = CHOOSE a \in S : Cardinality(Below(R, S, a)) = i - 1
    BY <1>7
<1>10. PICK s : s = ActionEvents(in, date)
    OBVIOUS
<1>11. s = [i \in 1..n |-> CHOOSE a \in S : Cardinality(Below(R, S, a)) = i - 1]
    <2> HIDE DEF x
    <2> QED  BY <1>8, <1>9, <1>10, Zenon
<1>12. Enumerates(s, S, R, n)
    BY <1>1, <1>2, <1>6, <1>11, SortedEnumerates
<1>13. DOMAIN s = 1..n /\ \A i \in 1..n : s[i] \in S
    BY <1>12 DEF Enumerates
<1>14. \A i \in 1..n : s[i] \in in.corporate_actions
    BY <1>3, <1>13
<1> QED  BY <1>2, <1>10, <1>13, <1>14

LEMMA ActionsAccount ==
    ASSUME NEW e, NEW in, Sound(e, in), IsFiniteSet(in.corporate_actions),
           NEW session, NEW st, AccountOK(st), NEW t, t = ApplyActions(e, in, st, session)
    PROVE  AccountOK(t)
<1>1. PICK seq : seq = ActionEvents(in, session.date)
    OBVIOUS
<1>2. PICK n \in Nat : DOMAIN seq = 1..n /\ \A i \in 1..n : seq[i] \in in.corporate_actions
    BY <1>1, EventsEnumerate
<1>3. PICK tr : /\ Traces(tr, "action", <<e, in, session>>, st, seq, n)
                /\ tr[n] = ActionFold(e, in, session, st, seq)
    BY <1>2, ActionTrace
<1>4. tr[n] = t
    BY <1>1, <1>3, Zenon DEF ApplyActions, ActionFold
<1> DEFINE T == {m \in 0..n : AccountOK(tr[m])}
<1>5. 0 \in T
    BY <1>3 DEF Traces
<1>6. ASSUME NEW m \in 0..n, m < n, m \in T PROVE m + 1 \in T
    <2>1. m + 1 \in 0..n /\ m + 1 \in 1..n
        BY <1>6
    <2>2. PICK a : a = seq[m + 1]
        OBVIOUS
    <2>3. tr[m + 1] = FoldStep("action", <<e, in, session>>, tr[m], a)
        BY <1>3, <1>6, <2>2 DEF Traces
    <2>4. tr[m + 1] = ApplyAction(e, in, session, tr[m], a)
        BY <2>3 DEF FoldStep
    <2>5. a \in in.corporate_actions
        BY <1>2, <2>1, <2>2
    <2>6. AccountOK(ApplyAction(e, in, session, tr[m], a))
        BY <1>6, <2>5, ActionAccount
    <2> QED  BY <2>1, <2>4, <2>6
<1>7. n \in T
    <2> HIDE DEF T
    <2>1. 0..n \subseteq T
        BY <1>5, <1>6, UpTo
    <2> QED  BY <2>1
<1> QED  BY <1>4, <1>7

\* A row of an amount in a currency and of a change of d in a security.
Says(row, cur, x, sec, d) ==
    /\ row.currency = cur /\ Amount(row) = x /\ x \in Int
    /\ Quantity(row) = d /\ d \in Int /\ (d # 0 => row.security = sec)

LEMMA RowMoves ==
    ASSUME NEW cash, NEW qty, NEW l, Accounts(cash, qty, l), NEW cur \in Currencies,
           NEW sec \in Securities, NEW x, NEW d, NEW row, Says(row, cur, x, sec, d), qty[sec] + d >= 0
    PROVE  Accounts([cash EXCEPT ![cur] = @ + x], [qty EXCEPT ![sec] = @ + d], Append(l, row))
<1>1. PICK c2, q2 : c2 = [cash EXCEPT ![cur] = @ + x] /\ q2 = [qty EXCEPT ![sec] = @ + d]
    OBVIOUS
<1>2. cash \in [Currencies -> Int] /\ qty \in [Securities -> Nat]
    BY DEF Accounts
<1>3. IsRow(row) /\ x \in Int /\ d \in Int
    BY DEF Says, IsRow
<1>4. c2 \in [Currencies -> Int] /\ \A k \in Currencies : c2[k] = cash[k] + Gained(row, k)
    BY <1>1, <1>2, <1>3 DEF Gained, Says
<1>5. q2 \in [Securities -> Nat]
    BY <1>1, <1>2, <1>3
<1>6. \A s \in Securities : q2[s] = qty[s] + Moved(row, s)
    BY <1>1, <1>2, <1>3 DEF Moved, Says
<1>7. Accounts(c2, q2, Append(l, row))
    BY <1>3, <1>4, <1>5, <1>6, RowKeepsAccounts
<1> QED  BY <1>1, <1>7

LEMMA RowPays ==
    ASSUME NEW cash, NEW qty, NEW l, Accounts(cash, qty, l), NEW cur \in Currencies,
           NEW x, NEW sec, NEW row, Says(row, cur, x, sec, 0)
    PROVE  Accounts([cash EXCEPT ![cur] = @ + x], qty, Append(l, row))
<1>1. PICK c2 : c2 = [cash EXCEPT ![cur] = @ + x]
    OBVIOUS
<1>2. cash \in [Currencies -> Int] /\ qty \in [Securities -> Nat]
    BY DEF Accounts
<1>3. IsRow(row) /\ x \in Int /\ \A s \in Securities : Moved(row, s) = 0
    BY DEF Says, IsRow, Moved
<1>4. c2 \in [Currencies -> Int] /\ \A k \in Currencies : c2[k] = cash[k] + Gained(row, k)
    BY <1>1, <1>2, <1>3 DEF Gained, Says
<1>5. \A s \in Securities : qty[s] = qty[s] + Moved(row, s)
    BY <1>2, <1>3
<1>6. Accounts(c2, qty, Append(l, row))
    BY <1>2, <1>3, <1>4, <1>5, RowKeepsAccounts
<1> QED  BY <1>1, <1>6

\* A fill, its fee and its tax.
LEMMA FillBooked ==
    ASSUME NEW cash, NEW qty, NEW l, Accounts(cash, qty, l), NEW cur \in Currencies,
           NEW sec \in Securities, NEW out, NEW fee, NEW tax, NEW d,
           out \in Int, fee \in Int, tax \in Int,
           NEW r1, Says(r1, cur, -out, sec, d), NEW r2, Says(r2, cur, -fee, sec, 0),
           NEW r3, Says(r3, cur, -tax, sec, 0), qty[sec] + d >= 0
    PROVE  Accounts([cash EXCEPT ![cur] = @ - out - fee - tax], [qty EXCEPT ![sec] = @ + d],
                    Append(Append(Append(l, r1), r2), r3))
<1>1. PICK q2 : q2 = [qty EXCEPT ![sec] = @ + d]
    OBVIOUS
<1>2. PICK l1 : l1 = Append(l, r1)
    OBVIOUS
<1>3. PICK c1 : c1 = [cash EXCEPT ![cur] = @ + (-out)]
    OBVIOUS
<1>4. Accounts(c1, q2, l1)
    BY <1>1, <1>2, <1>3, RowMoves
<1>5. PICK l2 : l2 = Append(l1, r2)
    OBVIOUS
<1>6. PICK c2 : c2 = [c1 EXCEPT ![cur] = @ + (-fee)]
    OBVIOUS
<1>7. Accounts(c2, q2, l2)
    BY <1>4, <1>5, <1>6, RowPays
<1>8. PICK c3 : c3 = [c2 EXCEPT ![cur] = @ + (-tax)]
    OBVIOUS
<1>9. Accounts(c3, q2, Append(l2, r3))
    BY <1>7, <1>8, RowPays
<1>10. c3 = [cash EXCEPT ![cur] = @ - out - fee - tax]
    <2>1. cash \in [Currencies -> Int]
        BY DEF Accounts
    <2> QED  BY <1>3, <1>6, <1>8, <2>1
<1> QED  BY <1>1, <1>2, <1>5, <1>9, <1>10

\* A conversion of one currency into another.
LEMMA ConversionBooked ==
    ASSUME NEW cash, NEW qty, NEW l, Accounts(cash, qty, l), NEW cur \in Currencies,
           NEW base \in Currencies, cur # base, NEW x \in Int, NEW y \in Int,
           NEW sec, NEW r1, Says(r1, base, -y, sec, 0), NEW r2, Says(r2, cur, x, sec, 0)
    PROVE  Accounts([cash EXCEPT ![cur] = @ + x, ![base] = @ - y], qty, Append(Append(l, r1), r2))
<1>1. PICK l1 : l1 = Append(l, r1)
    OBVIOUS
<1>2. PICK c1 : c1 = [cash EXCEPT ![base] = @ + (-y)]
    OBVIOUS
<1>3. Accounts(c1, qty, l1)
    BY <1>1, <1>2, RowPays
<1>4. PICK c2 : c2 = [c1 EXCEPT ![cur] = @ + x]
    OBVIOUS
<1>5. Accounts(c2, qty, Append(l1, r2))
    BY <1>3, <1>4, RowPays
<1>6. c2 = [cash EXCEPT ![cur] = @ + x, ![base] = @ - y]
    <2>1. cash \in [Currencies -> Int]
        BY DEF Accounts
    <2> QED  BY <1>2, <1>4, <2>1
<1> QED  BY <1>1, <1>5, <1>6

LEMMA OrderKept ==
    ASSUME NEW o, IsOrder(o), NEW status, NEW q \in Nat
    PROVE  IsOrder([o EXCEPT !.status = status]) /\ IsOrder([o EXCEPT !.status = status, !.qty = q])
BY DEF IsOrder

LEMMA OrdersKept ==
    ASSUME NEW st, OrdersTyped(st), NEW i \in DOMAIN st.orders, NEW o, IsOrder(o), NEW t,
           t.orders = [st.orders EXCEPT ![i] = o], t.pending = st.pending
    PROVE  OrdersTyped(t)
<1>1. PICK s, u : s = st.orders /\ u = [s EXCEPT ![i] = o]
    OBVIOUS
<1>2. IsSeq(s) /\ i \in DOMAIN s /\ \A j \in DOMAIN s : IsOrder(s[j])
    BY <1>1 DEF OrdersTyped
<1>3. u = [j \in DOMAIN s |-> u[j]]
    BY <1>1
<1>4. IsSeq(u) /\ DOMAIN u = DOMAIN s
    BY <1>2, <1>3, ExceptFacts
<1>5. \A j \in DOMAIN u : IsOrder(u[j])
    BY <1>1, <1>2, <1>4
<1> QED  BY <1>1, <1>4, <1>5 DEF OrdersTyped

LEMMA RejectAccount ==
    ASSUME NEW st, IsState(st), Healthy(st), NEW e, NEW i \in DOMAIN st.orders, NEW session
    PROVE  LET t == RejectOrder(e, st, i, session)
           IN  AccountOK(t) /\ (t.halt = "none" => SameCosts(st, t))
<1> DEFINE mid == [st EXCEPT !.orders[i].status = "rejected", !.rejected = @ + 1]
           o   == st.orders[i]
           row == Row(session, "reject", o.currency, 0, o.security, Signed(o))
           rejected == Book(mid, row)
<1>1. /\ IsState(mid) /\ mid.cash = st.cash /\ mid.qty = st.qty /\ mid.ledger = st.ledger
      /\ mid.fills = st.fills /\ mid.pending = st.pending
      /\ mid.orders = [st.orders EXCEPT ![i] = [o EXCEPT !.status = "rejected"]]
    BY DEF IsState, StateFields
<1>2. IsOrder([o EXCEPT !.status = "rejected"]) /\ OrdersTyped(st)
    <2>1. IsOrder(o) /\ OrdersTyped(st)
        BY DEF Healthy, OrdersTyped
    <2> QED  BY <2>1, OrderKept
<1>3. Amount(row) = 0 /\ Quantity(row) = 0
    BY DEF Row, Amount, Quantity
<1> HIDE DEF mid, row, o
<1>4. OrdersTyped(mid)
    BY <1>1, <1>2, OrdersKept
<1>5. Healthy(mid)
    BY <1>1, <1>4 DEF Healthy
<1>6. PICK u : u = rejected
    OBVIOUS
<1>7. /\ IsState(u) /\ SameOrders(mid, u) /\ u.cash = mid.cash /\ u.qty = mid.qty
      /\ u.ledger = Append(mid.ledger, row)
    BY <1>1, <1>6, BookFields
<1>8. Healthy(u)
    BY <1>3, <1>5, <1>7, SilentRow
<1>9. AccountOK(u) /\ AccountOK(Halt(u, "order rejected"))
    BY <1>7, <1>8, HaltAccount DEF AccountOK
<1>11. SameCosts(st, u) /\ Halt(u, "order rejected").halt # "none"
    <2>1. SameCosts(st, mid)
        BY DEF mid, IsState, StateFields, SameCosts
    <2>2. PICK reason : reason = "order rejected"
        OBVIOUS
    <2>3. Halt(u, reason).halt = reason
        BY <1>7, HaltShape
    <2> QED  BY <1>7, <2>1, <2>2, <2>3 DEF SameOrders, SameCosts
<1>10. RejectOrder(e, st, i, session) =
           IF e.missing = "halt_experiment" THEN Halt(rejected, "order rejected") ELSE rejected
    BY Zenon DEF RejectOrder, rejected, mid, row, o
<1> QED  BY <1>6, <1>9, <1>10, <1>11, Zenon

(***************************************************************************)
(* The conversion that funds a buy: both legs are in the ledger, and no    *)
(* balance falls below zero.                                               *)
(***************************************************************************)
FundedFor(st, t, currency, required) ==
    /\ Funded(st, t) /\ t.qty = st.qty /\ Accounts(t.cash, t.qty, t.ledger)
    /\ t.cash[currency] >= required
    /\ (\A c \in Currencies : st.cash[c] >= 0) => (\A c \in Currencies : t.cash[c] >= 0)

LEMMA FundAccount ==
    ASSUME NEW e, NEW in, Sound(e, in), NEW st, IsState(st), Healthy(st), NEW currency \in Currencies,
           NEW required \in Int, NEW session,
           HasRate(in, currency, e.accounting.base_currency, session.open),
           CanFund(e, in, st, currency, required, session)
    PROVE  FundedFor(st, FundTradeCurrency(e, in, st, currency, required, session), currency, required)
<1> DEFINE base   == e.accounting.base_currency
           short  == required - st.cash[currency]
           inBase == Convert(in, short, currency, base, session.open)
           r1     == Row(session, "fx_conversion", base, -inBase, None, 0)
           r2     == Row(session, "fx_conversion", currency, short, None, 0)
           m      == [st EXCEPT !.cash[currency] = @ + short, !.cash[base] = @ - inBase]
           t      == FundTradeCurrency(e, in, st, currency, required, session)
<1>1. t = IF short <= 0 THEN st ELSE Book(Book(m, r1), r2)
    BY Zenon DEF FundTradeCurrency
<1>2. base \in Currencies /\ st.cash \in [Currencies -> Int]
    BY DEF Sound, TypedAccount, Healthy, Accounts
<1>3. short \in Int
    BY <1>2
<1>4. short <= 0 \/ (currency # base /\ inBase <= st.cash[base])
    BY DEF CanFund
<1>5. Funded(st, t)
    BY FundShape
<1>6. HasRate(in, currency, base, session.open)
    OBVIOUS
<1> HIDE DEF t, base
<1>7. inBase \in Int
    <2> HIDE DEF short
    <2> QED  BY <1>3, <1>6, ConvertFacts
<1>8. Says(r1, base, -inBase, None, 0) /\ Says(r2, currency, short, None, 0)
    <2> HIDE DEF short, inBase
    <2> QED  BY <1>3, <1>7 DEF Says, Row, Amount, Quantity
<1> HIDE DEF r1, r2, inBase
<1>9. CASE short <= 0
    <2>1. t = st
        BY <1>1, <1>9
    <2>2. st.cash[currency] >= required
        BY <1>2, <1>9
    <2> QED  BY <1>5, <2>1, <2>2 DEF t, FundedFor, Healthy
<1>10. CASE ~(short <= 0)
    <2>1. PICK c2 : c2 = [st.cash EXCEPT ![currency] = @ + short, ![base] = @ - inBase]
        OBVIOUS
    <2>2. /\ IsState(m) /\ m.cash = c2 /\ m.qty = st.qty /\ m.ledger = st.ledger
        <3> HIDE DEF short
        <3>1. DOMAIN m = StateFields /\ m = [f \in StateFields |-> m[f]]
            BY DEF IsState, StateFields
        <3>2. m.cash = c2
            BY <2>1 DEF IsState, StateFields
        <3>3. m.qty = st.qty /\ m.ledger = st.ledger /\ m.pending = st.pending
            BY DEF IsState, StateFields
        <3> HIDE DEF m
        <3> QED  BY <3>1, <3>2, <3>3 DEF IsState
    <2> HIDE DEF m
    <2>3. PICK u : u = Book(m, r1)
        OBVIOUS
    <2>4. /\ IsState(u) /\ u.cash = c2 /\ u.qty = st.qty /\ u.ledger = Append(st.ledger, r1)
        BY <2>2, <2>3, BookFields
    <2>5. t = Book(u, r2)
        BY <1>1, <1>10, <2>3
    <2>6. t.cash = c2 /\ t.qty = st.qty /\ t.ledger = Append(Append(st.ledger, r1), r2)
        BY <2>4, <2>5, BookFields
    <2>7. currency # base /\ inBase <= st.cash[base]
        BY <1>4, <1>10
    <2>8. Accounts(c2, st.qty, Append(Append(st.ledger, r1), r2))
        <3> HIDE DEF short
        <3>1. Accounts(st.cash, st.qty, st.ledger)
            BY DEF Healthy
        <3> QED  BY <1>2, <1>3, <1>7, <1>8, <2>1, <2>7, <3>1, ConversionBooked
    <2>9. c2[currency] = required /\ c2[base] = st.cash[base] - inBase
          /\ \A c \in Currencies \ {currency, base} : c2[c] = st.cash[c]
        BY <1>2, <1>7, <2>1, <2>7
    <2>10. required >= st.cash[currency] /\ c2[base] >= 0
        BY <1>2, <1>7, <1>10, <2>7, <2>9
    <2>11. ASSUME \A c \in Currencies : st.cash[c] >= 0 PROVE \A c \in Currencies : c2[c] >= 0
        <3>1. required >= 0
            BY <1>2, <2>10, <2>11
        <3> QED  BY <1>2, <2>9, <2>10, <2>11, <3>1
    <2>12. c2[currency] >= required
        BY <2>9
    <2> QED  BY <1>5, <2>6, <2>8, <2>11, <2>12 DEF t, FundedFor
<1> QED  BY <1>9, <1>10

LEMMA TermsTyped ==
    ASSUME NEW e, NEW in, Sound(e, in), NEW row, row.open \in Int, NEW side, NEW q \in Nat
    PROVE  LET terms == FillTerms(e.cost, row, side, q)
           IN  terms.notional \in Int /\ terms.fee \in Int /\ terms.tax \in Int /\ terms.slip \in Int
<1> DEFINE gross == row.open * q
           sign  == IF side = "buy" THEN 1 ELSE -1
           spread == (gross * e.cost.spread) \div (2 * Scale)
           slip  == (gross * e.cost.slippage) \div Scale
           fee   == Larger((gross * e.cost.commission) \div Scale + e.cost.fixed_fee, e.cost.minimum_fee)
           tax   == (gross * e.cost.tax) \div Scale
           terms == [gross |-> gross, notional |-> gross + sign * (spread + slip), fee |-> fee,
                     tax |-> tax, slip |-> spread + slip]
<1>1. FillTerms(e.cost, row, side, q) = terms
    BY Zenon DEF FillTerms
<1>2. \A field \in {"commission", "fixed_fee", "minimum_fee", "spread", "slippage", "tax"} :
          e.cost[field] \in Int
    BY DEF Sound, TypedAccount
<1>3. /\ e.cost.spread \in Int /\ e.cost.slippage \in Int /\ e.cost.commission \in Int
      /\ e.cost.fixed_fee \in Int /\ e.cost.minimum_fee \in Int /\ e.cost.tax \in Int
    BY <1>2
<1>4. gross \in Int
    BY Product
<1>5. Scale \in Int /\ Scale > 0 /\ 2 * Scale \in Int /\ 2 * Scale > 0
    BY ScaleAssumption
<1> HIDE DEF gross
<1>6. spread \in Int
    BY <1>3, <1>4, <1>5, Product, Quotient
<1>7. slip \in Int
    BY <1>3, <1>4, <1>5, Product, Quotient
<1>8. tax \in Int
    BY <1>3, <1>4, <1>5, Product, Quotient
<1>9. (gross * e.cost.commission) \div Scale \in Int
    BY <1>3, <1>4, <1>5, Product, Quotient
<1>10. fee \in Int
    BY <1>3, <1>9 DEF Larger
<1> HIDE DEF spread, slip, tax, fee
<1>11. sign * (spread + slip) \in Int
    BY <1>6, <1>7
<1>12. gross + sign * (spread + slip) \in Int
    BY <1>4, <1>11
<1> HIDE DEF sign
<1>13. terms.notional \in Int /\ terms.fee \in Int /\ terms.tax \in Int /\ terms.slip \in Int
    BY <1>6, <1>7, <1>8, <1>10, <1>12
<1> HIDE DEF terms
<1> QED  BY <1>1, <1>13

\* What a fill that was paid for does to a balance: c2 is what funding it left.
PaidFor(cash, c2, cur, f, out, c3) ==
    /\ cash \in [Currencies -> Int] /\ c2 \in [Currencies -> Int] /\ cur \in Currencies
    /\ f.side \in {"buy", "sell"} /\ f.notional \in Int /\ f.fee \in Int /\ f.tax \in Int
    /\ f.side = "buy" => c2[cur] >= f.notional + f.fee + f.tax
    /\ f.side = "sell" => c2 = cash
    /\ (\A k \in Currencies : cash[k] >= 0) => (\A k \in Currencies : c2[k] >= 0)
    /\ out = (IF f.side = "buy" THEN 1 ELSE -1) * f.notional
    /\ c3 = [c2 EXCEPT ![cur] = @ - out - f.fee - f.tax]

LEMMA FillKeepsSolvent ==
    ASSUME NEW cash, NEW c2, NEW cur, NEW f, NEW out, NEW c3, PaidFor(cash, c2, cur, f, out, c3),
           NEW fills, Solvent(cash, fills), IsSeq(fills)
    PROVE  Solvent(c3, Append(fills, f))
<1>0. PICK side, notional, fee, tax :
          side = f.side /\ notional = f.notional /\ fee = f.fee /\ tax = f.tax
    OBVIOUS
<1>6. /\ cash \in [Currencies -> Int] /\ c2 \in [Currencies -> Int] /\ cur \in Currencies
      /\ side \in {"buy", "sell"} /\ notional \in Int /\ fee \in Int /\ tax \in Int
      /\ side = "buy" => c2[cur] >= notional + fee + tax
      /\ side = "sell" => c2 = cash
      /\ (\A k \in Currencies : cash[k] >= 0) => (\A k \in Currencies : c2[k] >= 0)
      /\ out = (IF side = "buy" THEN 1 ELSE -1) * notional
      /\ c3 = [c2 EXCEPT ![cur] = @ - out - fee - tax]
    BY <1>0 DEF PaidFor
<1>1. PICK more : more = Append(fills, f)
    OBVIOUS
<1>2. (\A x \in ToSet(fills) : x \in ToSet(more)) /\ f \in ToSet(more)
    <2>1. /\ DOMAIN more = (DOMAIN fills) \cup {Len(fills) + 1}
          /\ \A i \in DOMAIN fills : more[i] = fills[i]
          /\ more[Len(fills) + 1] = f
        BY <1>1, AppendFacts
    <2> QED  BY <2>1 DEF ToSet
<1>3. CASE \E x \in ToSet(fills) : x.side = "sell" /\ x.notional < x.fee + x.tax
    BY <1>0, <1>1, <1>2, <1>3 DEF Solvent
<1>4. CASE side = "sell" /\ notional < fee + tax
    BY <1>0, <1>1, <1>2, <1>4 DEF Solvent
<1>5. CASE (\A k \in Currencies : cash[k] >= 0) /\ ~(side = "sell" /\ notional < fee + tax)
    <2>1. \A k \in Currencies : c2[k] >= 0 /\ c2[k] \in Int
        BY <1>6, <1>5
    <2>2. c2[cur] - out - fee - tax >= 0
        <3>1. CASE side = "buy"
            <4>1. out = notional
                BY <1>6, <3>1
            <4> QED  BY <1>6, <2>1, <3>1, <4>1
        <3>2. CASE side = "sell"
            <4>1. out = -notional
                BY <1>6, <3>2
            <4> QED  BY <1>6, <1>5, <2>1, <3>2, <4>1
        <3> QED  BY <1>6, <3>1, <3>2
    <2>3. \A k \in Currencies : c3[k] >= 0
        BY <1>6, <2>1, <2>2
    <2> QED  BY <1>1, <2>3 DEF Solvent
<1> QED  BY <1>0, <1>3, <1>4, <1>5 DEF Solvent

LEMMA FillAccount ==
    ASSUME NEW e, NEW in, Sound(e, in), NEW st, IsState(st), Healthy(st),
           NEW i \in DOMAIN st.orders, NEW row, row.open \in Int, NEW q \in Nat, NEW session,
           HasRate(in, st.orders[i].currency, e.accounting.base_currency, session.open),
           st.orders[i].side = "sell" => q <= st.qty[st.orders[i].security],
           st.orders[i].side = "buy" =>
               CanFund(e, in, st, st.orders[i].currency, BuyCost(e.cost, row, q), session)
    PROVE  LET t == FillOrder(e, in, st, i, row, q, session)
           IN  AccountOK(t) /\ Spends(st, t, session.date)
<1> DEFINE o      == st.orders[i]
           base   == e.accounting.base_currency
           terms  == FillTerms(e.cost, row, o.side, q)
           sign   == IF o.side = "buy" THEN 1 ELSE -1
           cost   == Convert(in, terms.fee + terms.tax + terms.slip, o.currency, base, session.open)
           total  == terms.notional + terms.fee + terms.tax
           funded == IF o.side = "buy"
                     THEN FundTradeCurrency(e, in, st, o.currency, total, session)
                     ELSE st
           fill   == [order |-> i, date |-> session.date, security |-> o.security,
                      side |-> o.side, qty |-> q, notional |-> terms.notional,
                      fee |-> terms.fee, tax |-> terms.tax]
           filled == [funded EXCEPT
               !.cash[o.currency] = @ - sign * terms.notional - terms.fee - terms.tax,
               !.qty[o.security]  = Larger(0, @ + sign * q),
               !.orders[i]        = [@ EXCEPT !.status = "filled", !.qty = q],
               !.fills            = Append(@, fill),
               !.spent            = @ + cost,
               !.costs[session.date] = @ + cost]
           r1 == Row(session, "fill", o.currency, -sign * terms.notional, o.security, sign * q)
           r2 == Row(session, "fee", o.currency, -terms.fee, o.security, 0)
           r3 == Row(session, "tax", o.currency, -terms.tax, o.security, 0)
<1>1. FillOrder(e, in, st, i, row, q, session) = Book(Book(Book(filled, r1), r2), r3)
    BY Zenon DEF FillOrder
<1>2. o.security \in Securities /\ o.currency \in Currencies /\ o.side \in {"buy", "sell"}
    BY DEF Healthy, OrdersTyped, IsOrder
<1>3. terms.notional \in Int /\ terms.fee \in Int /\ terms.tax \in Int /\ terms.slip \in Int
    BY TermsTyped
<1>26. cost \in Int
    <2> HIDE DEF terms, o, base
    <2>1. PICK amount \in Int : amount = terms.fee + terms.tax + terms.slip
        BY <1>3
    <2>2. HasRate(in, o.currency, base, session.open)
        BY DEF o, base
    <2>3. Convert(in, amount, o.currency, base, session.open) \in Int
        BY <2>2, ConvertFacts
    <2> QED  BY <2>1, <2>3
<1>4. st.cash \in [Currencies -> Int] /\ st.qty \in [Securities -> Nat]
    BY DEF Healthy, Accounts
<1>5. /\ Funded(st, funded) /\ funded.qty = st.qty
      /\ Accounts(funded.cash, funded.qty, funded.ledger)
      /\ (\A c \in Currencies : st.cash[c] >= 0) => (\A c \in Currencies : funded.cash[c] >= 0)
      /\ o.side = "buy" => funded.cash[o.currency] >= total
      /\ o.side = "sell" => funded = st
    <2>1. CASE o.side = "buy"
        <3>1. BuyCost(e.cost, row, q) = total
            BY <2>1 DEF BuyCost
        <3>2. CanFund(e, in, st, o.currency, total, session)
            BY <2>1, <3>1
        <3>3. total \in Int
            BY <1>3
        <3>4. HasRate(in, o.currency, base, session.open)
            OBVIOUS
        <3> HIDE DEF total, o
        <3>5. FundedFor(st, FundTradeCurrency(e, in, st, o.currency, total, session), o.currency, total)
            BY <1>2, <3>2, <3>3, <3>4, FundAccount
        <3>6. funded = FundTradeCurrency(e, in, st, o.currency, total, session)
            BY <2>1
        <3> QED  BY <2>1, <3>5, <3>6 DEF FundedFor
    <2>2. CASE o.side = "sell"
        <3>1. funded = st
            BY <2>2
        <3>2. Funded(st, st)
            BY DEF Funded, SameOrders, SameCosts
        <3> HIDE DEF funded
        <3> QED  BY <2>2, <3>1, <3>2 DEF Healthy
    <2> HIDE DEF funded, o
    <2> QED  BY <1>2, <2>1, <2>2
<1>6. /\ fill.side = o.side /\ fill.notional = terms.notional
      /\ fill.fee = terms.fee /\ fill.tax = terms.tax
    OBVIOUS
<1> HIDE DEF fill, cost, base
<1>7. /\ Says(r1, o.currency, -sign * terms.notional, o.security, sign * q)
      /\ Says(r2, o.currency, -terms.fee, o.security, 0)
      /\ Says(r3, o.currency, -terms.tax, o.security, 0)
    <2> HIDE DEF terms, o
    <2>1. -sign * terms.notional \in Int /\ sign * q \in Int
        BY <1>3
    <2> HIDE DEF sign
    <2> QED  BY <1>3, <2>1 DEF Says, Row, Amount, Quantity
<1> HIDE DEF r1, r2, r3
<1>8. IsOrder([o EXCEPT !.status = "filled", !.qty = q])
    BY OrderKept DEF Healthy, OrdersTyped
<1>9. sign * q \in Int /\ st.qty[o.security] + sign * q >= 0
    <2> HIDE DEF terms
    <2>1. st.qty[o.security] \in Nat
        BY <1>2, <1>4
    <2>2. CASE o.side = "buy"
        <3>1. sign * q = q
            BY <2>2
        <3> QED  BY <2>1, <3>1
    <2>3. CASE o.side = "sell"
        <3>1. sign * q = -q
            BY <2>3
        <3> QED  BY <2>1, <2>3, <3>1
    <2> QED  BY <1>2, <2>2, <2>3
<1> HIDE DEF terms, total
<1>10. PICK out : out = sign * terms.notional
    OBVIOUS
<1>11. out \in Int /\ -sign * terms.notional = -out
    BY <1>3, <1>10
<1>12. PICK d : d = sign * q
    OBVIOUS
<1>13. PICK c3 : c3 = [funded.cash EXCEPT ![o.currency] = @ - out - terms.fee - terms.tax]
    OBVIOUS
<1>14. PICK q3 : q3 = [st.qty EXCEPT ![o.security] = @ + d]
    OBVIOUS
<1>15. PICK os : os = [st.orders EXCEPT ![i] = [o EXCEPT !.status = "filled", !.qty = q]]
    OBVIOUS
<1>16. /\ IsState(filled) /\ filled.cash = c3 /\ filled.qty = q3 /\ filled.ledger = funded.ledger
       /\ filled.fills = Append(st.fills, fill) /\ filled.orders = os /\ filled.pending = st.pending
       /\ filled.spent = st.spent + cost
       /\ filled.costs = [st.costs EXCEPT ![session.date] = @ + cost]
    <2> HIDE DEF sign, funded
    <2>1. IsState(funded) /\ SameOrders(st, funded)
        BY <1>5 DEF Funded
    <2>2. DOMAIN funded = StateFields
        BY <2>1 DEF IsState
    <2>3. DOMAIN filled = StateFields /\ filled = [f \in StateFields |-> filled[f]]
        BY <2>2, Zenon
    <2>4. filled.cash = c3
        BY <1>10, <1>13, <2>2 DEF StateFields
    <2>5. filled.qty = [funded.qty EXCEPT ![o.security] = Larger(0, @ + d)]
        BY <1>12, <2>2 DEF StateFields
    <2>6. filled.qty = q3
        <3>1. Larger(0, st.qty[o.security] + d) = st.qty[o.security] + d
            BY <1>2, <1>4, <1>9, <1>12 DEF Larger
        <3> HIDE DEF filled, o
        <3> QED  BY <1>5, <1>14, <2>5, <3>1
    <2>7. filled.orders = os
        <3>1. filled.orders = [funded.orders EXCEPT ![i] = [@ EXCEPT !.status = "filled", !.qty = q]]
            BY <2>2 DEF StateFields
        <3> HIDE DEF filled
        <3> QED  BY <1>15, <2>1, <3>1 DEF SameOrders, SameCosts
    <2>8. filled.fills = Append(funded.fills, fill)
        BY <2>2 DEF StateFields
    <2>9. filled.ledger = funded.ledger /\ filled.pending = funded.pending
        BY <2>2 DEF StateFields
    <2>10. /\ filled.spent = funded.spent + cost
           /\ filled.costs = [funded.costs EXCEPT ![session.date] = @ + cost]
        BY <2>2 DEF StateFields
    <2> HIDE DEF filled
    <2> QED  BY <2>1, <2>3, <2>4, <2>6, <2>7, <2>8, <2>9, <2>10 DEF IsState, SameOrders, SameCosts
<1> HIDE DEF filled
<1>17. PICK u : u = Book(Book(Book(filled, r1), r2), r3)
    OBVIOUS
<1>18. PICK v, w : v = Book(filled, r1) /\ w = Book(v, r2) /\ u = Book(w, r3)
    BY <1>17
<1>19. /\ IsState(v) /\ SameOrders(filled, v) /\ v.cash = c3 /\ v.qty = q3
       /\ v.ledger = Append(funded.ledger, r1)
    BY <1>16, <1>18, BookFields
<1>20. /\ IsState(w) /\ SameOrders(filled, w) /\ w.cash = c3 /\ w.qty = q3
       /\ w.ledger = Append(Append(funded.ledger, r1), r2)
    <2>1. /\ IsState(w) /\ SameOrders(v, w) /\ w.cash = c3 /\ w.qty = q3
          /\ w.ledger = Append(Append(funded.ledger, r1), r2)
        <3>1. /\ IsState(w) /\ SameOrders(v, w) /\ w.cash = v.cash /\ w.qty = v.qty
              /\ w.ledger = Append(v.ledger, r2)
            BY <1>18, <1>19, BookFields
        <3> QED  BY <1>19, <3>1, Zenon
    <2>2. SameOrders(filled, w)
        BY <1>19, <2>1 DEF SameOrders, SameCosts
    <2> QED  BY <2>1, <2>2
<1>21. /\ IsState(u) /\ SameOrders(filled, u) /\ u.cash = c3 /\ u.qty = q3
       /\ u.ledger = Append(Append(Append(funded.ledger, r1), r2), r3)
    <2>1. /\ IsState(u) /\ SameOrders(w, u) /\ u.cash = c3 /\ u.qty = q3
          /\ u.ledger = Append(Append(Append(funded.ledger, r1), r2), r3)
        <3>1. /\ IsState(u) /\ SameOrders(w, u) /\ u.cash = w.cash /\ u.qty = w.qty
              /\ u.ledger = Append(w.ledger, r3)
            BY <1>18, <1>20, BookFields
        <3> QED  BY <1>20, <3>1, Zenon
    <2>2. SameOrders(filled, u)
        BY <1>20, <2>1 DEF SameOrders, SameCosts
    <2> QED  BY <2>1, <2>2
<1>22. Accounts(u.cash, u.qty, u.ledger)
    <2>1. PICK fc, l : fc = funded.cash /\ l = funded.ledger
        OBVIOUS
    <2>2. Accounts(fc, st.qty, l)
        BY <1>5, <2>1
    <2>3. PICK fee, tax : fee = terms.fee /\ tax = terms.tax
        OBVIOUS
    <2>4. /\ Says(r1, o.currency, -out, o.security, d) /\ Says(r2, o.currency, -fee, o.security, 0)
          /\ Says(r3, o.currency, -tax, o.security, 0)
        BY <1>7, <1>11, <1>12, <2>3
    <2>5. st.qty[o.security] + d >= 0
        BY <1>9, <1>12
    <2>6. PICK cur, sec : cur = o.currency /\ sec = o.security
        OBVIOUS
    <2>7. fee \in Int /\ tax \in Int
        BY <1>3, <2>3
    <2> HIDE DEF funded, o
    <2>8. Accounts([fc EXCEPT ![cur] = @ - out - fee - tax], [st.qty EXCEPT ![sec] = @ + d],
                   Append(Append(Append(l, r1), r2), r3))
        BY <1>2, <1>11, <2>2, <2>4, <2>5, <2>6, <2>7, FillBooked
    <2>9. c3 = [fc EXCEPT ![cur] = @ - out - fee - tax] /\ q3 = [st.qty EXCEPT ![sec] = @ + d]
        BY <1>13, <1>14, <2>1, <2>3, <2>6
    <2> QED  BY <1>21, <2>1, <2>8, <2>9
<1>23. Solvent(c3, Append(st.fills, fill)) /\ IsSeq(Append(st.fills, fill))
    <2>1. PICK fc : fc = funded.cash
        OBVIOUS
    <2>2. fc \in [Currencies -> Int]
        BY <1>5, <2>1 DEF Accounts
    <2>3. Solvent(st.cash, st.fills) /\ IsSeq(st.fills)
        BY DEF Healthy
    <2>4. PICK notional, fee, tax, side :
              notional = terms.notional /\ fee = terms.fee /\ tax = terms.tax /\ side = o.side
        OBVIOUS
    <2>5. /\ side = "buy" => fc[o.currency] >= notional + fee + tax
          /\ side = "sell" => fc = st.cash
        BY <1>5, <2>1, <2>4 DEF total
    <2>6. (\A k \in Currencies : st.cash[k] >= 0) => (\A k \in Currencies : fc[k] >= 0)
        BY <1>5, <2>1
    <2>7. out = (IF side = "buy" THEN 1 ELSE -1) * notional
        BY <1>10, <2>4
    <2>8. c3 = [fc EXCEPT ![o.currency] = @ - out - fee - tax]
        BY <1>13, <2>1, <2>4
    <2>9. /\ fill.side = side /\ fill.notional = notional /\ fill.fee = fee /\ fill.tax = tax
        BY <1>6, <2>4
    <2>10. notional \in Int /\ fee \in Int /\ tax \in Int /\ side \in {"buy", "sell"}
        BY <1>2, <1>3, <2>4
    <2> HIDE DEF funded, o, sign
    <2>11. Solvent(c3, Append(st.fills, fill))
        <3>1. PICK cur : cur = o.currency
            OBVIOUS
        <3>2. /\ cur \in Currencies
              /\ side = "buy" => fc[cur] >= notional + fee + tax
              /\ c3 = [fc EXCEPT ![cur] = @ - out - fee - tax]
            BY <1>2, <2>5, <2>8, <3>1
        <3> HIDE DEF fill
        <3>3. PaidFor(st.cash, fc, cur, fill, out, c3)
            <4>1. fill.side \in {"buy", "sell"} /\ fill.notional \in Int /\ fill.fee \in Int /\ fill.tax \in Int
                BY <2>9, <2>10
            <4>2. /\ fill.side = "buy" => fc[cur] >= fill.notional + fill.fee + fill.tax
                  /\ fill.side = "sell" => fc = st.cash
                BY <2>5, <2>9, <3>2, Zenon
            <4>3. out = (IF fill.side = "buy" THEN 1 ELSE -1) * fill.notional
                BY <2>7, <2>9
            <4>4. c3 = [fc EXCEPT ![cur] = @ - out - fill.fee - fill.tax]
                BY <2>9, <3>2
            <4>5. fc \in [Currencies -> Int] /\ st.cash \in [Currencies -> Int] /\ cur \in Currencies
                BY <1>4, <2>2, <3>2, Zenon
            <4> QED  BY <2>6, <4>1, <4>2, <4>3, <4>4, <4>5 DEF PaidFor
        <3> QED  BY <2>3, <3>3, FillKeepsSolvent
    <2> QED  BY <2>3, <2>11, AppendFacts
<1>24. OrdersTyped(u)
    <2>1. u.orders = os /\ u.pending = st.pending
        BY <1>16, <1>21 DEF SameOrders, SameCosts
    <2>2. OrdersTyped(st)
        BY DEF Healthy
    <2> HIDE DEF o
    <2> QED  BY <1>8, <1>15, <2>1, <2>2, OrdersKept
<1>25. Healthy(u)
    BY <1>16, <1>21, <1>22, <1>23, <1>24 DEF Healthy, SameOrders, SameCosts
<1>27. Spends(st, u, session.date)
    <2>1. PICK x \in Int : x = cost
        BY <1>26
    <2>2. u.spent = st.spent + x /\ u.costs = [st.costs EXCEPT ![session.date] = @ + x]
        BY <1>16, <1>21, <2>1 DEF SameOrders, SameCosts
    <2> QED  BY <2>2 DEF Spends
<1> QED  BY <1>1, <1>17, <1>21, <1>25, <1>27 DEF AccountOK

LEMMA AffordableBound ==
    ASSUME NEW cost, NEW row, NEW q \in Nat, NEW available
    PROVE  MaxAffordableQuantity(cost, row, q, available) \in Nat
<1>1. PICK S : S = {0} \cup {n \in 1..q : BuyCost(cost, row, n) <= available}
    OBVIOUS
<1>2. S \subseteq 0..q /\ S # {}
    BY <1>1
<1>3. Largest(S) \in 0..q
    BY <1>2, MaxOf
<1> QED  BY <1>1, <1>3 DEF MaxAffordableQuantity

LEMMA ExecuteAccount ==
    ASSUME NEW e, NEW in, Sound(e, in), NEW session, NEW st, AccountOK(st),
           NEW i, st.halt = "none" => i \in DOMAIN st.orders
    PROVE  LET t == ExecuteOrder(e, in, session, st, i)
           IN  AccountOK(t) /\ (t.halt = "none" => SameCosts(st, t) \/ Spends(st, t, session.date))
<1> DEFINE o      == st.orders[i]
           base   == e.accounting.base_currency
           row    == PriceRow(in, o.security, session.date, session.open)
           wanted == IF o.side = "sell" THEN Smaller(o.qty, st.qty[o.security]) ELSE o.qty
           part   == e.risk.max_participation
           money  == Spendable(e, in, st, o.currency, session)
           q      == IF o.side = "buy" THEN MaxAffordableQuantity(e.cost, row, wanted, money) ELSE wanted
           crowded == IF row.has_volume THEN wanted * part[2] > row.volume * part[1] ELSE part[1] < part[2]
           short   == /\ o.side = "buy"
                      /\ ~CanFund(e, in, st, o.currency, BuyCost(e.cost, row, q), session)
           unrated == ~HasRate(in, o.currency, base, session.open)
           t       == ExecuteOrder(e, in, session, st, i)
<1>1. t = IF st.halt # "none" THEN st
          ELSE IF row = None THEN RejectOrder(e, st, i, session)
          ELSE IF row.currency # o.currency THEN Halt(st, "order currency")
          ELSE IF wanted = 0 \/ crowded THEN RejectOrder(e, st, i, session)
          ELSE IF unrated THEN Halt(st, "no FX rate")
          ELSE IF q = 0 \/ short THEN RejectOrder(e, st, i, session)
          ELSE FillOrder(e, in, st, i, row, q, session)
    BY DEF ExecuteOrder
<1> HIDE DEF t, money, crowded
<1> DEFINE Spent(u) == u.halt = "none" => SameCosts(st, u) \/ Spends(st, u, session.date)
<1>2. CASE st.halt # "none"
    <2>1. t = st
        BY <1>1, <1>2, Zenon
    <2> QED  BY <2>1 DEF t, SameCosts
<1>3. CASE st.halt = "none"
    <2>1. IsState(st) /\ Healthy(st) /\ i \in DOMAIN st.orders
        BY <1>3 DEF AccountOK
    <2>2. AccountOK(RejectOrder(e, st, i, session)) /\ Spent(RejectOrder(e, st, i, session))
        BY <2>1, RejectAccount
    <2>3. /\ AccountOK(Halt(st, "order currency")) /\ AccountOK(Halt(st, "no FX rate"))
          /\ Spent(Halt(st, "order currency")) /\ Spent(Halt(st, "no FX rate"))
        BY <2>1, HaltAccount, HaltShape DEF SameOrders
    <2>4. ASSUME row # None, ~unrated, ~short
          PROVE  /\ AccountOK(FillOrder(e, in, st, i, row, q, session))
                 /\ Spent(FillOrder(e, in, st, i, row, q, session))
        <3>1. IsOrder(o)
            BY <2>1 DEF Healthy, OrdersTyped
        <3>2. o.qty \in Nat /\ o.security \in Securities /\ o.side \in {"buy", "sell"}
            BY <3>1 DEF IsOrder
        <3>3. st.qty[o.security] \in Nat
            BY <2>1, <3>2 DEF Healthy, Accounts
        <3>4. wanted \in Nat /\ (o.side = "sell" => wanted <= st.qty[o.security])
            <4> HIDE DEF o
            <4> QED  BY <3>2, <3>3 DEF Smaller
        <3>5. row.open \in Int
            <4>1. PICK r : r = row
                OBVIOUS
            <4> QED  BY <2>4, <4>1, PriceFacts
        <3> HIDE DEF wanted, row
        <3>6. q \in Nat
            BY <3>4, AffordableBound
        <3>7. o.side = "sell" => q <= st.qty[o.security]
            BY <3>4
        <3>8. HasRate(in, o.currency, base, session.open)
            BY <2>4
        <3>9. o.side = "buy" => CanFund(e, in, st, o.currency, BuyCost(e.cost, row, q), session)
            BY <2>4
        <3> HIDE DEF q
        <3> QED  BY <2>1, <3>5, <3>6, <3>7, <3>8, <3>9, FillAccount
    <2> HIDE DEF row, wanted, q, unrated, short, o, Spent
    <2>5. AccountOK(t) /\ Spent(t)
        BY <1>1, <1>3, <2>2, <2>3, <2>4
    <2> QED  BY <2>5 DEF t, Spent
<1> QED  BY <1>2, <1>3

(***************************************************************************)
(* The accounts of the states the orders due in a session go through.      *)
(***************************************************************************)
AccountTrail(st, session, t, n, tr) ==
    /\ tr[0] = Taken(st, session) /\ tr[n] = t
    /\ \A m \in 0..n : AccountOK(tr[m])
    /\ \A m \in 0..n :
           m < n /\ tr[m + 1].halt = "none" =>
               /\ tr[m].halt = "none"
               /\ SameCosts(tr[m], tr[m + 1]) \/ Spends(tr[m], tr[m + 1], session.date)

LEMMA OrdersAccounted ==
    ASSUME NEW e, NEW in, Sound(e, in), NEW session, NEW st, AccountOK(st), st.halt = "none",
           NEW t, t = ExecuteOrders(e, in, st, session)
    PROVE  \E n \in Nat : \E tr : AccountTrail(st, session, t, n, tr)
<1>1. IsState(st)
    BY DEF AccountOK
<1>2. IsFiniteSet(Due(st, session)) /\ IsFiniteSet(st.pending \ Due(st, session))
    BY <1>1, FS_Subset DEF Due, IsState
<1>3. PICK n \in Nat : n = Cardinality(Due(st, session))
    BY <1>2, FS_CardinalityType
<1>4. PICK seq : seq = InOrder(Due(st, session))
    OBVIOUS
<1>5. DOMAIN seq = 1..n
    BY <1>3, <1>4 DEF InOrder, Sorted
<1>6. PICK st0 : st0 = Taken(st, session)
    OBVIOUS
<1>7. /\ IsState(st0) /\ st0.halt = st.halt /\ st0.orders = st.orders
      /\ st0.cash = st.cash /\ st0.qty = st.qty /\ st0.ledger = st.ledger /\ st0.fills = st.fills
      /\ st0.pending = st.pending \ Due(st, session)
    BY <1>1, <1>2, <1>6 DEF IsState, StateFields, Taken
<1>8. AccountOK(st0)
    BY <1>7 DEF AccountOK, Healthy, OrdersTyped
<1>9. PICK tr : /\ Traces(tr, "order", <<e, in, session>>, st0, seq, n)
                /\ tr[n] = OrderFold(e, in, session, st0, seq)
    BY <1>5, OrderTrace
<1>10. tr[n] = t
    BY <1>4, <1>6, <1>9, Zenon DEF ExecuteOrders, OrderFold, Taken
<1>11. Due(st, session) \subseteq DOMAIN st.orders
    BY DEF Due, AccountOK, Healthy, OrdersTyped
<1>12. Due(st, session) \subseteq Nat
    <2>1. DOMAIN st.orders = 1..Len(st.orders) /\ Len(st.orders) \in Nat
        BY SeqFacts DEF AccountOK, Healthy, OrdersTyped
    <2> QED  BY <1>11, <2>1
<1>13. \E R : Enumerates(seq, Due(st, session), R, n)
    BY <1>2, <1>3, <1>4, <1>12, InOrderEnumerates
<1>14. \A j \in 1..n : seq[j] \in DOMAIN st.orders
    BY <1>11, <1>13 DEF Enumerates
<1> DEFINE Same(u) == u.halt = "none" => DOMAIN u.orders = DOMAIN st.orders
           Step(s, u) == u.halt = "none" => /\ s.halt = "none"
                                            /\ SameCosts(s, u) \/ Spends(s, u, session.date)
           T == {m \in 0..n : AccountOK(tr[m]) /\ Same(tr[m])}
<1>15. 0 \in T
    <2>1. tr[0] = st0
        BY <1>9 DEF Traces
    <2> QED  BY <1>7, <1>8, <2>1
<1>16. ASSUME NEW m \in 0..n, m < n, m \in T PROVE m + 1 \in T /\ Step(tr[m], tr[m + 1])
    <2>1. m + 1 \in 0..n /\ m + 1 \in 1..n
        BY <1>16
    <2>2. PICK i : i = seq[m + 1]
        OBVIOUS
    <2>3. tr[m + 1] = FoldStep("order", <<e, in, session>>, tr[m], i)
        BY <1>9, <1>16, <2>2 DEF Traces
    <2>4. tr[m + 1] = ExecuteOrder(e, in, session, tr[m], i)
        BY <2>3 DEF FoldStep
    <2>5. PICK s, u : s = tr[m] /\ u = tr[m + 1]
        OBVIOUS
    <2>6. AccountOK(s) /\ Same(s)
        BY <1>16, <2>5
    <2>7. i \in DOMAIN st.orders
        BY <1>14, <2>1, <2>2
    <2>8. s.halt = "none" => i \in DOMAIN s.orders
        BY <2>6, <2>7
    <2>9. u = ExecuteOrder(e, in, session, s, i)
        BY <2>4, <2>5
    <2>10. /\ AccountOK(u)
           /\ u.halt = "none" => SameCosts(s, u) \/ Spends(s, u, session.date)
        BY <2>6, <2>8, <2>9, ExecuteAccount
    <2>11. Executed(s, u, i, session.date)
        BY <2>6, <2>9, OrderShape DEF AccountOK
    <2>12. u.halt = "none" =>
              s.halt = "none" /\ (Rejects(s, u, i) \/ Fills(s, u, i, session.date))
        BY <2>11 DEF Executed, Settles
    <2>13. Same(u)
        <3>1. ASSUME u.halt = "none" PROVE DOMAIN u.orders = DOMAIN s.orders
            BY <2>12, <3>1 DEF Rejects, Fills
        <3> QED  BY <2>6, <2>12, <3>1
    <2> QED  BY <2>1, <2>5, <2>10, <2>12, <2>13
<1>17. 0..n \subseteq T
    <2> HIDE DEF T
    <2> QED  BY <1>15, <1>16, UpTo
<1>18. \A m \in 0..n : m < n => Step(tr[m], tr[m + 1])
    BY <1>16, <1>17
<1>19. AccountTrail(st, session, t, n, tr)
    <2>1. tr[0] = Taken(st, session)
        BY <1>6, <1>9 DEF Traces
    <2> QED  BY <1>10, <1>17, <1>18, <2>1 DEF AccountTrail
<1> QED  BY <1>19

LEMMA OrdersAccount ==
    ASSUME NEW e, NEW in, Sound(e, in), NEW session, NEW st, AccountOK(st),
           NEW t, t = ExecuteOrders(e, in, st, session)
    PROVE  AccountOK(t)
<1>1. CASE st.halt = "none"
    <2>1. PICK n \in Nat : \E tr : AccountTrail(st, session, t, n, tr)
        BY <1>1, OrdersAccounted
    <2> QED  BY <2>1 DEF AccountTrail
<1>2. CASE st.halt # "none"
    <2>1. IsState(t) /\ t.halt # "none"
        BY <1>2, OrdersShape DEF AccountOK
    <2> QED  BY <2>1 DEF AccountOK
<1> QED  BY <1>1, <1>2

-----------------------------------------------------------------------------
(***************************************************************************)
(* The close.  What an account is worth is a sum of conversions, and a run *)
(* that goes on has a price and a rate for whatever it holds.              *)
(***************************************************************************)
CashWorth(in, st, base, asOf, M) == SumOver(M, LAMBDA c : Convert(in, st.cash[c], c, base, asOf))

HeldWorth(in, st, base, session, H) ==
    SumOver(H, LAMBDA s : Convert(in, st.qty[s] * PriceRow(in, s, session.date, session.close).close,
                                  PriceRow(in, s, session.date, session.close).currency, base,
                                  session.close))

LEMMA CashWorthIsTotal ==
    ASSUME NEW in, NEW st, NEW base, NEW asOf, NEW M, IsFiniteSet(M),
           \A c \in M : Convert(in, st.cash[c], c, base, asOf) \in Int
    PROVE  CashWorth(in, st, base, asOf, M) \in Int
<1> DEFINE x(c) == Convert(in, st.cash[c], c, base, asOf)
<1>1. PICK v : v = [c \in M |-> x(c)]
    OBVIOUS
<1> DEFINE IsV(g) == g = [s \in SUBSET M |-> IF s = {} THEN 0 ELSE g[s \ {Picked(s)}] + v[Picked(s)]]
           IsW(g) == g = [s \in SUBSET M |-> IF s = {} THEN 0 ELSE g[s \ {Picked(s)}] + x(Picked(s))]
<1>2. \A c \in M : v[c] = x(c) /\ v[c] \in Int
    BY <1>1
<1>3. CashWorth(in, st, base, asOf, M) = (CHOOSE g : IsW(g))[M]
    BY Zenon DEF CashWorth, SumOver, FoldSet, MapThenFoldSet, Picked
<1> HIDE DEF x
<1>4. \A s \in SUBSET M : s # {} => v[Picked(s)] = x(Picked(s))
    BY <1>2 DEF Picked
<1>5. ASSUME NEW g PROVE IsV(g) <=> IsW(g)
    <2>1. \A s \in SUBSET M : (IF s = {} THEN 0 ELSE g[s \ {Picked(s)}] + v[Picked(s)])
                                = (IF s = {} THEN 0 ELSE g[s \ {Picked(s)}] + x(Picked(s)))
        BY <1>4, Zenon
    <2> QED  BY <2>1, Zenon
<1>6. (CHOOSE g : IsV(g)) = (CHOOSE g : IsW(g))
    <2> HIDE DEF IsV, IsW
    <2> QED  BY <1>5, Zenon
<1>7. Total(v, M) = (CHOOSE g : IsV(g))[M]
    BY Zenon DEF Total, SumOver, FoldSet, MapThenFoldSet, Picked
<1>8. Total(v, M) \in Int
    BY <1>2, TotalSame
<1> QED  BY <1>3, <1>6, <1>7, <1>8, Zenon

LEMMA HeldWorthIsTotal ==
    ASSUME NEW in, NEW st, NEW base, NEW session, NEW H, IsFiniteSet(H),
           \A s \in H : Convert(in, st.qty[s] * PriceRow(in, s, session.date, session.close).close,
                                PriceRow(in, s, session.date, session.close).currency, base,
                                session.close) \in Int
    PROVE  HeldWorth(in, st, base, session, H) \in Int
<1> DEFINE x(s) == Convert(in, st.qty[s] * PriceRow(in, s, session.date, session.close).close,
                           PriceRow(in, s, session.date, session.close).currency, base, session.close)
<1>1. PICK v : v = [s \in H |-> x(s)]
    OBVIOUS
<1> DEFINE IsV(g) == g = [s \in SUBSET H |-> IF s = {} THEN 0 ELSE g[s \ {Picked(s)}] + v[Picked(s)]]
           IsW(g) == g = [s \in SUBSET H |-> IF s = {} THEN 0 ELSE g[s \ {Picked(s)}] + x(Picked(s))]
<1>2. \A s \in H : v[s] = x(s) /\ v[s] \in Int
    BY <1>1
<1>3. HeldWorth(in, st, base, session, H) = (CHOOSE g : IsW(g))[H]
    BY Zenon DEF HeldWorth, SumOver, FoldSet, MapThenFoldSet, Picked
<1> HIDE DEF x
<1>4. \A s \in SUBSET H : s # {} => v[Picked(s)] = x(Picked(s))
    BY <1>2 DEF Picked
<1>5. ASSUME NEW g PROVE IsV(g) <=> IsW(g)
    <2>1. \A s \in SUBSET H : (IF s = {} THEN 0 ELSE g[s \ {Picked(s)}] + v[Picked(s)])
                                = (IF s = {} THEN 0 ELSE g[s \ {Picked(s)}] + x(Picked(s)))
        BY <1>4, Zenon
    <2> QED  BY <2>1, Zenon
<1>6. (CHOOSE g : IsV(g)) = (CHOOSE g : IsW(g))
    <2> HIDE DEF IsV, IsW
    <2> QED  BY <1>5, Zenon
<1>7. Total(v, H) = (CHOOSE g : IsV(g))[H]
    BY Zenon DEF Total, SumOver, FoldSet, MapThenFoldSet, Picked
<1>8. Total(v, H) \in Int
    BY <1>2, TotalSame
<1> QED  BY <1>3, <1>6, <1>7, <1>8, Zenon

\* A security that can be valued at a close.
Priced(in, base, session, s) ==
    LET row == PriceRow(in, s, session.date, session.close)
    IN  row # None /\ HasRate(in, row.currency, base, session.close)

\* A state that was marked at the close of a session.
Marked(in, base, session, st) ==
    /\ IsState(st)
    /\ st.halt = "none" =>
          /\ Healthy(st) /\ st.nav \in Int /\ st.nav > 0
          /\ \A s \in Held(st) : Priced(in, base, session, s)

LEMMA WorthOf ==
    ASSUME NEW e, NEW in, Sound(e, in), NEW base, NEW session, NEW s, Priced(in, base, session, s),
           NEW q \in Nat
    PROVE  Convert(in, q * PriceRow(in, s, session.date, session.close).close,
                   PriceRow(in, s, session.date, session.close).currency, base, session.close) \in Int
<1>1. PICK row : row = PriceRow(in, s, session.date, session.close)
    OBVIOUS
<1>2. row # None /\ HasRate(in, row.currency, base, session.close)
    BY <1>1 DEF Priced
<1>3. row.close \in Int
    BY <1>1, <1>2, PriceFacts
<1>4. q * row.close \in Int
    BY <1>3, Product
<1>5. Convert(in, q * row.close, row.currency, base, session.close) \in Int
    BY <1>2, <1>4, ConvertFacts
<1> QED  BY <1>1, <1>5

LEMMA MarkAccount ==
    ASSUME NEW e, NEW in, Sound(e, in), NEW session, NEW st, AccountOK(st)
    PROVE  Marked(in, e.accounting.base_currency, session, Mark(e, in, st, session))
<1> DEFINE base      == e.accounting.base_currency
           reporting == e.accounting.reporting_currency
           close(s)  == PriceRow(in, s, session.date, session.close)
           value(s)  == Convert(in, st.qty[s] * close(s).close, close(s).currency, base, session.close)
           money     == {c \in Currencies : st.cash[c] # 0}
           needed    == money \cup {close(s).currency : s \in Held(st) \cup {e.benchmark}}
           cash      == SumOver(money, LAMBDA c : Convert(in, st.cash[c], c, base, session.close))
           positions == SumOver(Held(st), value)
           nav       == cash + positions
           index     == Convert(in, close(e.benchmark).close, close(e.benchmark).currency, base,
                                session.close)
           start     == IF st.benchmark = None THEN index ELSE st.benchmark
           mark      == [date |-> session.date, cash |-> cash, positions |-> positions, nav |-> nav,
                         benchmark |-> (e.accounting.initial_cash * index) \div start,
                         partition |-> (CHOOSE p \in DatePartition(e, session.date) : TRUE).kind,
                         reporting |-> IF reporting = None THEN None
                                       ELSE Convert(in, nav, base, reporting, session.close)]
           noClose   == \E s \in Held(st) \cup {e.benchmark} : close(s) = None
           noRate    == \E c \in needed : ~HasRate(in, c, base, session.close)
           poor      == nav <= 0
           unreported == reporting # None /\ ~HasRate(in, base, reporting, session.close)
           currency  == [s \in Securities |-> IF s \in Held(st) THEN close(s).currency ELSE st.currency[s]]
           idle      == st.idle + (IF positions = 0 THEN 1 ELSE 0)
           holdings  == st.holdings \cup {[date |-> session.date, security |-> s,
                                           qty |-> st.qty[s], value |-> value(s)] : s \in Held(st)}
           row       == Row(session, "mark", base, positions, None, 0)
           mid       == [st EXCEPT !.currency = currency, !.marks = Append(@, mark),
                                   !.holdings = holdings, !.benchmark = start, !.nav = nav, !.idle = idle]
           t         == Mark(e, in, st, session)
           OK(u)     == Marked(in, base, session, u)
<1>1. t = IF st.halt # "none" THEN st
          ELSE IF noClose THEN Halt(st, "missing close")
          ELSE IF noRate THEN Halt(st, "no FX rate")
          ELSE IF poor THEN Halt(st, "NAV not positive")
          ELSE IF unreported THEN Halt(st, "no FX rate")
          ELSE Book(mid, row)
    BY Zenon DEF Mark
<1>2. cash = CashWorth(in, st, base, session.close, money)
    BY Zenon DEF CashWorth
<1>3. positions = HeldWorth(in, st, base, session, Held(st))
    BY Zenon DEF HeldWorth, SumOver
<1>4. Amount(row) = 0 /\ Quantity(row) = 0
    BY DEF Row, Amount, Quantity
<1> HIDE DEF currency, mark, start, idle, holdings, unreported, row, t, cash, positions
<1>5. IsState(st)
    BY DEF AccountOK
<1>6. \A reason : reason # "none" => OK(Halt(st, reason))
    BY <1>5, HaltShape DEF Marked
<1>7. /\ IsState(mid) /\ SameOrders(st, mid) /\ mid.halt = st.halt /\ mid.cash = st.cash
      /\ mid.qty = st.qty /\ mid.ledger = st.ledger /\ mid.nav = nav
    <2> HIDE DEF nav
    <2> QED  BY <1>5 DEF IsState, StateFields, SameOrders, SameCosts
<1> HIDE DEF mid
<1>8. PICK u : u = Book(mid, row)
    OBVIOUS
<1>9. /\ IsState(u) /\ SameOrders(mid, u) /\ u.halt = st.halt /\ u.cash = st.cash
      /\ u.qty = st.qty /\ u.ledger = Append(mid.ledger, row) /\ u.nav = nav
    BY <1>7, <1>8, BookFields
<1>10. ASSUME st.halt = "none", ~noClose, ~noRate, ~poor PROVE OK(u)
    <2>1. Healthy(st)
        BY <1>10 DEF AccountOK
    <2>2. st.cash \in [Currencies -> Int] /\ st.qty \in [Securities -> Nat]
        BY <2>1 DEF Healthy, Accounts
    <2>3. \A s \in Held(st) : Priced(in, base, session, s)
        BY <1>10 DEF Priced
    <2>4. cash \in Int
        <3>1. IsFiniteSet(money)
            BY CurrenciesAssumption, FS_Subset
        <3>2. \A c \in money : st.cash[c] \in Int /\ HasRate(in, c, base, session.close)
            BY <1>10, <2>2
        <3> HIDE DEF money, base
        <3>3. \A c \in money : Convert(in, st.cash[c], c, base, session.close) \in Int
            BY <3>2, ConvertFacts
        <3> QED  BY <1>2, <3>1, <3>3, CashWorthIsTotal
    <2>5. positions \in Int
        <3>1. IsFiniteSet(Held(st))
            BY SecuritiesAssumption, FS_Subset DEF Held
        <3>2. \A s \in Held(st) : st.qty[s] \in Nat
            BY <2>2 DEF Held
        <3> HIDE DEF base
        <3>3. \A s \in Held(st) :
                  Convert(in, st.qty[s] * PriceRow(in, s, session.date, session.close).close,
                          PriceRow(in, s, session.date, session.close).currency, base,
                          session.close) \in Int
            BY <2>3, <3>2, WorthOf
        <3> QED  BY <1>3, <3>1, <3>3, HeldWorthIsTotal
    <2>6. nav \in Int /\ nav > 0
        BY <1>10, <2>4, <2>5
    <2>7. Healthy(mid)
        BY <1>7, <2>1, SameAccount
    <2>8. Healthy(u)
        BY <1>4, <1>7, <1>9, <2>7, SilentRow
    <2>9. Held(u) = Held(st)
        BY <1>9 DEF Held
    <2> HIDE DEF nav, base
    <2> QED  BY <1>9, <2>3, <2>6, <2>8, <2>9 DEF Marked
<1>11. st.halt # "none" => OK(st)
    BY <1>5 DEF Marked
<1> HIDE DEF noClose, noRate, poor, OK
<1>12. OK(t)
    BY <1>1, <1>6, <1>8, <1>10, <1>11
<1> QED  BY <1>12 DEF OK, t

(***************************************************************************)
(* The decision: a target is a whole number of units of a base above zero, *)
(* of a security that has a price at the close.                            *)
(***************************************************************************)
IsTargets(targets, S) ==
    /\ targets.of \in Int /\ targets.of > 0
    /\ DOMAIN targets.weight \subseteq S
    /\ \A s \in DOMAIN targets.weight : targets.weight[s] \in Int

LEMMA EqualWeights ==
    ASSUME NEW S, IsFiniteSet(S), NEW chosen, chosen \subseteq S
    PROVE  IsTargets(EqualWeightTargets(chosen), S)
<1>1. Cardinality(chosen) \in Nat
    BY FS_Subset, FS_CardinalityType
<1> QED  BY <1>1 DEF EqualWeightTargets, IsTargets, Larger

LEMMA MomentumWeights ==
    ASSUME NEW e, NEW in, NEW sessions, NEW k, NEW active, IsFiniteSet(active)
    PROVE  IsTargets(MomentumTargets(e, in, sessions, k, active), active)
<1> DEFINE parameters == e.strategy.parameters
           end        == k - parameters.skip_sessions
           begin      == end - parameters.lookback_sessions
           close(s, i) == PriceRow(in, s, sessions[i].date, sessions[k].close)
           scored     == {s \in active : close(s, begin) # None /\ close(s, end) # None}
           firstOf(s) == close(s, begin).close
           last(s)    == close(s, end).close
           beats(s, r) == \/ last(s) * firstOf(r) > last(r) * firstOf(s)
                          \/ last(s) * firstOf(r) = last(r) * firstOf(s) /\ s < r
           best == IF begin < 1 THEN {}
                   ELSE {s \in scored : Cardinality({r \in scored : beats(r, s)}) < parameters.top_k}
<1>1. best \subseteq active
    OBVIOUS
<1>2. MomentumTargets(e, in, sessions, k, active) = EqualWeightTargets(best)
    BY Zenon DEF MomentumTargets
<1> HIDE DEF best
<1>3. IsTargets(EqualWeightTargets(best), active)
    BY <1>1, EqualWeights
<1> QED  BY <1>2, <1>3, Zenon

LEMMA TargetsTyped ==
    ASSUME NEW e, NEW in, Sound(e, in), NEW sessions, NEW k, NEW st,
           Marked(in, e.accounting.base_currency, sessions[k], st), st.halt = "none"
    PROVE  LET targets == TargetWeights(e, in, sessions, k, st)
               S == {s \in Securities : PriceRow(in, s, sessions[k].date, sessions[k].close) # None}
           IN  IsTargets(targets, S) /\ Held(st) \subseteq S
<1> DEFINE session == sessions[k]
           base    == e.accounting.base_currency
           S       == {s \in Securities : PriceRow(in, s, session.date, session.close) # None}
           active  == ActiveMembers(e, in, session)
           hold    == e.strategy.name = "buy_and_hold"
           first   == hold /\ ~st.held
           due     == RebalanceDue(e, session, st.decided)
           close(s) == PriceRow(in, s, session.date, session.close)
           value(s) == Convert(in, st.qty[s] * close(s).close, close(s).currency, base, session.close)
           picked  == CASE first \/ (due /\ e.strategy.name = "equal_weight") -> EqualWeightTargets(active)
                        [] due /\ e.strategy.name = "momentum_12_1" ->
                               MomentumTargets(e, in, sessions, k, active)
                        [] OTHER -> [of |-> st.nav, weight |-> <<>>]
           kept    == IF due \/ first THEN {} ELSE Held(st) \cap active
           D       == DOMAIN picked.weight \cup kept \cup (Held(st) \ active)
           f       == [s \in D |-> CASE s \in Held(st) \ active -> 0
                                     [] s \in kept -> value(s)
                                     [] OTHER -> picked.weight[s]]
<1>1. TargetWeights(e, in, sessions, k, st) = [of |-> picked.of, weight |-> f]
    BY Zenon DEF TargetWeights
<1>2. /\ st.nav \in Int /\ st.nav > 0 /\ \A s \in Held(st) : Priced(in, base, session, s)
      /\ st.qty \in [Securities -> Nat]
    BY DEF Marked, Healthy, Accounts
<1>3. Held(st) \subseteq S
    BY <1>2 DEF Held, Priced
<1>4. IsFiniteSet(active) /\ active \subseteq S
    <2>1. e.universe \subseteq Securities
        BY DEF Sound, TypedAccount
    <2>2. active \subseteq S
        BY <2>1 DEF ActiveMembers
    <2>3. active \subseteq Securities
        BY <2>2
    <2> HIDE DEF active, S
    <2> QED  BY <2>2, <2>3, SecuritiesAssumption, FS_Subset
<1>5. kept \subseteq Held(st) /\ kept \subseteq active
    BY Zenon
<1>6. \A s \in Held(st) : value(s) \in Int
    <2>1. \A s \in Held(st) : st.qty[s] \in Nat
        BY <1>2 DEF Held
    <2> HIDE DEF session, base
    <2> QED  BY <1>2, <2>1, WorthOf
<1> HIDE DEF active, value, close, first, due, S
<1>7. IsTargets(picked, active)
    <2>1. IsTargets(EqualWeightTargets(active), active)
        BY <1>4, EqualWeights
    <2>2. IsTargets(MomentumTargets(e, in, sessions, k, active), active)
        BY <1>4, MomentumWeights
    <2>3. IsTargets([of |-> st.nav, weight |-> <<>>], active)
        BY <1>2 DEF IsTargets
    <2>4. picked \in {EqualWeightTargets(active), MomentumTargets(e, in, sessions, k, active),
                      [of |-> st.nav, weight |-> <<>>]}
        BY Zenon
    <2> HIDE DEF picked
    <2> QED  BY <2>1, <2>2, <2>3, <2>4
<1> HIDE DEF picked, kept
<1>8. D \subseteq S
    BY <1>3, <1>4, <1>5, <1>7 DEF IsTargets
<1>9. ASSUME NEW s \in D PROVE f[s] \in Int
    <2>1. CASE s \in Held(st) \ active
        <3>1. f[s] = 0
            BY <2>1, <1>5
        <3> QED  BY <3>1
    <2>2. CASE s \notin Held(st) \ active /\ s \in kept
        <3>1. f[s] = value(s)
            BY <2>2
        <3> QED  BY <1>5, <1>6, <2>2, <3>1
    <2>3. CASE s \notin Held(st) \ active /\ s \notin kept
        <3>1. s \in DOMAIN picked.weight
            BY <2>3
        <3>2. f[s] = picked.weight[s]
            BY <2>3
        <3> QED  BY <1>7, <3>1, <3>2 DEF IsTargets
    <2> QED  BY <2>1, <2>2, <2>3
<1>10. DOMAIN f = D
    BY Zenon
<1> HIDE DEF f, D
<1>11. IsTargets([of |-> picked.of, weight |-> f], S)
    BY <1>7, <1>8, <1>9, <1>10 DEF IsTargets
<1> QED  BY <1>1, <1>3, <1>11 DEF S

LEMMA TargetQuantityTyped ==
    ASSUME NEW e, NEW in, Sound(e, in), NEW session, NEW st, st.nav \in Int,
           NEW S, NEW targets, IsTargets(targets, S), NEW s,
           PriceRow(in, s, session.date, session.close) # None,
           HasRate(in, e.accounting.base_currency,
                   PriceRow(in, s, session.date, session.close).currency, session.close)
    PROVE  TargetQuantity(e, in, session, st, targets, s) \in Int
<1> DEFINE price  == PriceRow(in, s, session.date, session.close)
           weight == IF s \in DOMAIN targets.weight THEN targets.weight[s] ELSE 0
           base   == e.accounting.base_currency
<1>1. TargetQuantity(e, in, session, st, targets, s)
          = Convert(in, st.nav * weight, base, price.currency, session.close)
                \div (targets.of * price.close)
    BY Zenon DEF TargetQuantity
<1>2. PICK row : row = price
    OBVIOUS
<1>3. row.close \in Int /\ row.close > 0
    BY <1>2, PriceFacts
<1>4. HasRate(in, base, row.currency, session.close)
    BY <1>2
<1> HIDE DEF price, base
<1>5. weight \in Int
    BY DEF IsTargets
<1> HIDE DEF weight
<1>6. PICK x : x = st.nav * weight
    OBVIOUS
<1>7. x \in Int
    BY <1>5, <1>6, Product
<1>8. PICK y : y = Convert(in, x, base, row.currency, session.close)
    OBVIOUS
<1>9. y \in Int
    BY <1>4, <1>7, <1>8, ConvertFacts
<1>10. PICK d : d = targets.of * row.close
    OBVIOUS
<1>11. d \in Int /\ d > 0
    BY <1>3, <1>10, Product DEF IsTargets
<1>12. y \div d \in Int
    BY <1>9, <1>11, Quotient
<1> QED  BY <1>1, <1>2, <1>6, <1>8, <1>10, <1>12

PlaceOK(st, t) ==
    /\ IsState(t) /\ Healthy(t) /\ t.halt = st.halt
    /\ t.nav = st.nav /\ t.qty = st.qty

LEMMA PlaceAccount ==
    ASSUME NEW e, NEW in, Sound(e, in), NEW session, NEW next, NEW st, IsState(st), Healthy(st),
           st.nav \in Int, NEW S, NEW targets, IsTargets(targets, S), NEW s \in Securities,
           PriceRow(in, s, session.date, session.close) # None,
           HasRate(in, e.accounting.base_currency,
                   PriceRow(in, s, session.date, session.close).currency, session.close)
    PROVE  PlaceOK(st, PlaceOrder(e, in, session, next, st, targets, s))
<1> DEFINE price == PriceRow(in, s, session.date, session.close)
           delta == TargetQuantity(e, in, session, st, targets, s) - st.qty[s]
           o     == [decision |-> session.date, execution |-> next.date, security |-> s,
                     side |-> IF delta > 0 THEN "buy" ELSE "sell", qty |-> Larger(delta, -delta),
                     currency |-> price.currency, status |-> "proposed"]
           row   == Row(session, "order", price.currency, 0, s, delta)
           mid   == [st EXCEPT !.orders = Append(@, o), !.pending = @ \cup {Len(st.orders) + 1}]
           t     == PlaceOrder(e, in, session, next, st, targets, s)
<1>1. t = IF delta = 0 THEN st ELSE Book(mid, row)
    BY Zenon DEF PlaceOrder
<1>2. TargetQuantity(e, in, session, st, targets, s) \in Int
    BY TargetQuantityTyped
<1>3. st.qty[s] \in Int
    BY DEF Healthy, Accounts
<1>4. delta \in Int
    BY <1>2, <1>3
<1>5. price.currency \in Currencies
    <2>1. PICK r : r = price
        OBVIOUS
    <2> QED  BY <2>1, PriceFacts
<1> HIDE DEF delta, price, t
<1>6. Larger(delta, -delta) \in Nat
    BY <1>4 DEF Larger
<1>7. IsOrder(o)
    BY <1>5, <1>6 DEF IsOrder
<1>8. Amount(row) = 0 /\ Quantity(row) = 0
    BY DEF Row, Amount, Quantity
<1> HIDE DEF o, row
<1>9. IsFiniteSet(st.pending \cup {Len(st.orders) + 1})
    BY FS_AddElement DEF IsState
<1>10. /\ IsState(mid) /\ mid.orders = Append(st.orders, o)
       /\ mid.pending = st.pending \cup {Len(st.orders) + 1} /\ mid.halt = st.halt
       /\ mid.fills = st.fills /\ mid.cash = st.cash /\ mid.qty = st.qty
       /\ mid.ledger = st.ledger /\ mid.nav = st.nav
    BY <1>9 DEF IsState, StateFields
<1> HIDE DEF mid
<1>11. OrdersTyped(mid)
    <2>1. PICK s0, m0 : s0 = st.orders /\ m0 = mid.orders
        OBVIOUS
    <2>2. IsSeq(s0) /\ (\A i \in DOMAIN s0 : IsOrder(s0[i])) /\ st.pending \subseteq DOMAIN s0
        BY <2>1 DEF Healthy, OrdersTyped
    <2>3. m0 = Append(s0, o)
        BY <1>10, <2>1
    <2>4. /\ IsSeq(m0) /\ DOMAIN m0 = (DOMAIN s0) \cup {Len(s0) + 1}
          /\ \A i \in DOMAIN s0 : m0[i] = s0[i]
          /\ m0[Len(s0) + 1] = o
        BY <2>2, <2>3, AppendFacts
    <2>5. \A i \in DOMAIN m0 : IsOrder(m0[i])
        BY <1>7, <2>2, <2>4
    <2>6. mid.pending \subseteq DOMAIN m0
        BY <1>10, <2>1, <2>2, <2>4
    <2> QED  BY <2>1, <2>4, <2>5, <2>6 DEF OrdersTyped
<1>12. Healthy(mid)
    BY <1>10, <1>11 DEF Healthy
<1>13. PICK u : u = Book(mid, row)
    OBVIOUS
<1>14. /\ IsState(u) /\ SameOrders(mid, u) /\ u.halt = mid.halt /\ u.cash = mid.cash
       /\ u.qty = mid.qty /\ u.nav = mid.nav /\ u.ledger = Append(mid.ledger, row)
    BY <1>10, <1>13, BookFields
<1>15. Healthy(u)
    BY <1>8, <1>12, <1>14, SilentRow
<1>16. PlaceOK(st, u) /\ PlaceOK(st, st)
    BY <1>10, <1>14, <1>15 DEF PlaceOK
<1>17. PlaceOK(st, t)
    BY <1>1, <1>13, <1>16
<1> QED  BY <1>17 DEF t

LEMMA DecideAccount ==
    ASSUME NEW e, NEW in, Sound(e, in), NEW sessions, NEW k, NEW st,
           Marked(in, e.accounting.base_currency, sessions[k], st)
    PROVE  AccountOK(Decide(e, in, sessions, k, st))
<1> DEFINE session  == sessions[k]
           base     == e.accounting.base_currency
           targets  == TargetWeights(e, in, sessions, k, st)
           C        == DOMAIN targets.weight \cup Held(st)
           chosen   == Sorted(C, LAMBDA s, r : s < r)
           cur(s)   == PriceRow(in, s, session.date, session.close).currency
           checked  == \/ e.strategy.name = "buy_and_hold"
                       \/ RebalanceDue(e, session, st.decided)
                       \/ \E s \in DOMAIN targets.weight : targets.weight[s] = 0
           held     == st.held \/ e.strategy.name = "buy_and_hold"
           currency == [s \in Securities |-> IF s \in ToSet(chosen) THEN cur(s) ELSE st.currency[s]]
           decided  == [st EXCEPT !.decided = session.date, !.held = held, !.currency = currency]
           unknown  == \E s \in e.universe :
                          Cardinality(MembershipState(in, s, session.date, session.close)) # 1
           over     == checked /\ ~WithinLimits(e, targets)
           unrated  == \E s \in ToSet(chosen) : ~HasRate(in, base, cur(s), session.close)
           t        == Decide(e, in, sessions, k, st)
           S        == {s \in Securities : PriceRow(in, s, session.date, session.close) # None}
           placed   == PlaceFold(e, in, session, sessions[k + 1], targets, decided, chosen)
<1>1. t = IF st.halt # "none" THEN st
          ELSE IF unknown THEN Halt(st, "membership unavailable")
          ELSE IF over THEN Halt(st, "target exceeds a limit")
          ELSE IF unrated THEN Halt(st, "no FX rate")
          ELSE placed
    BY Zenon DEF Decide, PlaceFold
<1>2. IsState(st)
    BY DEF Marked
<1>3. \A reason : reason # "none" => AccountOK(Halt(st, reason))
    BY <1>2, HaltAccount
<1>4. st.halt # "none" => AccountOK(st)
    BY <1>2 DEF AccountOK
<1>5. PICK seq : seq = chosen
    OBVIOUS
<1>6. seq = InOrder(C)
    BY <1>5, Zenon DEF InOrder
<1> HIDE DEF t, currency, held, chosen, unknown, over, placed
<1>7. ASSUME st.halt = "none", ~unrated PROVE AccountOK(placed)
    <2>1. Healthy(st) /\ st.nav \in Int
        BY <1>7 DEF Marked
    <2>2. IsTargets(targets, S) /\ Held(st) \subseteq S
        BY <1>7, TargetsTyped
    <2> HIDE DEF targets
    <2>3. C \subseteq S
        BY <2>2 DEF IsTargets
    <2>4. S \subseteq Securities /\ \A s \in S : PriceRow(in, s, session.date, session.close) # None
        OBVIOUS
    <2> HIDE DEF S
    <2>5. IsFiniteSet(C) /\ C \subseteq Int
        <3>1. C \subseteq Securities
            BY <2>3, <2>4
        <3> HIDE DEF C
        <3> QED  BY <3>1, SecuritiesAssumption, FS_Subset
    <2>6. PICK n \in Nat : n = Cardinality(C)
        BY <2>5, FS_CardinalityType
    <2> HIDE DEF C
    <2>7. PICK R : Enumerates(seq, C, R, n)
        BY <1>6, <2>5, <2>6, InOrderEnumerates
    <2>8. DOMAIN seq = 1..n /\ \A i \in 1..n : seq[i] \in C /\ seq[i] \in ToSet(seq)
        BY <2>7 DEF Enumerates, ToSet
    <2>9. \A s \in ToSet(seq) : HasRate(in, base, cur(s), session.close)
        BY <1>5, <1>7
    <2>10. PICK st0 : st0 = decided
        OBVIOUS
    <2>11. /\ IsState(st0) /\ SameOrders(st, st0) /\ st0.halt = "none" /\ st0.nav = st.nav
           /\ st0.cash = st.cash /\ st0.qty = st.qty /\ st0.ledger = st.ledger
        BY <1>2, <1>7, <2>10 DEF IsState, StateFields, SameOrders, SameCosts
    <2>12. Healthy(st0)
        BY <2>1, <2>11, SameAccount
    <2> HIDE DEF decided
    <2>13. PICK next : next = sessions[k + 1]
        OBVIOUS
    <2>14. PICK tr : /\ Traces(tr, "place", <<e, in, session, next, targets>>, st0, seq, n)
                     /\ tr[n] = PlaceFold(e, in, session, next, targets, st0, seq)
        BY <2>8, PlaceTrace
    <2>15. tr[n] = placed
        BY <1>5, <2>10, <2>13, <2>14, Zenon DEF placed
    <2> DEFINE OK(u) == IsState(u) /\ Healthy(u) /\ u.halt = "none" /\ u.nav = st.nav
               T == {m \in 0..n : OK(tr[m])}
    <2>16. 0 \in T
        <3>1. tr[0] = st0
            BY <2>14 DEF Traces
        <3> QED  BY <2>11, <2>12, <3>1
    <2>17. ASSUME NEW m \in 0..n, m < n, m \in T PROVE m + 1 \in T
        <3>1. m + 1 \in 0..n /\ m + 1 \in 1..n
            BY <2>17
        <3>2. PICK s : s = seq[m + 1]
            OBVIOUS
        <3>3. tr[m + 1] = FoldStep("place", <<e, in, session, next, targets>>, tr[m], s)
            BY <2>14, <2>17, <3>2 DEF Traces
        <3>4. tr[m + 1] = PlaceOrder(e, in, session, next, tr[m], targets, s)
            BY <3>3 DEF FoldStep
        <3>5. PICK u, v : u = tr[m] /\ v = tr[m + 1]
            OBVIOUS
        <3>6. OK(u)
            BY <2>17, <3>5
        <3>7. s \in C /\ s \in ToSet(seq)
            BY <2>8, <3>1, <3>2
        <3>8. s \in Securities /\ PriceRow(in, s, session.date, session.close) # None
            BY <2>3, <2>4, <3>7
        <3>9. HasRate(in, base, PriceRow(in, s, session.date, session.close).currency, session.close)
            BY <2>9, <3>7
        <3>10. v = PlaceOrder(e, in, session, next, u, targets, s)
            BY <3>4, <3>5
        <3>11. u.nav \in Int
            BY <2>1, <3>6
        <3> HIDE DEF session
        <3>12. PlaceOK(u, v)
            BY <2>2, <3>6, <3>8, <3>9, <3>10, <3>11, PlaceAccount
        <3>13. OK(v)
            BY <3>6, <3>12 DEF PlaceOK
        <3> QED  BY <3>1, <3>5, <3>13
    <2>18. n \in T
        <3> HIDE DEF T
        <3>1. 0..n \subseteq T
            BY <2>16, <2>17, UpTo
        <3> QED  BY <3>1
    <2> QED  BY <2>15, <2>18 DEF AccountOK
<1> HIDE DEF unrated
<1>8. AccountOK(t)
    BY <1>1, <1>3, <1>4, <1>7
<1> QED  BY <1>8 DEF t

LEMMA SessionAccount ==
    ASSUME NEW e, NEW in, Sound(e, in), IsFiniteSet(in.corporate_actions), NEW k, NEW st, AccountOK(st)
    PROVE  AccountOK(Session(e, in, k, st))
<1>1. PICK sessions : sessions = CalendarSessions(e, in)
    OBVIOUS
<1>2. PICK s : s = sessions[k]
    OBVIOUS
<1>3. PICK opened : opened = ApplyActions(e, in, st, s)
    OBVIOUS
<1>4. PICK traded : traded = ExecuteOrders(e, in, opened, s)
    OBVIOUS
<1>5. PICK marked : marked = Mark(e, in, traded, s)
    OBVIOUS
<1>6. PICK t : t = Decide(e, in, sessions, k, marked)
    OBVIOUS
<1>7. AccountOK(opened)
    BY <1>3, ActionsAccount
<1>8. AccountOK(traded)
    BY <1>4, <1>7, OrdersAccount
<1>9. Marked(in, e.accounting.base_currency, s, marked)
    BY <1>5, <1>8, MarkAccount
<1>10. AccountOK(marked)
    BY <1>9 DEF Marked, AccountOK
<1>11. AccountOK(t)
    BY <1>2, <1>6, <1>9, DecideAccount
<1>12. Session(e, in, k, st) = IF k = Len(sessions) THEN marked ELSE t
    BY <1>1, <1>2, <1>3, <1>4, <1>5, <1>6, Zenon DEF Session
<1> QED  BY <1>10, <1>11, <1>12

-----------------------------------------------------------------------------
(***************************************************************************)
(* From the first row on: the state of an admitted experiment after any    *)
(* number of sessions has books that add up.                               *)
(***************************************************************************)
LEMMA EmptyLedger ==
    Accounts([c \in Currencies |-> 0], [s \in Securities |-> 0], <<>>)
<1>1. PICK l : l = <<>>
    OBVIOUS
<1>2. DOMAIN l = {}
    BY <1>1
<1>3. IsLedger(l)
    <2>1. IsSeq(l)
        BY <1>1 DEF IsSeq
    <2> QED  BY <1>2, <2>1 DEF IsLedger
<1>4. \A cur : Balance(l, cur) = 0
    <2> TAKE cur
    <2>1. \A i \in DOMAIN l : l[i] = Amount(l[i])
        BY <1>2
    <2>2. Balance(l, cur) = Total(l, {i \in DOMAIN l : l[i].currency = cur})
        BY <2>1, BalanceIsTotal
    <2>3. {i \in DOMAIN l : l[i].currency = cur} = {}
        BY <1>2
    <2> QED  BY <2>2, <2>3, TotalEmpty
<1>5. \A sec : Position(l, sec) = 0
    <2> TAKE sec
    <2>1. \A i \in DOMAIN l : l[i] = Quantity(l[i])
        BY <1>2
    <2>2. Position(l, sec) = Total(l, {i \in DOMAIN l : l[i].security = sec})
        BY <2>1, PositionIsTotal
    <2>3. {i \in DOMAIN l : l[i].security = sec} = {}
        BY <1>2
    <2> QED  BY <2>2, <2>3, TotalEmpty
<1>6. PICK c0, q0 : c0 = [c \in Currencies |-> 0] /\ q0 = [s \in Securities |-> 0]
    OBVIOUS
<1>7. Accounts(c0, q0, l)
    BY <1>3, <1>4, <1>5, <1>6 DEF Accounts
<1> QED  BY <1>1, <1>6, <1>7

LEMMA InitialAccount ==
    ASSUME NEW e, NEW in, Sound(e, in)
    PROVE  AccountOK(Initial(e, in))
<1>1. PICK base, cash : base = e.accounting.base_currency /\ cash = e.accounting.initial_cash
    OBVIOUS
<1>2. base \in Currencies /\ cash \in Int /\ cash > 0
    BY <1>1 DEF Sound, TypedAccount
<1>3. PICK row : row = Row(CalendarSessions(e, in)[1], "initial_cash", base, cash, None, 0)
    OBVIOUS
<1>4. Says(row, base, cash, None, 0)
    BY <1>2, <1>3 DEF Says, Row, Amount, Quantity
<1>5. PICK c0, q0 : c0 = [c \in Currencies |-> 0] /\ q0 = [s \in Securities |-> 0]
    OBVIOUS
<1>6. Accounts(c0, q0, <<>>)
    BY <1>5, EmptyLedger
<1>7. PICK c1 : c1 = [c0 EXCEPT ![base] = @ + cash]
    OBVIOUS
<1>8. Accounts(c1, q0, Append(<<>>, row))
    BY <1>2, <1>4, <1>6, <1>7, RowPays
<1>9. Append(<<>>, row) = <<row>>
    OBVIOUS
<1>10. PICK t : t = Initial(e, in)
    OBVIOUS
<1>11. t.ledger = <<row>> /\ t.qty = q0
    BY <1>1, <1>3, <1>5, <1>10 DEF Initial
<1>12. t.cash = c1
    BY <1>1, <1>2, <1>5, <1>7, <1>10 DEF Initial
<1>13. t.orders = <<>> /\ t.fills = <<>> /\ t.pending = {}
    BY <1>10 DEF Initial
<1>14. OrdersTyped(t) /\ IsSeq(t.fills)
    BY <1>13 DEF OrdersTyped, IsSeq
<1>15. Solvent(t.cash, t.fills)
    BY <1>2, <1>5, <1>7, <1>12 DEF Solvent
<1>16. IsState(t)
    BY <1>10, InitialIsState
<1>17. Healthy(t)
    BY <1>8, <1>9, <1>11, <1>12, <1>14, <1>15 DEF Healthy
<1> QED  BY <1>10, <1>16, <1>17 DEF AccountOK

LEMMA AfterAccount ==
    ASSUME NEW e \in Specs, Sound(e, Load(e)), NEW k \in Nat
    PROVE  AccountOK(After(e, k))
<1>1. PICK in : in = Load(e)
    OBVIOUS
<1>2. IsFiniteSet(in.corporate_actions) /\ Sound(e, in)
    BY <1>1, SpecsAssumption DEF Kinds
<1> DEFINE T == {m \in Nat : AccountOK(After(e, m))}
<1>3. 0 \in T
    BY <1>1, <1>2, AfterNone, InitialAccount
<1>4. ASSUME NEW m \in Nat, m \in T PROVE m + 1 \in T
    <2>1. After(e, m + 1) = Session(e, in, m + 1, After(e, m))
        BY <1>1, AfterNext
    <2>2. AccountOK(Session(e, in, m + 1, After(e, m)))
        BY <1>2, <1>4, SessionAccount
    <2> QED  BY <2>1, <2>2
<1>5. Nat \subseteq T
    <2> HIDE DEF T
    <2> QED  BY <1>3, <1>4, NatInduct
<1> QED  BY <1>5

-----------------------------------------------------------------------------
(***************************************************************************)
(* The account of every command is the one of an uninterrupted run.        *)
(***************************************************************************)
LEMMA RunInvAccounts == RunInv /\ ParsedInv => LedgerExplainsBalances /\ BuysNeverOverdraw
<1> SUFFICES ASSUME RunInv, ParsedInv PROVE LedgerExplainsBalances /\ BuysNeverOverdraw
    OBVIOUS
<1>1. ASSUME NEW c \in Commands, Live(c) PROVE Healthy(run[c].st)
    <2>1. spec \in Specs /\ NumberOf(spec) \in Nat
        BY SessionsCounted DEF RunInv
    <2>2. PICK k \in Nat : k = run[c].k
        BY <1>1, <2>1 DEF RunInv, Good
    <2>3. run[c].st = After(spec, k) /\ run[c].st.halt = "none"
        BY <1>1, <2>2 DEF RunInv, Good
    <2>4. Sound(spec, Load(spec))
        BY <1>1 DEF ParsedInv, Parsed
    <2>5. AccountOK(After(spec, k))
        BY <2>1, <2>4, AfterAccount
    <2> QED  BY <2>3, <2>5 DEF AccountOK
<1>2. ASSUME NEW c \in Commands, Live(c)
      PROVE  /\ \A cur \in Currencies : run[c].st.cash[cur] = Balance(run[c].st.ledger, cur)
             /\ \A s \in Securities : run[c].st.qty[s] = Position(run[c].st.ledger, s)
    BY <1>1, <1>2 DEF Healthy, Accounts
<1>3. ASSUME NEW c \in Commands, Live(c) PROVE Solvent(run[c].st.cash, run[c].st.fills)
    BY <1>1, <1>3 DEF Healthy
<1>4. LedgerExplainsBalances
    BY <1>2 DEF LedgerExplainsBalances
<1>5. BuysNeverOverdraw
    BY <1>3 DEF BuysNeverOverdraw, Solvent
<1> QED  BY <1>4, <1>5

(***************************************************************************)
(* In every run the rows of the ledger add up, currency by currency and    *)
(* security by security, to the balances and the holdings: _apply_actions, *)
(* _fund_trade_currency and _execute_orders change neither without a row   *)
(* of _ledger that says so, and no interruption adds or loses a row.       *)
(***************************************************************************)
THEOREM LedgerAddsUp == Spec => []LedgerExplainsBalances
<1> QED  BY RunsInductive, RunsAreParsed, RunInvAccounts, PTL

(***************************************************************************)
(* In every run a balance is below zero only after a sale whose fee and    *)
(* tax exceeded what it brought in: _max_affordable_quantity sizes a buy   *)
(* to what _fund_trade_currency can then provide for it.                   *)
(***************************************************************************)
THEOREM OnlySalesOverdraw == Spec => []BuysNeverOverdraw
<1> QED  BY RunsInductive, RunsAreParsed, RunInvAccounts, PTL

-----------------------------------------------------------------------------
(***************************************************************************)
(* The inputs of an earlier day.  q holds the rows of in that were         *)
(* available by T: whatever is read as of an instant up to T is read the   *)
(* same from both.                                                         *)
(***************************************************************************)
SameMarket(in, q, asOf) ==
    /\ \A s, d : PriceRow(q, s, d, asOf) = PriceRow(in, s, d, asOf)
    /\ \A s, d : MembershipState(q, s, d, asOf) = MembershipState(in, s, d, asOf)
    /\ \A x, y : FxRate(q, x, y, asOf) = FxRate(in, x, y, asOf)

LEMMA EarlierRows ==
    ASSUME NEW in, NEW T, NEW q, q = AvailableBy(in, T)
    PROVE  /\ q.prices = {r \in in.prices : r.available <= T}
           /\ q.membership = {r \in in.membership : r.available <= T}
           /\ q.fx = {r \in in.fx : r.available <= T}
           /\ q.corporate_actions = {r \in in.corporate_actions : r.available <= T}
           /\ q.calendar = in.calendar
BY DEF AvailableBy, Kinds

LEMMA MarketIsTheSame ==
    ASSUME NEW in, TypedInputs(in), NEW T \in Int, NEW asOf \in Int, asOf <= T,
           NEW q, q = AvailableBy(in, T)
    PROVE  SameMarket(in, q, asOf)
<1>1. \A r \in in.prices : r.available <= asOf => r.available <= T
    BY DEF TypedInputs
<1>2. \A r \in in.membership : r.available <= asOf => r.available <= T
    BY DEF TypedInputs
<1>3. \A r \in in.fx : r.available <= asOf => r.available <= T
    BY DEF TypedInputs
<1>4. ASSUME NEW s, NEW d PROVE PriceRow(q, s, d, asOf) = PriceRow(in, s, d, asOf)
    <2> DEFINE Found(m) == {r \in m.prices : r.security = s /\ r.date = d /\ r.available <= asOf}
    <2>1. Found(q) = Found(in)
        BY <1>1, EarlierRows
    <2>2. \A m : PriceRow(m, s, d, asOf) = IF Found(m) = {} THEN None ELSE CHOOSE r \in Found(m) : TRUE
        BY Zenon DEF PriceRow
    <2> HIDE DEF Found
    <2> QED  BY <2>1, <2>2
<1>5. ASSUME NEW s, NEW d PROVE MembershipState(q, s, d, asOf) = MembershipState(in, s, d, asOf)
    <2> DEFINE Found(m) == {r \in m.membership : /\ r.security = s
                                                 /\ r.from <= d
                                                 /\ r.until = None \/ d < r.until
                                                 /\ r.available <= asOf}
    <2>1. Found(q) = Found(in)
        BY <1>2, EarlierRows
    <2>2. \A m : MembershipState(m, s, d, asOf) = {r.member : r \in Leaders(Found(m))}
        BY Zenon DEF MembershipState
    <2> HIDE DEF Found
    <2> QED  BY <2>1, <2>2
<1>6. ASSUME NEW x, NEW y PROVE FxRate(q, x, y, asOf) = FxRate(in, x, y, asOf)
    <2> DEFINE Known(m) == {r \in m.fx : /\ {r.base, r.quote} = {x, y}
                                         /\ r.fixing <= asOf /\ r.available <= asOf}
               Rates(K) == IF x = y THEN {<<1, 1>>}
                           ELSE {IF r.base = x THEN <<r.rate, 1>> ELSE <<1, r.rate>> :
                                    r \in {r \in K : \A p \in K : p.fixing <= r.fixing}}
    <2>1. Known(q) = Known(in)
        <3>1. ASSUME NEW r PROVE r \in Known(q) <=> r \in Known(in)
            <4>1. q.fx = {p \in in.fx : p.available <= T}
                BY EarlierRows
            <4> QED  BY <1>3, <4>1
        <3> HIDE DEF Known
        <3> QED  BY <3>1
    <2>2. \A m : FxRate(m, x, y, asOf) = Rates(Known(m))
        BY Zenon DEF FxRate
    <2> HIDE DEF Known, Rates
    <2> QED  BY <2>1, <2>2
<1> QED  BY <1>4, <1>5, <1>6 DEF SameMarket

LEMMA SameRates ==
    ASSUME NEW in, NEW q, NEW asOf, SameMarket(in, q, asOf)
    PROVE  /\ \A x, y : HasRate(q, x, y, asOf) <=> HasRate(in, x, y, asOf)
           /\ \A n, x, y : Convert(q, n, x, y, asOf) = Convert(in, n, x, y, asOf)
BY Zenon DEF SameMarket, HasRate, Convert

(***************************************************************************)
(* Two states that differ in the actions marked processed at most: u has   *)
(* those of t that are among I.                                            *)
(***************************************************************************)
Twins(t, u, I) ==
    /\ IsState(t) /\ IsState(u)
    /\ \A f \in StateFields : f # "processed" => u[f] = t[f]
    /\ u.processed = t.processed \cap I

LEMMA TwinFields ==
    ASSUME NEW t, NEW u, NEW I, Twins(t, u, I)
    PROVE  /\ u.cash = t.cash /\ u.qty = t.qty /\ u.currency = t.currency /\ u.orders = t.orders
           /\ u.fills = t.fills /\ u.ledger = t.ledger /\ u.pending = t.pending /\ u.held = t.held
           /\ u.decided = t.decided /\ u.nav = t.nav /\ u.benchmark = t.benchmark
           /\ u.costs = t.costs /\ u.spent = t.spent /\ u.rejected = t.rejected /\ u.idle = t.idle
           /\ u.marks = t.marks /\ u.holdings = t.holdings /\ u.halt = t.halt
BY DEF Twins, StateFields

LEMMA TwinsHalt ==
    ASSUME NEW t, NEW u, NEW I, Twins(t, u, I), NEW reason
    PROVE  Twins(Halt(t, reason), Halt(u, reason), I)
BY DEF Twins, Halt, IsState, StateFields

LEMMA TwinsBook ==
    ASSUME NEW t, NEW u, NEW I, Twins(t, u, I), NEW row
    PROVE  Twins(Book(t, row), Book(u, row), I)
BY DEF Twins, Book, IsState, StateFields
LEMMA TwinsFund ==
    ASSUME NEW in, NEW q, NEW session, SameMarket(in, q, session.open),
           NEW t, NEW u, NEW I, Twins(t, u, I), NEW e, NEW currency, NEW required
    PROVE  Twins(FundTradeCurrency(e, in, t, currency, required, session),
                 FundTradeCurrency(e, q, u, currency, required, session), I)
<1> DEFINE base   == e.accounting.base_currency
           short  == required - t.cash[currency]
           inBase == Convert(in, short, currency, base, session.open)
           r1     == Row(session, "fx_conversion", base, -inBase, None, 0)
           r2     == Row(session, "fx_conversion", currency, short, None, 0)
           t1     == [t EXCEPT !.cash[currency] = @ + short, !.cash[base] = @ - inBase]
           u1     == [u EXCEPT !.cash[currency] = @ + short, !.cash[base] = @ - inBase]
<1>1. FundTradeCurrency(e, in, t, currency, required, session) =
          IF short <= 0 THEN t ELSE Book(Book(t1, r1), r2)
    BY Zenon DEF FundTradeCurrency
<1>2. FundTradeCurrency(e, q, u, currency, required, session) =
          IF short <= 0 THEN u ELSE Book(Book(u1, r1), r2)
    <2> DEFINE short2  == required - u.cash[currency]
               inBase2 == Convert(q, short2, currency, base, session.open)
    <2>1. FundTradeCurrency(e, q, u, currency, required, session) =
              IF short2 <= 0 THEN u
              ELSE Book(Book([u EXCEPT !.cash[currency] = @ + short2, !.cash[base] = @ - inBase2],
                             Row(session, "fx_conversion", base, -inBase2, None, 0)),
                        Row(session, "fx_conversion", currency, short2, None, 0))
        BY Zenon DEF FundTradeCurrency
    <2>2. short2 = short
        BY TwinFields
    <2>3. inBase2 = inBase
        <3>1. \A n, x, y : Convert(q, n, x, y, session.open) = Convert(in, n, x, y, session.open)
            BY SameRates
        <3>2. inBase2 = Convert(q, short, currency, base, session.open)
            BY <2>2, Zenon
        <3> HIDE DEF inBase2, short, base
        <3> QED  BY <3>1, <3>2, Zenon DEF inBase
    <2> HIDE DEF short2, inBase2, short, inBase
    <2> QED  BY <2>1, <2>2, <2>3, Zenon
<1> HIDE DEF base, short, inBase
<1>3. Twins(t1, u1, I)
    BY DEF Twins, IsState, StateFields
<1> HIDE DEF r1, r2, t1, u1
<1>4. Twins(Book(Book(t1, r1), r2), Book(Book(u1, r1), r2), I)
    BY <1>3, TwinsBook
<1> QED  BY <1>1, <1>2, <1>4

LEMMA TwinsReject ==
    ASSUME NEW t, NEW u, NEW I, Twins(t, u, I), NEW e, NEW i, NEW session
    PROVE  Twins(RejectOrder(e, t, i, session), RejectOrder(e, u, i, session), I)
<1> DEFINE t1  == [t EXCEPT !.orders[i].status = "rejected", !.rejected = @ + 1]
           u1  == [u EXCEPT !.orders[i].status = "rejected", !.rejected = @ + 1]
           row == Row(session, "reject", t.orders[i].currency, 0, t.orders[i].security, Signed(t.orders[i]))
<1>1. RejectOrder(e, t, i, session) =
          IF e.missing = "halt_experiment" THEN Halt(Book(t1, row), "order rejected") ELSE Book(t1, row)
    BY Zenon DEF RejectOrder
<1>2. RejectOrder(e, u, i, session) =
          IF e.missing = "halt_experiment" THEN Halt(Book(u1, row), "order rejected") ELSE Book(u1, row)
    <2>1. u.orders = t.orders
        BY TwinFields
    <2> QED  BY <2>1, Zenon DEF RejectOrder
<1>3. Twins(t1, u1, I)
    BY DEF Twins, IsState, StateFields
<1> HIDE DEF t1, u1, row
<1>4. Twins(Book(t1, row), Book(u1, row), I)
    BY <1>3, TwinsBook
<1>5. Twins(Halt(Book(t1, row), "order rejected"), Halt(Book(u1, row), "order rejected"), I)
    BY <1>4, TwinsHalt
<1> QED  BY <1>1, <1>2, <1>4, <1>5

LEMMA TwinsFill ==
    ASSUME NEW in, NEW q, NEW session, SameMarket(in, q, session.open),
           NEW t, NEW u, NEW I, Twins(t, u, I), NEW e, NEW i, NEW row, NEW n
    PROVE  Twins(FillOrder(e, in, t, i, row, n, session), FillOrder(e, q, u, i, row, n, session), I)
<1> DEFINE o      == t.orders[i]
           base   == e.accounting.base_currency
           terms  == FillTerms(e.cost, row, o.side, n)
           sign   == IF o.side = "buy" THEN 1 ELSE -1
           cost   == Convert(in, terms.fee + terms.tax + terms.slip, o.currency, base, session.open)
           whole  == terms.notional + terms.fee + terms.tax
           t1     == IF o.side = "buy" THEN FundTradeCurrency(e, in, t, o.currency, whole, session) ELSE t
           u1     == IF o.side = "buy" THEN FundTradeCurrency(e, q, u, o.currency, whole, session) ELSE u
           fill   == [order |-> i, date |-> session.date, security |-> o.security,
                      side |-> o.side, qty |-> n, notional |-> terms.notional,
                      fee |-> terms.fee, tax |-> terms.tax]
           Filled(s) == [s EXCEPT
               !.cash[o.currency] = @ - sign * terms.notional - terms.fee - terms.tax,
               !.qty[o.security]  = Larger(0, @ + sign * n),
               !.orders[i]        = [@ EXCEPT !.status = "filled", !.qty = n],
               !.fills            = Append(@, fill),
               !.spent            = @ + cost,
               !.costs[session.date] = @ + cost]
           r1 == Row(session, "fill", o.currency, -sign * terms.notional, o.security, sign * n)
           r2 == Row(session, "fee", o.currency, -terms.fee, o.security, 0)
           r3 == Row(session, "tax", o.currency, -terms.tax, o.security, 0)
<1>1. FillOrder(e, in, t, i, row, n, session) = Book(Book(Book(Filled(t1), r1), r2), r3)
    BY Zenon DEF FillOrder
<1>2. FillOrder(e, q, u, i, row, n, session) = Book(Book(Book(Filled(u1), r1), r2), r3)
    <2>1. u.orders = t.orders
        BY TwinFields
    <2>2. \A m, x, y : Convert(q, m, x, y, session.open) = Convert(in, m, x, y, session.open)
        BY SameRates
    <2> QED  BY <2>1, <2>2, Zenon DEF FillOrder
<1> HIDE DEF o, terms, cost, sign, whole, fill
<1>3. Twins(t1, u1, I)
    BY TwinsFund
<1> HIDE DEF t1, u1
<1>4. PICK a, b : a = Filled(t1) /\ b = Filled(u1)
    OBVIOUS
<1>5. Twins(a, b, I)
    <2>1. DOMAIN t1 = StateFields /\ DOMAIN u1 = StateFields
        BY <1>3 DEF Twins, IsState
    <2>2. DOMAIN a = StateFields /\ DOMAIN b = StateFields
        BY <1>4, <2>1, Zenon
    <2>3. a = [f \in StateFields |-> a[f]] /\ b = [f \in StateFields |-> b[f]]
        BY <1>4, <2>1, <2>2, Zenon
    <2>4. a.cash = b.cash
        BY <1>3, <1>4, <2>1, TwinFields DEF StateFields
    <2>5. a.qty = b.qty
        BY <1>3, <1>4, <2>1, TwinFields DEF StateFields
    <2>6. a.orders = b.orders
        <3>1. a.orders = [t1.orders EXCEPT ![i] = [@ EXCEPT !.status = "filled", !.qty = n]]
            BY <1>4, <2>1 DEF StateFields
        <3>2. b.orders = [u1.orders EXCEPT ![i] = [@ EXCEPT !.status = "filled", !.qty = n]]
            BY <1>4, <2>1 DEF StateFields
        <3>3. t1.orders = u1.orders
            BY <1>3, TwinFields
        <3> QED  BY <3>1, <3>2, <3>3, Zenon
    <2>7. a.fills = b.fills /\ a.spent = b.spent
        BY <1>3, <1>4, <2>1, TwinFields DEF StateFields
    <2>8. a.costs = b.costs
        BY <1>3, <1>4, <2>1, TwinFields DEF StateFields
    <2>9. \A f \in StateFields \ {"cash", "qty", "orders", "fills", "spent", "costs"} :
              a[f] = t1[f] /\ b[f] = u1[f]
        BY <1>4, <2>1
    <2>10. \A f \in StateFields \ {"processed"} : u1[f] = t1[f]
        BY <1>3 DEF Twins
    <2>11. \A f \in StateFields : f # "processed" => b[f] = a[f]
        BY <2>4, <2>5, <2>6, <2>7, <2>8, <2>9, <2>10
    <2>12. a.processed = t1.processed /\ b.processed = u1.processed
           /\ a.pending = t1.pending /\ b.pending = u1.pending
        BY <2>9 DEF StateFields
    <2>13. b.processed = a.processed \cap I /\ IsFiniteSet(a.pending) /\ IsFiniteSet(b.pending)
        BY <1>3, <2>12 DEF Twins, IsState
    <2> QED  BY <2>3, <2>11, <2>13 DEF Twins, IsState
<1> HIDE DEF Filled, r1, r2, r3
<1>6. Twins(Book(Book(Book(a, r1), r2), r3), Book(Book(Book(b, r1), r2), r3), I)
    BY <1>5, TwinsBook
<1> QED  BY <1>1, <1>2, <1>4, <1>6

LEMMA TwinsOrder ==
    ASSUME NEW in, NEW q, NEW session, SameMarket(in, q, session.open),
           NEW t, NEW u, NEW I, Twins(t, u, I), NEW e, NEW i
    PROVE  Twins(ExecuteOrder(e, in, session, t, i), ExecuteOrder(e, q, session, u, i), I)
<1> DEFINE o      == t.orders[i]
           base   == e.accounting.base_currency
           row    == PriceRow(in, o.security, session.date, session.open)
           wanted == IF o.side = "sell" THEN Smaller(o.qty, t.qty[o.security]) ELSE o.qty
           part   == e.risk.max_participation
           money  == Spendable(e, in, t, o.currency, session)
           n      == IF o.side = "buy" THEN MaxAffordableQuantity(e.cost, row, wanted, money) ELSE wanted
           crowded == IF row.has_volume THEN wanted * part[2] > row.volume * part[1] ELSE part[1] < part[2]
           short   == /\ o.side = "buy"
                      /\ ~CanFund(e, in, t, o.currency, BuyCost(e.cost, row, n), session)
           unrated == ~HasRate(in, o.currency, base, session.open)
           Result(s, filled) ==
               IF s.halt # "none" THEN s
               ELSE IF row = None THEN RejectOrder(e, s, i, session)
               ELSE IF row.currency # o.currency THEN Halt(s, "order currency")
               ELSE IF wanted = 0 \/ crowded THEN RejectOrder(e, s, i, session)
               ELSE IF unrated THEN Halt(s, "no FX rate")
               ELSE IF n = 0 \/ short THEN RejectOrder(e, s, i, session)
               ELSE filled
<1>1. ExecuteOrder(e, in, session, t, i) = Result(t, FillOrder(e, in, t, i, row, n, session))
    BY DEF ExecuteOrder
<1>2. /\ u.orders = t.orders /\ u.qty = t.qty /\ u.cash = t.cash /\ u.halt = t.halt
    BY TwinFields
<1>3. /\ \A x, y : HasRate(q, x, y, session.open) <=> HasRate(in, x, y, session.open)
      /\ \A m, x, y : Convert(q, m, x, y, session.open) = Convert(in, m, x, y, session.open)
    BY SameRates
<1>4. \A s, d : PriceRow(q, s, d, session.open) = PriceRow(in, s, d, session.open)
    BY DEF SameMarket
<1>5. Spendable(e, q, u, o.currency, session) = money
    BY <1>2, <1>3, Zenon DEF Spendable
<1>6. \A r : CanFund(e, q, u, o.currency, r, session) <=> CanFund(e, in, t, o.currency, r, session)
    BY <1>2, <1>3, Zenon DEF CanFund
<1>7. ExecuteOrder(e, q, session, u, i) = Result(u, FillOrder(e, q, u, i, row, n, session))
    <2> DEFINE o2   == u.orders[i]
               row2 == PriceRow(q, o2.security, session.date, session.open)
               wanted2 == IF o2.side = "sell" THEN Smaller(o2.qty, u.qty[o2.security]) ELSE o2.qty
               money2  == Spendable(e, q, u, o2.currency, session)
               n2      == IF o2.side = "buy" THEN MaxAffordableQuantity(e.cost, row2, wanted2, money2)
                          ELSE wanted2
               crowded2 == IF row2.has_volume THEN wanted2 * part[2] > row2.volume * part[1]
                           ELSE part[1] < part[2]
               short2   == /\ o2.side = "buy"
                           /\ ~CanFund(e, q, u, o2.currency, BuyCost(e.cost, row2, n2), session)
               unrated2 == ~HasRate(q, o2.currency, base, session.open)
    <2>1. ExecuteOrder(e, q, session, u, i) =
               IF u.halt # "none" THEN u
               ELSE IF row2 = None THEN RejectOrder(e, u, i, session)
               ELSE IF row2.currency # o2.currency THEN Halt(u, "order currency")
               ELSE IF wanted2 = 0 \/ crowded2 THEN RejectOrder(e, u, i, session)
               ELSE IF unrated2 THEN Halt(u, "no FX rate")
               ELSE IF n2 = 0 \/ short2 THEN RejectOrder(e, u, i, session)
               ELSE FillOrder(e, q, u, i, row2, n2, session)
        BY DEF ExecuteOrder
    <2>2. o2 = o
        BY <1>2
    <2>3. row2 = row
        BY <1>4, <2>2, Zenon
    <2>4. wanted2 = wanted
        BY <1>2, <2>2, Zenon
    <2>5. money2 = money
        BY <1>5, <2>2, Zenon
    <2>6. n2 = n
        BY <2>2, <2>3, <2>4, <2>5, Zenon
    <2>7. crowded2 <=> crowded
        BY <2>3, <2>4, Zenon
    <2>8. short2 <=> short
        BY <1>6, <2>2, <2>3, <2>6, Zenon
    <2>9. unrated2 <=> unrated
        BY <1>3, <2>2, Zenon
    <2> HIDE DEF o2, row2, wanted2, money2, n2, crowded2, short2, unrated2,
                 o, row, wanted, money, n, crowded, short, unrated
    <2> QED  BY <2>1, <2>2, <2>3, <2>4, <2>6, <2>7, <2>8, <2>9
<1>8. Twins(FillOrder(e, in, t, i, row, n, session), FillOrder(e, q, u, i, row, n, session), I)
    BY TwinsFill
<1>9. Twins(RejectOrder(e, t, i, session), RejectOrder(e, u, i, session), I)
    BY TwinsReject
<1>10. \A reason : Twins(Halt(t, reason), Halt(u, reason), I)
    BY TwinsHalt
<1>11. PICK ft, fu : /\ ft = FillOrder(e, in, t, i, row, n, session)
                     /\ fu = FillOrder(e, q, u, i, row, n, session)
    OBVIOUS
<1> HIDE DEF o, row, wanted, money, n, crowded, short, unrated
<1>12. Twins(Result(t, ft), Result(u, fu), I)
    BY <1>2, <1>8, <1>9, <1>10, <1>11
<1> HIDE DEF Result
<1> QED  BY <1>1, <1>7, <1>11, <1>12
LEMMA TwinsOrders ==
    ASSUME NEW in, NEW q, NEW session, SameMarket(in, q, session.open),
           NEW t, NEW u, NEW I, Twins(t, u, I), NEW e
    PROVE  Twins(ExecuteOrders(e, in, t, session), ExecuteOrders(e, q, u, session), I)
<1>1. IsFiniteSet(Due(t, session)) /\ Due(u, session) = Due(t, session)
    <2>1. u.pending = t.pending /\ u.orders = t.orders
        BY TwinFields
    <2>2. IsFiniteSet(t.pending)
        BY DEF Twins, IsState
    <2> QED  BY <2>1, <2>2, FS_Subset DEF Due
<1>2. PICK n \in Nat : n = Cardinality(Due(t, session))
    BY <1>1, FS_CardinalityType
<1>3. PICK seq : seq = InOrder(Due(t, session))
    OBVIOUS
<1>4. DOMAIN seq = 1..n
    BY <1>2, <1>3 DEF InOrder, Sorted
<1>5. PICK t0, u0 : t0 = Taken(t, session) /\ u0 = Taken(u, session)
    OBVIOUS
<1>6. Twins(t0, u0, I)
    <2>1. IsFiniteSet(t.pending \ Due(t, session)) /\ u.pending = t.pending
        BY FS_Subset, TwinFields DEF Twins, IsState
    <2> QED  BY <1>1, <1>5, <2>1 DEF Twins, IsState, StateFields, Taken
<1>7. PICK tr : /\ Traces(tr, "order", <<e, in, session>>, t0, seq, n)
                /\ tr[n] = OrderFold(e, in, session, t0, seq)
    BY <1>4, OrderTrace
<1>8. PICK ur : /\ Traces(ur, "order", <<e, q, session>>, u0, seq, n)
                /\ ur[n] = OrderFold(e, q, session, u0, seq)
    BY <1>4, OrderTrace
<1>9. tr[n] = ExecuteOrders(e, in, t, session)
    BY <1>3, <1>5, <1>7, Zenon DEF ExecuteOrders, OrderFold, Taken
<1>10. ur[n] = ExecuteOrders(e, q, u, session)
    BY <1>1, <1>3, <1>5, <1>8, Zenon DEF ExecuteOrders, OrderFold, Taken
<1> DEFINE M == {m \in 0..n : Twins(tr[m], ur[m], I)}
<1>11. 0 \in M
    <2>1. tr[0] = t0 /\ ur[0] = u0
        BY <1>7, <1>8 DEF Traces
    <2> QED  BY <1>6, <2>1
<1>12. ASSUME NEW m \in 0..n, m < n, m \in M PROVE m + 1 \in M
    <2>1. /\ tr[m + 1] = FoldStep("order", <<e, in, session>>, tr[m], seq[m + 1])
          /\ ur[m + 1] = FoldStep("order", <<e, q, session>>, ur[m], seq[m + 1])
        BY <1>7, <1>8, <1>12 DEF Traces
    <2>2. /\ tr[m + 1] = ExecuteOrder(e, in, session, tr[m], seq[m + 1])
          /\ ur[m + 1] = ExecuteOrder(e, q, session, ur[m], seq[m + 1])
        BY <2>1 DEF FoldStep
    <2>3. Twins(tr[m], ur[m], I)
        BY <1>12
    <2>4. Twins(tr[m + 1], ur[m + 1], I)
        BY <2>2, <2>3, TwinsOrder
    <2> QED  BY <2>4, <1>12
<1>13. n \in M
    <2> HIDE DEF M
    <2>1. 0..n \subseteq M
        BY <1>11, <1>12, UpTo
    <2> QED  BY <2>1
<1> QED  BY <1>9, <1>10, <1>13

\* What an account is worth is the sum of what its parts are.
LEMMA CashWorthOf ==
    ASSUME NEW in, NEW st, NEW base, NEW asOf, NEW M, NEW v,
           \A c \in M : v[c] = Convert(in, st.cash[c], c, base, asOf)
    PROVE  CashWorth(in, st, base, asOf, M) = Total(v, M)
<1> DEFINE x(c) == Convert(in, st.cash[c], c, base, asOf)
           IsV(g) == g = [s \in SUBSET M |-> IF s = {} THEN 0 ELSE g[s \ {Picked(s)}] + v[Picked(s)]]
           IsW(g) == g = [s \in SUBSET M |-> IF s = {} THEN 0 ELSE g[s \ {Picked(s)}] + x(Picked(s))]
<1>1. \A c \in M : v[c] = x(c)
    OBVIOUS
<1>2. CashWorth(in, st, base, asOf, M) = (CHOOSE g : IsW(g))[M]
    BY Zenon DEF CashWorth, SumOver, FoldSet, MapThenFoldSet, Picked
<1> HIDE DEF x
<1>3. \A s \in SUBSET M : s # {} => v[Picked(s)] = x(Picked(s))
    BY <1>1 DEF Picked
<1>4. ASSUME NEW g PROVE IsV(g) <=> IsW(g)
    <2>1. \A s \in SUBSET M : (IF s = {} THEN 0 ELSE g[s \ {Picked(s)}] + v[Picked(s)])
                                = (IF s = {} THEN 0 ELSE g[s \ {Picked(s)}] + x(Picked(s)))
        BY <1>3, Zenon
    <2> QED  BY <2>1, Zenon
<1>5. (CHOOSE g : IsV(g)) = (CHOOSE g : IsW(g))
    <2> HIDE DEF IsV, IsW
    <2> QED  BY <1>4, Zenon
<1>6. Total(v, M) = (CHOOSE g : IsV(g))[M]
    BY Zenon DEF Total, SumOver, FoldSet, MapThenFoldSet, Picked
<1> QED  BY <1>2, <1>5, <1>6, Zenon

LEMMA HeldWorthOf ==
    ASSUME NEW in, NEW st, NEW base, NEW session, NEW H, NEW v,
           \A s \in H : v[s] = Convert(in, st.qty[s] * PriceRow(in, s, session.date, session.close).close,
                                       PriceRow(in, s, session.date, session.close).currency, base,
                                       session.close)
    PROVE  HeldWorth(in, st, base, session, H) = Total(v, H)
<1> DEFINE x(s) == Convert(in, st.qty[s] * PriceRow(in, s, session.date, session.close).close,
                           PriceRow(in, s, session.date, session.close).currency, base, session.close)
           IsV(g) == g = [s \in SUBSET H |-> IF s = {} THEN 0 ELSE g[s \ {Picked(s)}] + v[Picked(s)]]
           IsW(g) == g = [s \in SUBSET H |-> IF s = {} THEN 0 ELSE g[s \ {Picked(s)}] + x(Picked(s))]
<1>1. \A s \in H : v[s] = x(s)
    OBVIOUS
<1>2. HeldWorth(in, st, base, session, H) = (CHOOSE g : IsW(g))[H]
    BY Zenon DEF HeldWorth, SumOver, FoldSet, MapThenFoldSet, Picked
<1> HIDE DEF x
<1>3. \A s \in SUBSET H : s # {} => v[Picked(s)] = x(Picked(s))
    BY <1>1 DEF Picked
<1>4. ASSUME NEW g PROVE IsV(g) <=> IsW(g)
    <2>1. \A s \in SUBSET H : (IF s = {} THEN 0 ELSE g[s \ {Picked(s)}] + v[Picked(s)])
                                = (IF s = {} THEN 0 ELSE g[s \ {Picked(s)}] + x(Picked(s)))
        BY <1>3, Zenon
    <2> QED  BY <2>1, Zenon
<1>5. (CHOOSE g : IsV(g)) = (CHOOSE g : IsW(g))
    <2> HIDE DEF IsV, IsW
    <2> QED  BY <1>4, Zenon
<1>6. Total(v, H) = (CHOOSE g : IsV(g))[H]
    BY Zenon DEF Total, SumOver, FoldSet, MapThenFoldSet, Picked
<1> QED  BY <1>2, <1>5, <1>6, Zenon
LEMMA TwinsMark ==
    ASSUME NEW in, NEW q, NEW session, SameMarket(in, q, session.close),
           NEW t, NEW u, NEW I, Twins(t, u, I), NEW e
    PROVE  Twins(Mark(e, in, t, session), Mark(e, q, u, session), I)
<1> DEFINE base      == e.accounting.base_currency
           reporting == e.accounting.reporting_currency
           close(m, s)  == PriceRow(m, s, session.date, session.close)
           value(m, x, s) == Convert(m, x.qty[s] * close(m, s).close, close(m, s).currency, base,
                                     session.close)
           money(x)  == {c \in Currencies : x.cash[c] # 0}
           needed(m, x) == money(x) \cup {close(m, s).currency : s \in Held(x) \cup {e.benchmark}}
           cash(m, x) == SumOver(money(x), LAMBDA c : Convert(m, x.cash[c], c, base, session.close))
           positions(m, x) == SumOver(Held(x), LAMBDA s : value(m, x, s))
           nav(m, x) == cash(m, x) + positions(m, x)
           index(m)  == Convert(m, close(m, e.benchmark).close, close(m, e.benchmark).currency, base,
                                session.close)
           start(m, x) == IF x.benchmark = None THEN index(m) ELSE x.benchmark
           reported(m, x) == IF reporting = None THEN None
                             ELSE Convert(m, nav(m, x), base, reporting, session.close)
           mark(m, x) == [date |-> session.date, cash |-> cash(m, x), positions |-> positions(m, x),
                          nav |-> nav(m, x),
                          benchmark |-> (e.accounting.initial_cash * index(m)) \div start(m, x),
                          partition |-> (CHOOSE p \in DatePartition(e, session.date) : TRUE).kind,
                          reporting |-> reported(m, x)]
           noClose(m, x) == \E s \in Held(x) \cup {e.benchmark} : close(m, s) = None
           noRate(m, x)  == \E c \in needed(m, x) : ~HasRate(m, c, base, session.close)
           poor(m, x)    == nav(m, x) <= 0
           unreported(m) == reporting # None /\ ~HasRate(m, base, reporting, session.close)
           currency(m, x) == [s \in Securities |-> IF s \in Held(x) THEN close(m, s).currency
                                                   ELSE x.currency[s]]
           holding(m, x, s) == [date |-> session.date, security |-> s, qty |-> x.qty[s],
                                value |-> value(m, x, s)]
           holdings(m, x) == x.holdings \cup {holding(m, x, s) : s \in Held(x)}
           idle(m, x) == x.idle + (IF positions(m, x) = 0 THEN 1 ELSE 0)
           row(m, x) == Row(session, "mark", base, positions(m, x), None, 0)
           mid(x, cur, mk, hs, b, n, i) ==
               [x EXCEPT !.currency = cur, !.marks = Append(@, mk), !.holdings = hs,
                         !.benchmark = b, !.nav = n, !.idle = i]
           Result(x, nc, nr, p, ur, done) ==
               IF x.halt # "none" THEN x
               ELSE IF nc THEN Halt(x, "missing close")
               ELSE IF nr THEN Halt(x, "no FX rate")
               ELSE IF p THEN Halt(x, "NAV not positive")
               ELSE IF ur THEN Halt(x, "no FX rate")
               ELSE done
           Done(m, x) == Book(mid(x, currency(m, x), mark(m, x), holdings(m, x), start(m, x),
                                  nav(m, x), idle(m, x)), row(m, x))
<1>1. ASSUME NEW m, NEW x
      PROVE  Mark(e, m, x, session) =
                 Result(x, noClose(m, x), noRate(m, x), poor(m, x), unreported(m), Done(m, x))
    BY Zenon DEF Mark
<1>2. /\ u.qty = t.qty /\ u.cash = t.cash /\ u.halt = t.halt /\ u.benchmark = t.benchmark
      /\ u.currency = t.currency /\ u.holdings = t.holdings /\ u.idle = t.idle
    BY TwinFields
<1>3. /\ \A x, y : HasRate(q, x, y, session.close) <=> HasRate(in, x, y, session.close)
      /\ \A n, x, y : Convert(q, n, x, y, session.close) = Convert(in, n, x, y, session.close)
    BY SameRates
<1>4. \A s : close(q, s) = close(in, s)
    BY DEF SameMarket
<1> HIDE DEF close
<1>5. ASSUME NEW s PROVE value(q, u, s) = value(in, t, s)
    <2>1. PICK n, c : n = t.qty[s] * close(in, s).close /\ c = close(in, s).currency
        OBVIOUS
    <2>2. value(in, t, s) = Convert(in, n, c, base, session.close)
        BY <2>1, Zenon
    <2>3. u.qty[s] * close(q, s).close = n /\ close(q, s).currency = c
        BY <1>2, <1>4, <2>1, Zenon
    <2>4. value(q, u, s) = Convert(q, n, c, base, session.close)
        BY <2>3, Zenon
    <2> HIDE DEF value
    <2> QED  BY <1>3, <2>2, <2>4, Zenon
<1>6. money(u) = money(t) /\ Held(u) = Held(t)
    BY <1>2 DEF Held
<1>7. needed(q, u) = needed(in, t)
    BY <1>4, <1>6, Zenon
<1>8. noClose(q, u) <=> noClose(in, t)
    BY <1>4, <1>6, Zenon
<1>9. noRate(q, u) <=> noRate(in, t)
    <2> HIDE DEF needed
    <2> QED  BY <1>3, <1>7, Zenon
<1>10. unreported(q) <=> unreported(in)
    BY <1>3, Zenon
<1>11. cash(q, u) = cash(in, t)
    <2>1. PICK v : v = [c \in money(t) |-> Convert(in, t.cash[c], c, base, session.close)]
        OBVIOUS
    <2>2. \A m, x : cash(m, x) = CashWorth(m, x, base, session.close, money(x))
        BY Zenon DEF CashWorth
    <2> HIDE DEF cash, money, base
    <2>3. \A c \in money(t) : v[c] = Convert(in, t.cash[c], c, base, session.close)
        BY <2>1
    <2>4. \A c \in money(t) : v[c] = Convert(q, u.cash[c], c, base, session.close)
        <3> TAKE c \in money(t)
        <3>1. v[c] = Convert(in, t.cash[c], c, base, session.close)
            BY <2>3
        <3>2. u.cash[c] = t.cash[c]
            BY <1>2
        <3>3. Convert(q, t.cash[c], c, base, session.close) = Convert(in, t.cash[c], c, base, session.close)
            BY <1>3, Zenon
        <3> QED  BY <3>1, <3>2, <3>3, Zenon
    <2>5. CashWorth(in, t, base, session.close, money(t)) = Total(v, money(t))
        BY <2>3, CashWorthOf
    <2>6. CashWorth(q, u, base, session.close, money(t)) = Total(v, money(t))
        BY <2>4, CashWorthOf
    <2> QED  BY <1>6, <2>2, <2>5, <2>6, Zenon
<1>12. positions(q, u) = positions(in, t)
    <2>1. PICK v : v = [s \in Held(t) |-> value(in, t, s)]
        OBVIOUS
    <2>2. \A m, x : positions(m, x) = HeldWorth(m, x, base, session, Held(x))
        BY Zenon DEF HeldWorth, close
    <2> HIDE DEF positions
    <2>3. \A s \in Held(t) : v[s] = value(in, t, s) /\ v[s] = value(q, u, s)
        <3> HIDE DEF value
        <3> QED  BY <1>5, <2>1
    <2>4. HeldWorth(in, t, base, session, Held(t)) = Total(v, Held(t))
        <3> HIDE DEF base
        <3> QED  BY <2>3, HeldWorthOf DEF close
    <2>5. HeldWorth(q, u, base, session, Held(t)) = Total(v, Held(t))
        <3> HIDE DEF base
        <3> QED  BY <2>3, HeldWorthOf DEF close
    <2> HIDE DEF base
    <2> QED  BY <1>6, <2>2, <2>4, <2>5, Zenon
<1> HIDE DEF cash, positions, value
<1>13. nav(q, u) = nav(in, t) /\ (poor(q, u) <=> poor(in, t))
    <2>1. nav(q, u) = nav(in, t)
        BY <1>11, <1>12, Zenon
    <2> HIDE DEF nav
    <2> QED  BY <2>1, Zenon
<1>14. index(q) = index(in)
    <2>1. PICK n, c : n = close(in, e.benchmark).close /\ c = close(in, e.benchmark).currency
        OBVIOUS
    <2>2. index(in) = Convert(in, n, c, base, session.close)
        BY <2>1, Zenon
    <2>3. close(q, e.benchmark).close = n /\ close(q, e.benchmark).currency = c
        BY <1>4, <2>1, Zenon
    <2>4. index(q) = Convert(q, n, c, base, session.close)
        BY <2>3, Zenon
    <2> HIDE DEF index
    <2> QED  BY <1>3, <2>2, <2>4, Zenon
<1> HIDE DEF index, nav
<1>15. start(q, u) = start(in, t)
    BY <1>2, <1>14, Zenon
<1>16. reported(q, u) = reported(in, t)
    BY <1>3, <1>13, Zenon
<1> HIDE DEF start, reported
<1>17. mark(q, u) = mark(in, t)
    BY <1>11, <1>12, <1>13, <1>14, <1>15, <1>16, Zenon
<1>18. currency(q, u) = currency(in, t)
    BY <1>2, <1>4, <1>6, Zenon
<1>19. holdings(q, u) = holdings(in, t)
    <2>1. \A s : holding(q, u, s) = holding(in, t, s)
        BY <1>2, <1>5, Zenon
    <2> HIDE DEF holding
    <2>2. {holding(q, u, s) : s \in Held(t)} = {holding(in, t, s) : s \in Held(t)}
        BY <2>1, Zenon
    <2> QED  BY <1>2, <1>6, <2>2, Zenon
<1>20. idle(q, u) = idle(in, t) /\ row(q, u) = row(in, t)
    BY <1>2, <1>12, Zenon
<1> HIDE DEF mark, currency, holdings, idle, row, noClose, noRate, poor, unreported, needed, money
<1>21. Twins(Done(in, t), Done(q, u), I)
    <2>1. PICK cur, mk, hs, b, n, i : /\ cur = currency(in, t) /\ mk = mark(in, t) /\ hs = holdings(in, t)
                                      /\ b = start(in, t) /\ n = nav(in, t) /\ i = idle(in, t)
        OBVIOUS
    <2>2. PICK t1, u1 : t1 = mid(t, cur, mk, hs, b, n, i) /\ u1 = mid(u, cur, mk, hs, b, n, i)
        OBVIOUS
    <2>3. Twins(t1, u1, I)
        BY <2>2, ZenonT(60) DEF Twins, IsState, StateFields
    <2> HIDE DEF mid
    <2>4. Done(in, t) = Book(t1, row(in, t))
        BY <2>1, <2>2, Zenon
    <2>5. Done(q, u) = Book(u1, row(in, t))
        BY <1>13, <1>15, <1>17, <1>18, <1>19, <1>20, <2>1, <2>2, Zenon
    <2> HIDE DEF Done
    <2> QED  BY <2>3, <2>4, <2>5, TwinsBook
<1> HIDE DEF Done
<1>22. \A reason : Twins(Halt(t, reason), Halt(u, reason), I)
    BY TwinsHalt
<1>23. ASSUME NEW nc, NEW nr, NEW p, NEW ur
       PROVE  Twins(Result(t, nc, nr, p, ur, Done(in, t)), Result(u, nc, nr, p, ur, Done(q, u)), I)
    BY <1>2, <1>21, <1>22
<1>24. Mark(e, q, u, session) =
           Result(u, noClose(in, t), noRate(in, t), poor(in, t), unreported(in), Done(q, u))
    BY <1>1, <1>8, <1>9, <1>10, <1>13, Zenon
<1>25. Mark(e, in, t, session) =
           Result(t, noClose(in, t), noRate(in, t), poor(in, t), unreported(in), Done(in, t))
    BY <1>1, Zenon
<1> HIDE DEF Result
<1> QED  BY <1>23, <1>24, <1>25, Zenon
LEMMA SameActive ==
    ASSUME NEW in, NEW q, NEW session, SameMarket(in, q, session.close), NEW e
    PROVE  ActiveMembers(e, q, session) = ActiveMembers(e, in, session)
BY Zenon DEF SameMarket, ActiveMembers

LEMMA SameMomentum ==
    ASSUME NEW in, NEW q, NEW sessions, NEW k, SameMarket(in, q, sessions[k].close), NEW e, NEW active
    PROVE  MomentumTargets(e, q, sessions, k, active) = MomentumTargets(e, in, sessions, k, active)
<1> DEFINE parameters == e.strategy.parameters
           end        == k - parameters.skip_sessions
           begin      == end - parameters.lookback_sessions
           close(m, s, i) == PriceRow(m, s, sessions[i].date, sessions[k].close)
           scored(m)  == {s \in active : close(m, s, begin) # None /\ close(m, s, end) # None}
           firstOf(m, s) == close(m, s, begin).close
           last(m, s) == close(m, s, end).close
           beats(m, s, r) == \/ last(m, s) * firstOf(m, r) > last(m, r) * firstOf(m, s)
                             \/ last(m, s) * firstOf(m, r) = last(m, r) * firstOf(m, s) /\ s < r
           ahead(m, s) == {r \in scored(m) : beats(m, r, s)}
           few(m, s) == Cardinality(ahead(m, s)) < parameters.top_k
           best(m) == IF begin < 1 THEN {} ELSE {s \in scored(m) : few(m, s)}
<1>1. \A m : MomentumTargets(e, m, sessions, k, active) = EqualWeightTargets(best(m))
    BY Zenon DEF MomentumTargets
<1>2. \A s, i : close(q, s, i) = close(in, s, i)
    BY DEF SameMarket
<1> HIDE DEF close, begin, end
<1>3. scored(q) = scored(in)
    BY <1>2, Zenon
<1>4. \A s : firstOf(q, s) = firstOf(in, s) /\ last(q, s) = last(in, s)
    BY <1>2, Zenon
<1> HIDE DEF scored, firstOf, last
<1>5. ASSUME NEW s, NEW r PROVE beats(q, s, r) = beats(in, s, r)
    <2>1. /\ firstOf(q, s) = firstOf(in, s) /\ last(q, s) = last(in, s)
          /\ firstOf(q, r) = firstOf(in, r) /\ last(q, r) = last(in, r)
        BY <1>4
    <2>2. /\ last(q, s) * firstOf(q, r) = last(in, s) * firstOf(in, r)
          /\ last(q, r) * firstOf(q, s) = last(in, r) * firstOf(in, s)
        BY <2>1, Zenon
    <2> QED  BY <2>2, Zenon
<1> HIDE DEF beats
<1>6. \A s : ahead(q, s) = ahead(in, s)
    BY <1>3, <1>5, Zenon
<1> HIDE DEF ahead
<1>7. best(q) = best(in)
    <2>1. \A s : few(q, s) = few(in, s)
        BY <1>6, Zenon
    <2> HIDE DEF few
    <2> QED  BY <1>3, <2>1, Zenon
<1> HIDE DEF best
<1> QED  BY <1>1, <1>7, Zenon

LEMMA SameTargets ==
    ASSUME NEW in, NEW q, NEW sessions, NEW k, SameMarket(in, q, sessions[k].close),
           NEW t, NEW u, NEW I, Twins(t, u, I), NEW e
    PROVE  TargetWeights(e, q, sessions, k, u) = TargetWeights(e, in, sessions, k, t)
<1> DEFINE session == sessions[k]
           base    == e.accounting.base_currency
           active(m) == ActiveMembers(e, m, session)
           hold    == e.strategy.name = "buy_and_hold"
           first(x) == hold /\ ~x.held
           due(x)   == RebalanceDue(e, session, x.decided)
           close(m, s) == PriceRow(m, s, session.date, session.close)
           value(m, x, s) == Convert(m, x.qty[s] * close(m, s).close, close(m, s).currency, base,
                                     session.close)
           picked(m, x) == CASE first(x) \/ (due(x) /\ e.strategy.name = "equal_weight") ->
                                    EqualWeightTargets(active(m))
                             [] due(x) /\ e.strategy.name = "momentum_12_1" ->
                                    MomentumTargets(e, m, sessions, k, active(m))
                             [] OTHER -> [of |-> x.nav, weight |-> <<>>]
           kept(m, x) == IF due(x) \/ first(x) THEN {} ELSE Held(x) \cap active(m)
           gone(m, x) == Held(x) \ active(m)
           D(m, x)    == DOMAIN picked(m, x).weight \cup kept(m, x) \cup gone(m, x)
           weight(m, x, s) == CASE s \in gone(m, x) -> 0
                                [] s \in kept(m, x) -> value(m, x, s)
                                [] OTHER -> picked(m, x).weight[s]
           vector(m, x, d) == [s \in d |-> weight(m, x, s)]
<1>1. ASSUME NEW m, NEW x
      PROVE  TargetWeights(e, m, sessions, k, x) =
                 [of |-> picked(m, x).of, weight |-> vector(m, x, D(m, x))]
    BY Zenon DEF TargetWeights
<1>2. u.qty = t.qty /\ u.held = t.held /\ u.decided = t.decided /\ u.nav = t.nav
    BY TwinFields
<1>3. \A n, x, y : Convert(q, n, x, y, session.close) = Convert(in, n, x, y, session.close)
    BY SameRates
<1>4. \A s : close(q, s) = close(in, s)
    BY DEF SameMarket
<1>5. active(q) = active(in)
    BY SameActive
<1>6. MomentumTargets(e, q, sessions, k, active(in)) = MomentumTargets(e, in, sessions, k, active(in))
    BY SameMomentum
<1> HIDE DEF close, active, session
<1>7. ASSUME NEW s PROVE value(q, u, s) = value(in, t, s)
    <2>1. PICK n, c : n = t.qty[s] * close(in, s).close /\ c = close(in, s).currency
        OBVIOUS
    <2>2. value(in, t, s) = Convert(in, n, c, base, session.close)
        BY <2>1, Zenon
    <2>3. u.qty[s] * close(q, s).close = n /\ close(q, s).currency = c
        BY <1>2, <1>4, <2>1, Zenon
    <2>4. value(q, u, s) = Convert(q, n, c, base, session.close)
        BY <2>3, Zenon
    <2> HIDE DEF value
    <2> QED  BY <1>3, <2>2, <2>4, Zenon
<1>8. first(u) = first(t) /\ due(u) = due(t) /\ Held(u) = Held(t)
    BY <1>2, Zenon DEF Held
<1> HIDE DEF value, first, due
<1>9. picked(q, u) = picked(in, t)
    <2>1. MomentumTargets(e, q, sessions, k, active(q)) = MomentumTargets(e, in, sessions, k, active(in))
        BY <1>5, <1>6, Zenon
    <2>2. EqualWeightTargets(active(q)) = EqualWeightTargets(active(in))
        BY <1>5, Zenon
    <2> QED  BY <1>2, <1>8, <2>1, <2>2, Zenon
<1>10. kept(q, u) = kept(in, t) /\ gone(q, u) = gone(in, t)
    BY <1>5, <1>8, Zenon
<1> HIDE DEF picked, kept, gone
<1>11. D(q, u) = D(in, t)
    BY <1>9, <1>10, Zenon
<1>12. \A s : weight(q, u, s) = weight(in, t, s)
    BY <1>7, <1>9, <1>10, Zenon
<1> HIDE DEF D, weight
<1>13. vector(q, u, D(q, u)) = vector(in, t, D(in, t))
    <2>1. \A d : vector(q, u, d) = vector(in, t, d)
        BY <1>12
    <2> HIDE DEF vector
    <2> QED  BY <1>11, <2>1, Zenon
<1> HIDE DEF vector
<1> QED  BY <1>1, <1>9, <1>13, Zenon

LEMMA SameQuantity ==
    ASSUME NEW in, NEW q, NEW session, SameMarket(in, q, session.close),
           NEW t, NEW u, NEW I, Twins(t, u, I), NEW e, NEW targets, NEW s
    PROVE  TargetQuantity(e, q, session, u, targets, s) = TargetQuantity(e, in, session, t, targets, s)
<1> DEFINE price(m) == PriceRow(m, s, session.date, session.close)
           weight   == IF s \in DOMAIN targets.weight THEN targets.weight[s] ELSE 0
           base     == e.accounting.base_currency
           worth(m, x) == Convert(m, x.nav * weight, base, price(m).currency, session.close)
<1>1. \A m, x : TargetQuantity(e, m, session, x, targets, s) = worth(m, x) \div (targets.of * price(m).close)
    BY Zenon DEF TargetQuantity
<1>2. u.nav = t.nav /\ price(q) = price(in)
    BY TwinFields DEF SameMarket
<1>3. \A n, x, y : Convert(q, n, x, y, session.close) = Convert(in, n, x, y, session.close)
    BY SameRates
<1> HIDE DEF price, weight, base
<1>4. worth(q, u) = worth(in, t)
    <2>1. PICK n, c : n = t.nav * weight /\ c = price(in).currency
        OBVIOUS
    <2>2. worth(in, t) = Convert(in, n, base, c, session.close)
        BY <2>1, Zenon
    <2>3. worth(q, u) = Convert(q, n, base, c, session.close)
        BY <1>2, <2>1, Zenon
    <2> HIDE DEF worth
    <2> QED  BY <1>3, <2>2, <2>3, Zenon
<1> HIDE DEF worth
<1> QED  BY <1>1, <1>2, <1>4, Zenon

LEMMA TwinsPlace ==
    ASSUME NEW in, NEW q, NEW session, SameMarket(in, q, session.close),
           NEW t, NEW u, NEW I, Twins(t, u, I), NEW e, NEW targets, NEW next, NEW s
    PROVE  Twins(PlaceOrder(e, in, session, next, t, targets, s),
                 PlaceOrder(e, q, session, next, u, targets, s), I)
<1> DEFINE price(m) == PriceRow(m, s, session.date, session.close)
           delta(m, x) == TargetQuantity(e, m, session, x, targets, s) - x.qty[s]
           order(d, row) == [decision |-> session.date, execution |-> next.date, security |-> s,
                             side |-> IF d > 0 THEN "buy" ELSE "sell", qty |-> Larger(d, -d),
                             currency |-> row.currency, status |-> "proposed"]
           mid(x, o) == [x EXCEPT !.orders = Append(@, o), !.pending = @ \cup {Len(x.orders) + 1}]
           Result(x, d, row) == IF d = 0 THEN x
                                ELSE Book(mid(x, order(d, row)), Row(session, "order", row.currency, 0, s, d))
<1>1. \A m, x : PlaceOrder(e, m, session, next, x, targets, s) = Result(x, delta(m, x), price(m))
    BY Zenon DEF PlaceOrder
<1>2. price(q) = price(in)
    BY DEF SameMarket
<1>3. delta(q, u) = delta(in, t)
    <2>1. TargetQuantity(e, q, session, u, targets, s) = TargetQuantity(e, in, session, t, targets, s)
        BY SameQuantity
    <2>2. u.qty = t.qty
        BY TwinFields
    <2> QED  BY <2>1, <2>2, Zenon
<1>4. PICK d, row : d = delta(in, t) /\ row = price(in)
    OBVIOUS
<1>5. PICK o, r : o = order(d, row) /\ r = Row(session, "order", row.currency, 0, s, d)
    OBVIOUS
<1>6. Twins(mid(t, o), mid(u, o), I)
    <2>0. u.pending = t.pending /\ u.orders = t.orders
        BY TwinFields
    <2>1. IsFiniteSet(t.pending \cup {Len(t.orders) + 1})
        BY FS_AddElement DEF Twins, IsState
    <2> QED  BY <2>0, <2>1 DEF Twins, IsState, StateFields
<1>7. PICK t1, u1 : t1 = mid(t, o) /\ u1 = mid(u, o)
    OBVIOUS
<1>8. Twins(Book(t1, r), Book(u1, r), I)
    BY <1>6, <1>7, TwinsBook
<1>9. /\ Result(t, d, row) = IF d = 0 THEN t ELSE Book(t1, r)
      /\ Result(u, d, row) = IF d = 0 THEN u ELSE Book(u1, r)
    BY <1>5, <1>7, Zenon
<1> HIDE DEF Result, delta, price
<1>10. Twins(Result(t, d, row), Result(u, d, row), I)
    BY <1>8, <1>9
<1> QED  BY <1>1, <1>2, <1>3, <1>4, <1>10, Zenon
LEMMA TwinsPlaces ==
    ASSUME NEW in, NEW q, NEW session, SameMarket(in, q, session.close),
           NEW t, NEW u, NEW I, Twins(t, u, I), NEW e, NEW targets, NEW next,
           NEW n \in Nat, NEW seq, DOMAIN seq = 1..n
    PROVE  Twins(PlaceFold(e, in, session, next, targets, t, seq),
                 PlaceFold(e, q, session, next, targets, u, seq), I)
<1>1. PICK tr : /\ Traces(tr, "place", <<e, in, session, next, targets>>, t, seq, n)
                /\ tr[n] = PlaceFold(e, in, session, next, targets, t, seq)
    BY PlaceTrace
<1>2. PICK ur : /\ Traces(ur, "place", <<e, q, session, next, targets>>, u, seq, n)
                /\ ur[n] = PlaceFold(e, q, session, next, targets, u, seq)
    BY PlaceTrace
<1> DEFINE M == {m \in 0..n : Twins(tr[m], ur[m], I)}
<1>3. 0 \in M
    <2>1. tr[0] = t /\ ur[0] = u
        BY <1>1, <1>2 DEF Traces
    <2> QED  BY <2>1
<1>4. ASSUME NEW m \in 0..n, m < n, m \in M PROVE m + 1 \in M
    <2>1. /\ tr[m + 1] = FoldStep("place", <<e, in, session, next, targets>>, tr[m], seq[m + 1])
          /\ ur[m + 1] = FoldStep("place", <<e, q, session, next, targets>>, ur[m], seq[m + 1])
        BY <1>1, <1>2, <1>4 DEF Traces
    <2>2. /\ tr[m + 1] = PlaceOrder(e, in, session, next, tr[m], targets, seq[m + 1])
          /\ ur[m + 1] = PlaceOrder(e, q, session, next, ur[m], targets, seq[m + 1])
        BY <2>1 DEF FoldStep
    <2>3. Twins(tr[m], ur[m], I)
        BY <1>4
    <2>4. Twins(tr[m + 1], ur[m + 1], I)
        BY <2>2, <2>3, TwinsPlace
    <2> QED  BY <2>4, <1>4
<1>5. n \in M
    <2> HIDE DEF M
    <2>1. 0..n \subseteq M
        BY <1>3, <1>4, UpTo
    <2> QED  BY <2>1
<1> QED  BY <1>1, <1>2, <1>5

LEMMA TwinsDecide ==
    ASSUME NEW in, NEW q, NEW sessions, NEW k, SameMarket(in, q, sessions[k].close),
           NEW t, NEW u, NEW I, Twins(t, u, I), NEW e, IsFiniteSet(e.universe)
    PROVE  Twins(Decide(e, in, sessions, k, t), Decide(e, q, sessions, k, u), I)
<1> DEFINE session  == sessions[k]
           base     == e.accounting.base_currency
           targets(m, x) == TargetWeights(e, m, sessions, k, x)
           chosen(m, x)  == Sorted(DOMAIN targets(m, x).weight \cup Held(x), LAMBDA s, r : s < r)
           cur(m, s) == PriceRow(m, s, session.date, session.close).currency
           checked(m, x) == \/ e.strategy.name = "buy_and_hold"
                            \/ RebalanceDue(e, session, x.decided)
                            \/ \E s \in DOMAIN targets(m, x).weight : targets(m, x).weight[s] = 0
           held(x)  == x.held \/ e.strategy.name = "buy_and_hold"
           currency(m, x) == [s \in Securities |-> IF s \in ToSet(chosen(m, x)) THEN cur(m, s)
                                                   ELSE x.currency[s]]
           decided(x, h, c) == [x EXCEPT !.decided = session.date, !.held = h, !.currency = c]
           unknown(m) == \E s \in e.universe :
                            Cardinality(MembershipState(m, s, session.date, session.close)) # 1
           over(m, x) == checked(m, x) /\ ~WithinLimits(e, targets(m, x))
           lacks(m, s) == ~HasRate(m, base, cur(m, s), session.close)
           unrated(m, x) == \E s \in ToSet(chosen(m, x)) : lacks(m, s)
           placed(m, x) == PlaceFold(e, m, session, sessions[k + 1], targets(m, x),
                                     decided(x, held(x), currency(m, x)), chosen(m, x))
           Result(x, uk, ov, ur, done) ==
               IF x.halt # "none" THEN x
               ELSE IF uk THEN Halt(x, "membership unavailable")
               ELSE IF ov THEN Halt(x, "target exceeds a limit")
               ELSE IF ur THEN Halt(x, "no FX rate")
               ELSE done
<1>1. ASSUME NEW m, NEW x
      PROVE  Decide(e, m, sessions, k, x) =
                 Result(x, unknown(m), over(m, x), unrated(m, x), placed(m, x))
    BY Zenon DEF Decide, PlaceFold
<1>2. /\ u.qty = t.qty /\ u.held = t.held /\ u.decided = t.decided /\ u.halt = t.halt
      /\ u.currency = t.currency
    BY TwinFields
<1>3. \A x, y : HasRate(q, x, y, session.close) = HasRate(in, x, y, session.close)
    BY Zenon DEF SameMarket, HasRate
<1>4. \A s : cur(q, s) = cur(in, s)
    BY DEF SameMarket
<1>5. unknown(q) = unknown(in)
    BY Zenon DEF SameMarket
<1>6. targets(q, u) = targets(in, t)
    BY SameTargets
<1>7. Held(u) = Held(t)
    BY <1>2, Zenon DEF Held
<1>8. PICK n \in Nat : DOMAIN chosen(in, t) = 1..n
    <2>1. IsFiniteSet(DOMAIN targets(in, t).weight \cup Held(t))
        BY SecuritiesAssumption, TargetsAreFinite
    <2>2. Cardinality(DOMAIN targets(in, t).weight \cup Held(t)) \in Nat
        BY <2>1, FS_CardinalityType
    <2> QED  BY <2>2 DEF Sorted
<1> HIDE DEF cur, targets, unknown
<1>9. chosen(q, u) = chosen(in, t)
    BY <1>6, <1>7, Zenon
<1>10. checked(q, u) = checked(in, t)
    BY <1>2, <1>6, Zenon
<1>11. held(u) = held(t)
    BY <1>2, Zenon
<1> HIDE DEF chosen, checked, held
<1>12. over(q, u) = over(in, t)
    BY <1>6, <1>10, Zenon
<1>13. unrated(q, u) = unrated(in, t)
    <2>1. ASSUME NEW s PROVE lacks(q, s) = lacks(in, s)
        <3>1. PICK c : c = cur(in, s) /\ c = cur(q, s)
            BY <1>4
        <3>2. HasRate(q, base, c, session.close) = HasRate(in, base, c, session.close)
            BY <1>3, Zenon
        <3> QED  BY <3>1, <3>2, Zenon
    <2> HIDE DEF lacks
    <2> QED  BY <1>9, <2>1, Zenon
<1>14. currency(q, u) = currency(in, t)
    BY <1>2, <1>4, <1>9, Zenon
<1> HIDE DEF over, unrated, currency
<1>15. Twins(placed(in, t), placed(q, u), I)
    <2>1. PICK h, c : h = held(t) /\ c = currency(in, t)
        OBVIOUS
    <2>2. PICK t1, u1 : t1 = decided(t, h, c) /\ u1 = decided(u, h, c)
        OBVIOUS
    <2>3. Twins(t1, u1, I)
        BY <2>2 DEF Twins, IsState, StateFields
    <2>4. PICK ts, seq, next : ts = targets(in, t) /\ seq = chosen(in, t) /\ next = sessions[k + 1]
        OBVIOUS
    <2>5. placed(in, t) = PlaceFold(e, in, session, next, ts, t1, seq)
        BY <2>1, <2>2, <2>4, Zenon
    <2>6. placed(q, u) = PlaceFold(e, q, session, next, ts, u1, seq)
        BY <1>6, <1>9, <1>11, <1>14, <2>1, <2>2, <2>4, Zenon
    <2> HIDE DEF placed, session
    <2>7. SameMarket(in, q, session.close)
        BY DEF session
    <2>8. DOMAIN seq = 1..n
        BY <1>8, <2>4, Zenon
    <2>9. Twins(PlaceFold(e, in, session, next, ts, t1, seq),
                PlaceFold(e, q, session, next, ts, u1, seq), I)
        BY <2>3, <2>7, <2>8, TwinsPlaces
    <2> QED  BY <2>5, <2>6, <2>9
<1> HIDE DEF placed
<1>16. \A reason : Twins(Halt(t, reason), Halt(u, reason), I)
    BY TwinsHalt
<1>17. ASSUME NEW uk, NEW ov, NEW ur
       PROVE  Twins(Result(t, uk, ov, ur, placed(in, t)), Result(u, uk, ov, ur, placed(q, u)), I)
    BY <1>2, <1>15, <1>16
<1>18. Decide(e, q, sessions, k, u) =
           Result(u, unknown(in), over(in, t), unrated(in, t), placed(q, u))
    BY <1>1, <1>5, <1>12, <1>13, Zenon
<1>19. Decide(e, in, sessions, k, t) =
           Result(t, unknown(in), over(in, t), unrated(in, t), placed(in, t))
    BY <1>1, Zenon
<1> HIDE DEF Result
<1> QED  BY <1>17, <1>18, <1>19, Zenon
-----------------------------------------------------------------------------
(***************************************************************************)
(* Corporate actions.  The events of q are those of in that it has, in the *)
(* same order, so the run over in meets them one after the other; what it  *)
(* meets in between comes too late to change anything but processed.       *)
(***************************************************************************)
Firsts(s, i) == {s[j] : j \in 1..i}

LEMMA NextOfPart ==
    ASSUME NEW s, NEW S, NEW R, NEW n \in Nat, Enumerates(s, S, R, n),
           NEW z, NEW Z, NEW Q, NEW l \in Nat, Enumerates(z, Z, Q, l),
           Z \subseteq S, Q \subseteq R, \A x, y : ~(<<x, y>> \in R /\ <<y, x>> \in R),
           NEW i \in 0..n, i < n, NEW m \in 0..l, Firsts(z, m) = Firsts(s, i) \cap Z,
           s[i + 1] \in Z
    PROVE  m < l /\ z[m + 1] = s[i + 1]
<1>1. PICK a : a = s[i + 1]
    OBVIOUS
<1>2. PICK p \in 1..l : a = z[p]
    BY <1>1 DEF Enumerates
<1>3. a \notin Firsts(s, i)
    <2>1. ASSUME NEW j \in 1..i PROVE s[j] # a
        <3>1. j \in 1..n /\ i + 1 \in 1..n /\ j < i + 1
            OBVIOUS
        <3> QED  BY <1>1, <3>1 DEF Enumerates
    <2> QED  BY <2>1 DEF Firsts
<1>4. p > m
    <2>1. a \notin Firsts(z, m)
        BY <1>3
    <2>2. p \notin 1..m
        BY <1>2, <2>1 DEF Firsts
    <2> QED  BY <2>2
<1>5. m < l /\ m + 1 \in 1..l
    BY <1>4
<1>6. ASSUME m + 1 # p PROVE FALSE
    <2>1. PICK b : b = z[m + 1]
        OBVIOUS
    <2>2. m + 1 < p
        BY <1>4, <1>6
    <2>3. <<b, a>> \in Q /\ b # a
        BY <1>2, <1>5, <2>1, <2>2 DEF Enumerates
    <2>4. b \in Z /\ b \in S
        BY <1>5, <2>1 DEF Enumerates
    <2>5. b \notin Firsts(z, m)
        <3>1. ASSUME NEW j \in 1..m PROVE z[j] # b
            <4>1. j \in 1..l /\ j < m + 1
                BY <1>5
            <4> QED  BY <1>5, <2>1, <4>1 DEF Enumerates
        <3> QED  BY <3>1 DEF Firsts
    <2>6. PICK j \in 1..n : b = s[j]
        BY <2>4 DEF Enumerates
    <2>7. j \notin 1..i
        BY <2>4, <2>5, <2>6 DEF Firsts
    <2>8. j # i + 1
        BY <1>1, <2>3, <2>6
    <2>9. i + 1 < j /\ i + 1 \in 1..n
        BY <2>7, <2>8
    <2>10. <<a, b>> \in R
        BY <1>1, <2>6, <2>9 DEF Enumerates
    <2> QED  BY <2>3, <2>10
<1> QED  BY <1>1, <1>2, <1>5, <1>6

LEMMA PartIsDone ==
    ASSUME NEW z, NEW Z, NEW Q, NEW l \in Nat, Enumerates(z, Z, Q, l),
           NEW m \in 0..l, Z \subseteq Firsts(z, m)
    PROVE  m = l
<1> SUFFICES ASSUME m # l PROVE FALSE
    OBVIOUS
<1>1. m + 1 \in 1..l
    OBVIOUS
<1>2. z[m + 1] \in Z
    BY <1>1 DEF Enumerates
<1>3. PICK j \in 1..m : z[j] = z[m + 1]
    BY <1>2 DEF Firsts
<1>4. j \in 1..l /\ j < m + 1
    OBVIOUS
<1> QED  BY <1>1, <1>3, <1>4 DEF Enumerates

\* The events of a date, and their order.
HappensOn(a, date) == date = IF a.type = "cash_dividend" THEN a.payment ELSE a.effective

EventsOn(in, date) == {a \in in.corporate_actions : HappensOn(a, date)}

Before(a, b) == \/ Priority(a) < Priority(b)
                \/ Priority(a) = Priority(b) /\ a.id < b.id

Precedes(S) == {p \in S \X S : Before(p[1], p[2])}

LEMMA EventsOrdered ==
    ASSUME NEW e, NEW in, Sound(e, in), IsFiniteSet(in.corporate_actions), NEW date
    PROVE  /\ Orders(Precedes(EventsOn(in, date)), EventsOn(in, date))
           /\ \E n \in Nat : Enumerates(ActionEvents(in, date), EventsOn(in, date),
                                        Precedes(EventsOn(in, date)), n)
<1> DEFINE S == EventsOn(in, date)
           R == Precedes(S)
<1>1. IsFiniteSet(S)
    BY FS_Subset DEF EventsOn
<1>2. PICK n \in Nat : n = Cardinality(S)
    BY <1>1, FS_CardinalityType
<1>3. \A a \in S : Priority(a) \in Int /\ a.id \in Int
    BY DEF Sound, TypedInputs, Priority, EventsOn
<1>4. \A a, b \in S : a.id = b.id => a = b
    BY DEF Sound, EventsOn
<1> HIDE DEF S
<1>5. \A a, b \in S : <<a, b>> \in R <=> Before(a, b)
    BY DEF Precedes
<1> HIDE DEF R
<1>6. Orders(R, S)
    <2>1. \A a \in S : <<a, a>> \notin R
        BY <1>3, <1>5 DEF Before
    <2>2. ASSUME NEW a \in S, NEW b \in S, NEW c \in S, Before(a, b), Before(b, c) PROVE Before(a, c)
        <3>1. /\ Priority(a) \in Int /\ Priority(b) \in Int /\ Priority(c) \in Int
              /\ a.id \in Int /\ b.id \in Int /\ c.id \in Int
            BY <1>3
        <3> QED  BY <2>2, <3>1 DEF Before
    <2>3. ASSUME NEW a \in S, NEW b \in S, a # b PROVE Before(a, b) \/ Before(b, a)
        <3>1. /\ Priority(a) \in Int /\ Priority(b) \in Int /\ a.id \in Int /\ b.id \in Int
              /\ a.id # b.id
            BY <1>3, <1>4, <2>3
        <3> QED  BY <3>1 DEF Before
    <2> QED  BY <1>5, <2>1, <2>2, <2>3 DEF Orders
<1>7. \A a \in S : Below(R, S, a) = {b \in S : Before(b, a)}
    BY <1>5 DEF Below
<1> DEFINE x(i) == CHOOSE a \in S : Cardinality({b \in S : Before(b, a)}) = i - 1
<1>8. ActionEvents(in, date) = [i \in 1..n |-> x(i)]
    BY <1>2, Zenon DEF ActionEvents, Sorted, S, EventsOn, HappensOn, Before
<1>9. \A i : x(i) = CHOOSE a \in S : Cardinality(Below(R, S, a)) = i - 1
    BY <1>7
<1>10. PICK s : s = ActionEvents(in, date)
    OBVIOUS
<1>11. s = [i \in 1..n |-> CHOOSE a \in S : Cardinality(Below(R, S, a)) = i - 1]
    <2> HIDE DEF x
    <2> QED  BY <1>8, <1>9, <1>10, Zenon
<1>12. Enumerates(s, S, R, n)
    BY <1>1, <1>2, <1>6, <1>11, SortedEnumerates
<1> QED  BY <1>6, <1>10, <1>12 DEF R, S
LEMMA EarlierIsSound ==
    ASSUME NEW e, NEW in, Sound(e, in), IsFiniteSet(in.corporate_actions), NEW T,
           NEW q, q = AvailableBy(in, T)
    PROVE  Sound(e, q) /\ IsFiniteSet(q.corporate_actions)
<1>1. /\ q.prices \subseteq in.prices /\ q.membership \subseteq in.membership /\ q.fx \subseteq in.fx
      /\ q.corporate_actions \subseteq in.corporate_actions /\ q.calendar = in.calendar
    BY EarlierRows
<1>2. IsFiniteSet(q.corporate_actions)
    BY <1>1, FS_Subset
<1>3. TypedInputs(q)
    BY <1>1 DEF Sound, TypedInputs
<1>4. \A r \in q.prices : r.low > 0 /\ {r.open, r.close} \subseteq r.low..r.high
    BY <1>1 DEF Sound
<1>5. \A a \in q.corporate_actions : SoundAction(a)
    BY <1>1 DEF Sound
<1>6. \A a, b \in q.corporate_actions : a.id = b.id => a = b
    BY <1>1 DEF Sound
<1>7. \A r \in q.fx : r.rate > 0
    BY <1>1 DEF Sound
<1> QED  BY <1>1, <1>2, <1>3, <1>4, <1>5, <1>6, <1>7 DEF Sound

LEMMA TwinsAction ==
    ASSUME NEW in, NEW q, NEW session, SameMarket(in, q, session.open),
           NEW t, NEW u, NEW I, Twins(t, u, I), NEW e, NEW a, a.id \in I
    PROVE  Twins(ApplyAction(e, in, session, t, a), ApplyAction(e, q, session, u, a), I)
<1> DEFINE n == t.qty[a.security]
           base == e.accounting.base_currency
           split == (n * a.numerator) \div a.denominator
           done(x) == [x EXCEPT !.processed = @ \cup {a.id}]
           gain(x, p) == [done(x) EXCEPT !.cash[a.currency] = @ + n * p]
           unrated(m) == ~HasRate(m, a.currency, base, session.open)
           r1 == Row(session, "split", a.currency, 0, a.security, split - n)
           r2 == Row(session, "dividend", a.currency, n * a.cash, a.security, n)
           r3 == Row(session, "delisting", a.currency, n * a.settlement, a.security, -n)
           Result(x, past, foreign, ur, d, s, g, l) ==
               IF x.halt # "none" \/ past THEN x
               ELSE IF n = 0 THEN d
               ELSE IF a.available > session.open THEN Halt(x, "action not available")
               ELSE IF foreign THEN Halt(x, "action currency")
               ELSE IF a.type = "split" THEN Book(s, r1)
               ELSE IF ur THEN Halt(x, "no FX rate")
               ELSE IF a.type = "cash_dividend" THEN Book(g, r2)
               ELSE IF a.settlement = None THEN Halt(x, "no settlement price")
               ELSE Book(l, r3)
           past(x) == a.id \in x.processed
           foreign(x) == x.currency[a.security] # a.currency
           splitted(x) == [done(x) EXCEPT !.qty[a.security] = split]
           left(x) == [gain(x, a.settlement) EXCEPT !.qty[a.security] = 0]
<1>1. ASSUME NEW m, NEW x, x.qty = t.qty
      PROVE  ApplyAction(e, m, session, x, a) =
                 Result(x, past(x), foreign(x), unrated(m), done(x), splitted(x), gain(x, a.cash), left(x))
    <2>1. x.qty[a.security] = n
        BY <1>1
    <2> HIDE DEF n
    <2> QED  BY <2>1 DEF ApplyAction
<1>2. u.qty = t.qty /\ u.currency = t.currency /\ u.halt = t.halt
    BY TwinFields
<1>3. past(u) = past(t)
    BY DEF Twins
<1>4. unrated(q) = unrated(in)
    BY Zenon DEF SameMarket, HasRate
<1>5. foreign(u) = foreign(t)
    BY <1>2, Zenon
<1>6. Twins(done(t), done(u), I)
    BY DEF Twins, IsState, StateFields
<1>7. PICK t1, u1 : t1 = done(t) /\ u1 = done(u)
    OBVIOUS
<1>8. Twins(t1, u1, I)
    BY <1>6, <1>7
<1> HIDE DEF done, n, split, unrated, foreign, past
<1>9. Twins(splitted(t), splitted(u), I)
    <2>1. Twins([t1 EXCEPT !.qty[a.security] = split], [u1 EXCEPT !.qty[a.security] = split], I)
        BY <1>8 DEF Twins, IsState, StateFields
    <2> QED  BY <1>7, <2>1, Zenon
<1>10. ASSUME NEW p PROVE Twins(gain(t, p), gain(u, p), I)
    <2>1. Twins([t1 EXCEPT !.cash[a.currency] = @ + n * p], [u1 EXCEPT !.cash[a.currency] = @ + n * p], I)
        <3>1. PICK x : x = n * p
            OBVIOUS
        <3>2. Twins([t1 EXCEPT !.cash[a.currency] = @ + x], [u1 EXCEPT !.cash[a.currency] = @ + x], I)
            BY <1>8 DEF Twins, IsState, StateFields
        <3> QED  BY <3>1, <3>2, Zenon
    <2> QED  BY <1>7, <2>1, Zenon
<1> HIDE DEF gain, splitted
<1>11. Twins(left(t), left(u), I)
    <2>1. PICK t2, u2 : t2 = gain(t, a.settlement) /\ u2 = gain(u, a.settlement)
        OBVIOUS
    <2>2. Twins(t2, u2, I)
        BY <1>10, <2>1
    <2>3. Twins([t2 EXCEPT !.qty[a.security] = 0], [u2 EXCEPT !.qty[a.security] = 0], I)
        BY <2>2 DEF Twins, IsState, StateFields
    <2> QED  BY <2>1, <2>3, Zenon
<1> HIDE DEF left, r1, r2, r3
<1>12. \A reason : Twins(Halt(t, reason), Halt(u, reason), I)
    BY TwinsHalt
<1>13. /\ Twins(Book(splitted(t), r1), Book(splitted(u), r1), I)
       /\ Twins(Book(gain(t, a.cash), r2), Book(gain(u, a.cash), r2), I)
       /\ Twins(Book(left(t), r3), Book(left(u), r3), I)
    BY <1>9, <1>10, <1>11, TwinsBook
<1>14. ASSUME NEW ps, NEW fo, NEW ur
       PROVE  Twins(Result(t, ps, fo, ur, done(t), splitted(t), gain(t, a.cash), left(t)),
                    Result(u, ps, fo, ur, done(u), splitted(u), gain(u, a.cash), left(u)), I)
    BY <1>2, <1>6, <1>12, <1>13
<1> HIDE DEF Result
<1>15. ApplyAction(e, in, session, t, a) =
           Result(t, past(t), foreign(t), unrated(in), done(t), splitted(t), gain(t, a.cash), left(t))
    BY <1>1, Zenon
<1>16. ApplyAction(e, q, session, u, a) =
           Result(u, past(t), foreign(t), unrated(in), done(u), splitted(u), gain(u, a.cash), left(u))
    BY <1>1, <1>2, <1>3, <1>4, <1>5, Zenon
<1> QED  BY <1>14, <1>15, <1>16, Zenon

\* An action that comes after the open does nothing, or it ends the run.
LEMMA LateAction ==
    ASSUME NEW in, NEW session, NEW t, NEW u, NEW I, Twins(t, u, I), NEW e,
           NEW a, a.id \notin I, a.available > session.open,
           ApplyAction(e, in, session, t, a).halt = "none"
    PROVE  Twins(ApplyAction(e, in, session, t, a), u, I)
<1> DEFINE done == [t EXCEPT !.processed = @ \cup {a.id}]
           t1 == ApplyAction(e, in, session, t, a)
<1>1. Twins(done, u, I)
    BY DEF Twins, IsState, StateFields
<1>2. t1 = IF t.halt # "none" \/ a.id \in t.processed THEN t
           ELSE IF t.qty[a.security] = 0 THEN done
           ELSE Halt(t, "action not available")
    <2> DEFINE n       == t.qty[a.security]
               base    == e.accounting.base_currency
               split   == (n * a.numerator) \div a.denominator
               gain(p) == [done EXCEPT !.cash[a.currency] = @ + n * p]
               rest    ==
                   IF t.currency[a.security] # a.currency THEN Halt(t, "action currency")
                   ELSE IF a.type = "split"
                        THEN Book([done EXCEPT !.qty[a.security] = split],
                                  Row(session, "split", a.currency, 0, a.security, split - n))
                   ELSE IF ~HasRate(in, a.currency, base, session.open) THEN Halt(t, "no FX rate")
                   ELSE IF a.type = "cash_dividend"
                        THEN Book(gain(a.cash),
                                  Row(session, "dividend", a.currency, n * a.cash, a.security, n))
                   ELSE IF a.settlement = None THEN Halt(t, "no settlement price")
                   ELSE Book([gain(a.settlement) EXCEPT !.qty[a.security] = 0],
                             Row(session, "delisting", a.currency, n * a.settlement, a.security, -n))
    <2>1. t1 = IF t.halt # "none" \/ a.id \in t.processed THEN t
               ELSE IF n = 0 THEN done
               ELSE IF a.available > session.open THEN Halt(t, "action not available")
               ELSE rest
        BY Zenon DEF ApplyAction
    <2> HIDE DEF rest, done, t1
    <2> QED  BY <2>1
<1>3. Halt(t, "action not available").halt # "none"
    <2>1. IsState(t)
        BY DEF Twins
    <2>2. PICK reason : reason = "action not available"
        OBVIOUS
    <2>3. reason # "none"
        BY <2>2
    <2>4. Halt(t, reason).halt = reason
        BY <2>1, HaltShape
    <2> QED  BY <2>2, <2>3, <2>4
<1> HIDE DEF t1, done
<1>4. Twins(t1, u, I)
    <2>1. t1.halt = "none"
        BY DEF t1
    <2> QED  BY <1>1, <1>2, <1>3, <2>1
<1> QED  BY <1>4 DEF t1
(***************************************************************************)
(* What the run over in has met of the events of q, and its twin.          *)
(***************************************************************************)
Abreast(s, z, Z, i, m, t, u, I) ==
    /\ Firsts(z, m) = Firsts(s, i) \cap Z
    /\ IsState(t)
    /\ t.halt = "none" => Twins(t, u, I)

LEMMA TwinsActions ==
    ASSUME NEW e, NEW in, Sound(e, in), IsFiniteSet(in.corporate_actions),
           NEW T \in Int, NEW q, q = AvailableBy(in, T), NEW session,
           session.open \in Int, session.open <= T,
           NEW t, NEW u, NEW I, I = {a.id : a \in q.corporate_actions}, Twins(t, u, I),
           ApplyActions(e, in, t, session).halt = "none"
    PROVE  Twins(ApplyActions(e, in, t, session), ApplyActions(e, q, u, session), I)
<1>1. Sound(e, q) /\ IsFiniteSet(q.corporate_actions)
    BY EarlierIsSound
<1>2. q.corporate_actions = {a \in in.corporate_actions : a.available <= T}
    BY EarlierRows
<1>3. SameMarket(in, q, session.open)
    BY MarketIsTheSame DEF Sound
<1>4. PICK S, Z : S = EventsOn(in, session.date) /\ Z = EventsOn(q, session.date)
    OBVIOUS
<1>5. PICK s, z : s = ActionEvents(in, session.date) /\ z = ActionEvents(q, session.date)
    OBVIOUS
<1>6. PICK n \in Nat : Enumerates(s, S, Precedes(S), n)
    BY <1>4, <1>5, EventsOrdered
<1>7. PICK l \in Nat : Enumerates(z, Z, Precedes(Z), l)
    BY <1>1, <1>4, <1>5, EventsOrdered
<1>8. Z \subseteq S /\ \A a \in S : a \in Z <=> a.available <= T
    BY <1>2, <1>4 DEF EventsOn
<1>9. Precedes(Z) \subseteq Precedes(S)
    BY <1>8 DEF Precedes
<1>10. \A x, y : ~(<<x, y>> \in Precedes(S) /\ <<y, x>> \in Precedes(S))
    <2>1. Orders(Precedes(S), S)
        BY <1>4, EventsOrdered
    <2>2. \A x, y : <<x, y>> \in Precedes(S) => x \in S /\ y \in S
        BY DEF Precedes
    <2> QED  BY <2>1, <2>2, Zenon DEF Orders
<1>11. PICK tr : /\ Traces(tr, "action", <<e, in, session>>, t, s, n)
                 /\ tr[n] = ActionFold(e, in, session, t, s)
    BY <1>6, ActionTrace DEF Enumerates
<1>12. PICK ur : /\ Traces(ur, "action", <<e, q, session>>, u, z, l)
                 /\ ur[l] = ActionFold(e, q, session, u, z)
    BY <1>7, ActionTrace DEF Enumerates
<1>13. tr[n] = ApplyActions(e, in, t, session) /\ ur[l] = ApplyActions(e, q, u, session)
    BY <1>5, <1>11, <1>12, Zenon DEF ApplyActions, ActionFold
<1> DEFINE M == {i \in 0..n : \E m \in 0..l : Abreast(s, z, Z, i, m, tr[i], ur[m], I)}
<1>14. 0 \in M
    <2>1. tr[0] = t /\ ur[0] = u
        BY <1>11, <1>12 DEF Traces
    <2>2. 0 \in 0..l /\ 0 \in 0..n
        OBVIOUS
    <2>3. Firsts(z, 0) = {} /\ Firsts(s, 0) = {}
        BY DEF Firsts
    <2>4. Abreast(s, z, Z, 0, 0, tr[0], ur[0], I)
        BY <2>1, <2>3 DEF Abreast, Twins
    <2> QED  BY <2>2, <2>4
<1>15. ASSUME NEW i \in 0..n, i < n, i \in M PROVE i + 1 \in M
    <2>1. PICK m \in 0..l : Abreast(s, z, Z, i, m, tr[i], ur[m], I)
        BY <1>15
    <2>2. i + 1 \in 0..n /\ i + 1 \in 1..n
        BY <1>15
    <2>3. PICK a : a = s[i + 1]
        OBVIOUS
    <2>4. a \in S /\ a \in in.corporate_actions
        BY <1>4, <1>6, <2>2, <2>3 DEF Enumerates, EventsOn
    <2>5. PICK t0, t1 : t0 = tr[i] /\ t1 = tr[i + 1]
        OBVIOUS
    <2>6. t1 = ApplyAction(e, in, session, t0, a)
        <3>1. tr[i + 1] = FoldStep("action", <<e, in, session>>, tr[i], s[i + 1])
            BY <1>11, <1>15 DEF Traces
        <3> QED  BY <2>3, <2>5, <3>1 DEF FoldStep
    <2>7. IsState(t1) /\ (t1.halt = "none" => t0.halt = "none")
        BY <2>1, <2>5, <2>6, ActionShape DEF Abreast
    <2>8. Firsts(s, i + 1) = Firsts(s, i) \cup {a}
        <3>1. 1..(i + 1) = (1..i) \cup {i + 1}
            BY <2>2
        <3> QED  BY <2>3, <3>1 DEF Firsts
    <2>9. CASE a \in Z
        <3>1. m < l /\ z[m + 1] = a
            BY <1>6, <1>7, <1>8, <1>9, <1>10, <1>15, <2>1, <2>3, <2>9, NextOfPart DEF Abreast
        <3>2. m + 1 \in 0..l
            BY <3>1
        <3>3. PICK u0, u1 : u0 = ur[m] /\ u1 = ur[m + 1]
            OBVIOUS
        <3>4. u1 = ApplyAction(e, q, session, u0, a)
            <4>1. ur[m + 1] = FoldStep("action", <<e, q, session>>, ur[m], z[m + 1])
                BY <1>12, <3>1 DEF Traces
            <4> QED  BY <3>1, <3>3, <4>1 DEF FoldStep
        <3>5. a.id \in I
            BY <1>4, <2>9 DEF EventsOn
        <3>6. t0.halt = "none" => Twins(t1, u1, I)
            BY <1>3, <2>1, <2>5, <2>6, <3>3, <3>4, <3>5, TwinsAction DEF Abreast
        <3>7. Firsts(z, m + 1) = Firsts(z, m) \cup {a}
            <4>1. 1..(m + 1) = (1..m) \cup {m + 1}
                BY <3>2
            <4> QED  BY <3>1, <4>1 DEF Firsts
        <3>8. Firsts(z, m + 1) = Firsts(s, i + 1) \cap Z
            BY <2>1, <2>8, <2>9, <3>7 DEF Abreast
        <3>9. Abreast(s, z, Z, i + 1, m + 1, tr[i + 1], ur[m + 1], I)
            BY <2>5, <2>7, <3>3, <3>6, <3>8 DEF Abreast
        <3> QED  BY <2>2, <3>2, <3>9
    <2>10. CASE a \notin Z
        <3>1. a.available > T /\ a.available \in Int
            BY <1>8, <2>4, <2>10 DEF Sound, TypedInputs
        <3>2. a.available > session.open
            BY <3>1
        <3>3. a.id \notin I
            <4>1. ASSUME NEW b \in q.corporate_actions, b.id = a.id PROVE FALSE
                <5>1. b \in in.corporate_actions /\ b.available <= T
                    BY <1>2
                <5>2. b = a
                    BY <2>4, <4>1, <5>1 DEF Sound
                <5> QED  BY <3>1, <5>1, <5>2
            <4> QED  BY <4>1
        <3>4. ASSUME t1.halt = "none" PROVE Twins(t1, ur[m], I)
            <4>1. Twins(t0, ur[m], I)
                BY <2>1, <2>5, <2>7, <3>4 DEF Abreast
            <4> QED  BY <2>6, <3>2, <3>3, <3>4, <4>1, LateAction
        <3>5. Firsts(z, m) = Firsts(s, i + 1) \cap Z
            BY <2>1, <2>8, <2>10 DEF Abreast
        <3>6. Abreast(s, z, Z, i + 1, m, tr[i + 1], ur[m], I)
            BY <2>5, <2>7, <3>4, <3>5 DEF Abreast
        <3> QED  BY <2>2, <3>6
    <2> QED  BY <2>9, <2>10
<1>16. n \in M
    <2> HIDE DEF M
    <2>1. 0..n \subseteq M
        BY <1>14, <1>15, UpTo
    <2> QED  BY <2>1
<1>17. PICK m \in 0..l : Abreast(s, z, Z, n, m, tr[n], ur[m], I)
    BY <1>16
<1>18. m = l
    <2>1. Firsts(s, n) = S
        BY <1>6 DEF Firsts, Enumerates
    <2>2. Z \subseteq Firsts(z, m)
        BY <1>8, <1>17, <2>1 DEF Abreast
    <2> QED  BY <1>7, <2>2, PartIsDone
<1> QED  BY <1>13, <1>17, <1>18 DEF Abreast
-----------------------------------------------------------------------------
(***************************************************************************)
(* Sessions, and runs of them.                                             *)
(***************************************************************************)
LEMMA SameCalendar ==
    ASSUME NEW e, NEW in, NEW T, NEW q, q = AvailableBy(in, T)
    PROVE  CalendarSessions(e, q) = CalendarSessions(e, in) /\ Initial(e, q) = Initial(e, in)
<1>1. q.calendar = in.calendar
    BY EarlierRows
<1>2. CalendarSessions(e, q) = CalendarSessions(e, in)
    BY <1>1, Zenon DEF CalendarSessions
<1> QED  BY <1>1, <1>2, Zenon DEF Initial

LEMMA TwinsSession ==
    ASSUME NEW e, NEW in, Sound(e, in), IsFiniteSet(in.corporate_actions), IsFiniteSet(e.universe),
           NEW T \in Int, NEW q, q = AvailableBy(in, T),
           NEW k, CalendarSessions(e, in)[k] \in in.calendar, CalendarSessions(e, in)[k].close <= T,
           NEW t, NEW u, NEW I, I = {a.id : a \in q.corporate_actions}, Twins(t, u, I),
           Session(e, in, k, t).halt = "none"
    PROVE  Twins(Session(e, in, k, t), Session(e, q, k, u), I)
<1>1. PICK sessions : sessions = CalendarSessions(e, in) /\ sessions = CalendarSessions(e, q)
    BY SameCalendar
<1>2. PICK s : s = sessions[k]
    OBVIOUS
<1>3. /\ s.open \in Int /\ s.close \in Int /\ s.open <= T /\ s.close <= T
    <2>1. s \in in.calendar /\ s.close <= T
        BY <1>1, <1>2
    <2>2. s.open \in Int /\ s.close \in Int /\ s.open < s.close
        BY <2>1 DEF Sound, TypedInputs
    <2> QED  BY <2>1, <2>2
<1>4. SameMarket(in, q, s.open) /\ SameMarket(in, q, s.close)
    BY <1>3, MarketIsTheSame DEF Sound
<1>5. PICK t1, u1 : t1 = ApplyActions(e, in, t, s) /\ u1 = ApplyActions(e, q, u, s)
    OBVIOUS
<1>6. PICK t2, u2 : t2 = ExecuteOrders(e, in, t1, s) /\ u2 = ExecuteOrders(e, q, u1, s)
    OBVIOUS
<1>7. PICK t3, u3 : t3 = Mark(e, in, t2, s) /\ u3 = Mark(e, q, u2, s)
    OBVIOUS
<1>8. PICK t4, u4 : t4 = Decide(e, in, sessions, k, t3) /\ u4 = Decide(e, q, sessions, k, u3)
    OBVIOUS
<1>9. Session(e, in, k, t) = IF k = Len(sessions) THEN t3 ELSE t4
    BY <1>1, <1>2, <1>5, <1>6, <1>7, <1>8, Zenon DEF Session
<1>10. Session(e, q, k, u) = IF k = Len(sessions) THEN u3 ELSE u4
    BY <1>1, <1>2, <1>5, <1>6, <1>7, <1>8, Zenon DEF Session
<1>11. IsState(t1)
    BY <1>5, ActionsShape DEF Twins
<1>12. IsState(t2) /\ (t2.halt = "none" => t1.halt = "none")
    BY <1>6, <1>11, OrdersShape
<1>13. IsState(t3) /\ (t3.halt = "none" => t2.halt = "none")
    BY <1>7, <1>12, MarkShape DEF Marks
<1>14. t4.halt = "none" => t3.halt = "none"
    <2>1. Decides(t3, t4, s.date, sessions[k + 1].date)
        BY <1>2, <1>8, <1>13, DecideShape, SecuritiesAssumption
    <2> QED  BY <2>1 DEF Decides
<1>15. t1.halt = "none"
    BY <1>9, <1>12, <1>13, <1>14
<1>16. Twins(t1, u1, I)
    BY <1>3, <1>5, <1>15, TwinsActions
<1>17. Twins(t2, u2, I)
    BY <1>4, <1>6, <1>16, TwinsOrders
<1>18. Twins(t3, u3, I)
    BY <1>4, <1>7, <1>17, TwinsMark
<1>19. Twins(t4, u4, I)
    BY <1>2, <1>4, <1>8, <1>18, TwinsDecide
<1> QED  BY <1>9, <1>10, <1>18, <1>19

\* tr holds the states of a run through n sessions, from the first.
RunsThrough(tr, e, in, n) ==
    /\ tr[0] = Initial(e, in)
    /\ tr[n] = SessionFold(e, in, Initial(e, in), [i \in 1..n |-> i])
    /\ \A m \in 0..n : m < n => tr[m + 1] = Session(e, in, m + 1, tr[m])

LEMMA RunTraced ==
    ASSUME NEW e, NEW in, NEW n \in Nat
    PROVE  \E tr : RunsThrough(tr, e, in, n)
<1>1. PICK seq : seq = [i \in 1..n |-> i]
    OBVIOUS
<1>2. PICK st : st = Initial(e, in)
    OBVIOUS
<1>3. DOMAIN seq = 1..n
    BY <1>1
<1>4. PICK tr : Traces(tr, "session", <<e, in>>, st, seq, n) /\ tr[n] = SessionFold(e, in, st, seq)
    BY <1>3, SessionTrace
<1>5. ASSUME NEW m \in 0..n, m < n PROVE tr[m + 1] = Session(e, in, m + 1, tr[m])
    <2>1. tr[m + 1] = FoldStep("session", <<e, in>>, tr[m], seq[m + 1])
        BY <1>4, <1>5 DEF Traces
    <2>2. seq[m + 1] = m + 1
        BY <1>1, <1>5
    <2> QED  BY <2>1, <2>2 DEF FoldStep
<1>6. tr[0] = st
    BY <1>4 DEF Traces
<1>7. tr[n] = SessionFold(e, in, Initial(e, in), [i \in 1..n |-> i])
    BY <1>1, <1>2, <1>4, Zenon
<1> QED  BY <1>2, <1>5, <1>6, <1>7 DEF RunsThrough

\* One of finitely many instants is the latest.
LEMMA LatestOf ==
    ASSUME NEW n \in Nat, n # 0, NEW f, \A i \in 1..n : f[i] \in Int
    PROVE  /\ Largest({f[j] : j \in 1..n}) \in Int
           /\ \A i \in 1..n : f[i] <= Largest({f[j] : j \in 1..n})
<1> DEFINE M == {m \in 0..n : m = 0 \/ \E j \in 1..m : \A i \in 1..m : f[i] <= f[j]}
<1>1. 0 \in M
    OBVIOUS
<1>2. ASSUME NEW m \in 0..n, m < n, m \in M PROVE m + 1 \in M
    <2>1. m + 1 \in 1..n /\ m + 1 \in 0..n /\ 1..(m + 1) = (1..m) \cup {m + 1}
        BY <1>2
    <2>2. CASE m = 0
        <3>1. \A i \in 1..(m + 1) : f[i] <= f[m + 1]
            BY <2>1, <2>2
        <3> QED  BY <2>1, <3>1
    <2>3. CASE m # 0
        <3>1. PICK j \in 1..m : \A i \in 1..m : f[i] <= f[j]
            BY <1>2, <2>3
        <3>2. CASE f[j] <= f[m + 1]
            <4>1. \A i \in 1..m : f[i] <= f[m + 1]
                BY <2>1, <3>1, <3>2
            <4>2. \A i \in 1..(m + 1) : f[i] <= f[m + 1]
                BY <2>1, <4>1
            <4> QED  BY <2>1, <4>2
        <3>3. CASE ~(f[j] <= f[m + 1])
            <4>1. f[m + 1] <= f[j]
                BY <2>1, <3>3
            <4>2. \A i \in 1..(m + 1) : f[i] <= f[j]
                BY <2>1, <3>1, <4>1
            <4> QED  BY <2>1, <4>2
        <3> QED  BY <3>2, <3>3
    <2> QED  BY <2>2, <2>3
<1>3. PICK j \in 1..n : \A i \in 1..n : f[i] <= f[j]
    <2>1. n \in M
        <3> HIDE DEF M
        <3>1. 0..n \subseteq M
            BY <1>1, <1>2, UpTo
        <3> QED  BY <3>1
    <2> QED  BY <2>1
<1>4. PICK S : S = {f[i] : i \in 1..n}
    OBVIOUS
<1>5. f[j] \in S /\ \A y \in S : y <= f[j]
    BY <1>3, <1>4
<1>6. Largest(S) \in S /\ \A y \in S : y <= Largest(S)
    BY <1>5, Zenon DEF Largest
<1> QED  BY <1>4, <1>6
(***************************************************************************)
(* The state after n sessions, and the one of a run over what was          *)
(* available by the latest close of them.                                  *)
(***************************************************************************)
LEMMA AfterTwins ==
    ASSUME NEW e \in Specs, Sound(e, Load(e)), OneRowPerDate(e), NEW n \in Nat, n # 0, n <= NumberOf(e),
           After(e, n).halt = "none",
           NEW T, T = Largest({CalendarSessions(e, Load(e))[i].close : i \in 1..n}),
           NEW q, q = AvailableBy(Load(e), T)
    PROVE  \E I : Twins(After(e, n), SessionFold(e, q, Initial(e, q), [i \in 1..n |-> i]), I)
<1>1. PICK in : in = Load(e)
    OBVIOUS
<1>2. /\ Sound(e, in) /\ IsFiniteSet(in.corporate_actions) /\ IsFiniteSet(e.universe)
    BY <1>1, SpecsAssumption, SecuritiesAssumption, FS_Subset DEF Kinds, TypedAccount
<1>3. PICK sessions : sessions = CalendarSessions(e, in)
    OBVIOUS
<1>4. \A i \in 1..n : sessions[i] \in in.calendar
    <2>1. NumberOf(e) \in Nat
        BY SessionsCounted
    <2>2. \A i \in 1..NumberOf(e) : sessions[i] \in in.calendar
        BY <1>1, <1>3, DatesIncrease
    <2> QED  BY <2>1, <2>2
<1>5. T \in Int /\ \A i \in 1..n : sessions[i].close <= T
    <2>1. PICK f : f = [i \in 1..n |-> sessions[i].close]
        OBVIOUS
    <2>2. \A i \in 1..n : f[i] = sessions[i].close /\ f[i] \in Int
        BY <1>2, <1>4, <2>1 DEF Sound, TypedInputs
    <2>3. {f[i] : i \in 1..n} = {sessions[i].close : i \in 1..n}
        BY <2>2
    <2>4. Largest({f[j] : j \in 1..n}) \in Int /\ \A i \in 1..n : f[i] <= Largest({f[j] : j \in 1..n})
        BY <2>2, LatestOf
    <2>5. T = Largest({f[i] : i \in 1..n})
        BY <1>1, <1>3, <2>3
    <2> QED  BY <2>2, <2>4, <2>5
<1>6. PICK I : I = {a.id : a \in q.corporate_actions}
    OBVIOUS
<1>7. PICK tr : /\ tr[0] = Initial(e, in) /\ tr[n] = After(e, n)
                /\ \A m \in 0..n : m < n => tr[m + 1] = Session(e, in, m + 1, tr[m])
    BY <1>1, AfterTraced
<1>8. PICK ur : RunsThrough(ur, e, q, n)
    BY RunTraced
<1> DEFINE OK(t, u) == IsState(t) /\ (t.halt = "none" => Twins(t, u, I))
           M == {m \in 0..n : OK(tr[m], ur[m])}
<1>9. 0 \in M
    <2>1. PICK t : t = Initial(e, in)
        OBVIOUS
    <2>2. ur[0] = t /\ tr[0] = t
        BY <1>1, <1>7, <1>8, <2>1, SameCalendar DEF RunsThrough
    <2>3. IsState(t) /\ t.processed = {}
        BY <2>1, InitialIsState DEF Initial
    <2>4. Twins(t, t, I)
        BY <2>3 DEF Twins
    <2> QED  BY <2>2, <2>3, <2>4
<1>10. ASSUME NEW m \in 0..n, m < n, m \in M PROVE m + 1 \in M
    <2>1. PICK k : k = m + 1
        OBVIOUS
    <2>2. k \in 1..n /\ k \in 0..n
        BY <1>10, <2>1
    <2>3. PICK t, u, t1, u1 : t = tr[m] /\ u = ur[m] /\ t1 = tr[k] /\ u1 = ur[k]
        OBVIOUS
    <2>4. t1 = Session(e, in, k, t) /\ u1 = Session(e, q, k, u)
        BY <1>7, <1>8, <1>10, <2>1, <2>3 DEF RunsThrough
    <2>5. OK(t, u)
        BY <1>10, <2>3
    <2>6. IsState(t1) /\ (t1.halt = "none" => t.halt = "none")
        BY <1>1, <2>4, <2>5, SessionShape
    <2>7. sessions[k] \in in.calendar /\ sessions[k].close <= T
        BY <1>4, <1>5, <2>2
    <2>8. ASSUME t1.halt = "none" PROVE Twins(t1, u1, I)
        <3>1. Twins(t, u, I)
            BY <2>5, <2>6, <2>8
        <3>2. q = AvailableBy(in, T)
            BY <1>1
        <3> QED  BY <1>2, <1>3, <1>5, <1>6, <2>4, <2>7, <2>8, <3>1, <3>2, TwinsSession
    <2>9. OK(t1, u1)
        BY <2>6, <2>8
    <2> QED  BY <2>1, <2>2, <2>3, <2>9
<1>11. n \in M
    <2> HIDE DEF M
    <2>1. 0..n \subseteq M
        BY <1>9, <1>10, UpTo
    <2> QED  BY <2>1
<1>12. OK(tr[n], ur[n])
    BY <1>11
<1>13. Twins(tr[n], ur[n], I)
    BY <1>7, <1>12
<1> QED  BY <1>7, <1>8, <1>13 DEF RunsThrough

LEMMA TwinsSameOutcome ==
    ASSUME NEW t, NEW u, NEW I, Twins(t, u, I)
    PROVE  Outcome(t) = Outcome(u)
<1>1. DOMAIN t = StateFields /\ DOMAIN u = StateFields
    BY DEF Twins, IsState
<1>2. \A f \in StateFields : Outcome(t)[f] = Outcome(u)[f]
    BY <1>1 DEF Twins, Outcome
<1>3. DOMAIN Outcome(t) = StateFields /\ DOMAIN Outcome(u) = StateFields
    BY <1>1, Zenon DEF Outcome
<1>4. Outcome(t) = [f \in DOMAIN t |-> Outcome(t)[f]] /\ Outcome(u) = [f \in DOMAIN u |-> Outcome(u)[f]]
    BY Zenon DEF Outcome
<1> QED  BY <1>1, <1>2, <1>4

LEMMA RunInvBlind == RunInv /\ ParsedInv => NoLookAhead
<1> SUFFICES ASSUME RunInv, ParsedInv, NEW c \in Commands, Live(c), run[c].k > 0
             PROVE  Outcome(run[c].st) =
                        Outcome(Uninterrupted(AvailableBy(Load(spec), LatestClose(run[c].k)), run[c].k))
    BY DEF NoLookAhead
<1>1. spec \in Specs /\ NumberOf(spec) \in Nat
    BY SessionsCounted DEF RunInv
<1>2. Sound(spec, Load(spec)) /\ OneRowPerDate(spec)
    BY DEF ParsedInv, Parsed
<1>3. PICK n \in Nat : n = run[c].k /\ n # 0 /\ n <= NumberOf(spec)
    BY <1>1 DEF RunInv, Good
<1>4. run[c].st = After(spec, n) /\ After(spec, n).halt = "none"
    BY <1>3 DEF RunInv, Good
<1>5. PICK T : T = Largest({CalendarSessions(spec, Load(spec))[i].close : i \in 1..n})
    OBVIOUS
<1>6. LatestClose(run[c].k) = T
    BY <1>3, <1>5, Zenon DEF LatestClose, Sessions
<1>7. PICK q : q = AvailableBy(Load(spec), T)
    OBVIOUS
<1>8. PICK u : u = SessionFold(spec, q, Initial(spec, q), [i \in 1..n |-> i])
    OBVIOUS
<1>9. u = Uninterrupted(q, n)
    BY <1>8, Zenon DEF Uninterrupted, SessionFold
<1>10. PICK I : Twins(After(spec, n), u, I)
    BY <1>1, <1>2, <1>3, <1>4, <1>5, <1>7, <1>8, AfterTwins
<1>11. Outcome(After(spec, n)) = Outcome(u)
    BY <1>10, TwinsSameOutcome
<1> QED  BY <1>3, <1>4, <1>6, <1>7, <1>9, <1>11

(***************************************************************************)
(* In every run, whatever the inputs hold of days to come, what a command  *)
(* has in memory after a session is what it would have had the inputs held *)
(* only the rows available by the latest close so far: _price_row,         *)
(* _membership_state and _fx_rate read nothing later, and an action that   *)
(* comes later changes no more in _apply_actions than the list of those    *)
(* processed.                                                              *)
(***************************************************************************)
THEOREM RunsSeeNoFuture == Spec => []NoLookAhead
<1> QED  BY RunsInductive, RunsAreParsed, RunInvBlind, PTL

-----------------------------------------------------------------------------
(***************************************************************************)
(* The costs of a run.  What was spent is the sum of the costs of the      *)
(* dates of its sessions, days, and only a fill changes it.                *)
(***************************************************************************)
CostsOK(st, days) ==
    /\ IsFiniteSet(days) /\ days \subseteq DOMAIN st.costs
    /\ \A d \in days : st.costs[d] \in Int
    /\ st.spent = Total(st.costs, days)

\* One value of a sum changes.
LEMMA TotalChanged ==
    ASSUME NEW S, IsFiniteSet(S), NEW y \in S, NEW v, NEW w, NEW x \in Int, w[y] = v[y] + x,
           \A z \in S : v[z] \in Int /\ (z # y => w[z] = v[z])
    PROVE  Total(w, S) = Total(v, S) + x
<1>1. PICK R : R = S \ {y}
    OBVIOUS
<1>2. IsFiniteSet(R) /\ y \notin R /\ S = R \cup {y}
    BY <1>1, FS_Subset
<1>3. (\A z \in R : v[z] \in Int /\ v[z] = w[z]) /\ \A z \in R : w[z] \in Int
    BY <1>1
<1>4. v[y] \in Int /\ w[y] \in Int
    OBVIOUS
<1>5. Total(v, R) = Total(w, R) /\ Total(v, R) \in Int
    BY <1>2, <1>3, TotalSame
<1>6. Total(w, R \cup {y}) = Total(w, R) + w[y]
    BY <1>2, <1>3, <1>4, TotalMore
<1>7. Total(v, R \cup {y}) = Total(v, R) + v[y]
    BY <1>2, <1>3, <1>4, TotalMore
<1> QED  BY <1>2, <1>4, <1>5, <1>6, <1>7

LEMMA SpendsKeeps ==
    ASSUME NEW st, NEW t, NEW days, NEW d \in days, CostsOK(st, days),
           SameCosts(st, t) \/ Spends(st, t, d)
    PROVE  CostsOK(t, days)
<1>1. CASE SameCosts(st, t)
    BY <1>1 DEF SameCosts, CostsOK
<1>2. CASE Spends(st, t, d)
    <2>1. PICK x \in Int : t.spent = st.spent + x /\ t.costs = [st.costs EXCEPT ![d] = @ + x]
        BY <1>2 DEF Spends
    <2>2. PICK v, w : v = st.costs /\ w = t.costs
        OBVIOUS
    <2>3. /\ DOMAIN w = DOMAIN v /\ w[d] = v[d] + x
          /\ \A z \in days : v[z] \in Int /\ (z # d => w[z] = v[z])
        BY <2>1, <2>2 DEF CostsOK
    <2>4. Total(w, days) = Total(v, days) + x
        BY <2>3, TotalChanged DEF CostsOK
    <2>5. \A z \in days : w[z] \in Int
        BY <2>3
    <2> QED  BY <2>1, <2>2, <2>3, <2>4, <2>5 DEF CostsOK
<1> QED  BY <1>1, <1>2

LEMMA OrdersCosts ==
    ASSUME NEW e, NEW in, Sound(e, in), NEW session, NEW st, AccountOK(st), st.halt = "none",
           NEW days, session.date \in days, CostsOK(st, days),
           NEW t, t = ExecuteOrders(e, in, st, session), t.halt = "none"
    PROVE  CostsOK(t, days)
<1>1. PICK n \in Nat : \E tr : AccountTrail(st, session, t, n, tr)
    BY OrdersAccounted
<1>2. PICK tr : AccountTrail(st, session, t, n, tr)
    BY <1>1
<1> DEFINE T == {m \in 0..n : tr[m].halt = "none" => CostsOK(tr[m], days)}
<1>3. 0 \in T
    <2>1. PICK st0 : st0 = Taken(st, session)
        OBVIOUS
    <2>2. SameCosts(st, st0)
        BY <2>1 DEF SameCosts, Taken, AccountOK, IsState, StateFields
    <2>3. CostsOK(st0, days)
        BY <2>2 DEF CostsOK, SameCosts
    <2> QED  BY <1>2, <2>1, <2>3 DEF AccountTrail
<1>4. ASSUME NEW m \in 0..n, m < n, m \in T PROVE m + 1 \in T
    <2>1. PICK s, u, d : s = tr[m] /\ u = tr[m + 1] /\ d = session.date
        OBVIOUS
    <2>2. SUFFICES ASSUME u.halt = "none" PROVE CostsOK(u, days)
        BY <1>4, <2>1
    <2>3. s.halt = "none" /\ (SameCosts(s, u) \/ Spends(s, u, d))
        BY <1>2, <1>4, <2>1, <2>2 DEF AccountTrail
    <2>4. CostsOK(s, days) /\ d \in days
        BY <1>4, <2>1, <2>3
    <2> QED  BY <2>3, <2>4, SpendsKeeps
<1>5. n \in T
    <2> HIDE DEF T
    <2>1. 0..n \subseteq T
        BY <1>3, <1>4, UpTo
    <2> QED  BY <2>1
<1> QED  BY <1>2, <1>5 DEF AccountTrail

LEMMA DecideCosts ==
    ASSUME NEW st, NEW t, NEW d1, NEW d2, Decides(st, t, d1, d2), t.halt = "none",
           NEW days, CostsOK(st, days)
    PROVE  CostsOK(t, days)
<1>1. PICK n \in Nat : \E tr :
                /\ Decided(st, tr[0])
                /\ \A m \in 0..n : m < n => Places(tr[m], tr[m + 1], d1, d2)
                /\ \A m \in 0..n : IsState(tr[m])
                /\ t = tr[n]
    BY DEF Decides
<1>2. PICK tr : /\ Decided(st, tr[0])
                /\ \A m \in 0..n : m < n => Places(tr[m], tr[m + 1], d1, d2)
                /\ t = tr[n]
    BY <1>1
<1> DEFINE T == {m \in 0..n : CostsOK(tr[m], days)}
<1>3. 0 \in T
    BY <1>2 DEF Decided, SameOrders, SameCosts, CostsOK
<1>4. ASSUME NEW m \in 0..n, m < n, m \in T PROVE m + 1 \in T
    <2>1. SameCosts(tr[m], tr[m + 1])
        BY <1>2, <1>4 DEF Places
    <2> QED  BY <1>4, <2>1 DEF SameCosts, CostsOK
<1>5. n \in T
    <2> HIDE DEF T
    <2>1. 0..n \subseteq T
        BY <1>3, <1>4, UpTo
    <2> QED  BY <2>1
<1> QED  BY <1>2, <1>5

LEMMA SessionCosts ==
    ASSUME NEW e \in Specs, Sound(e, Load(e)), NEW k, NEW st, AccountOK(st),
           NEW days, CalendarSessions(e, Load(e))[k].date \in days, CostsOK(st, days),
           NEW t, t = Session(e, Load(e), k, st), t.halt = "none"
    PROVE  CostsOK(t, days)
<1>1. PICK in : in = Load(e)
    OBVIOUS
<1>2. /\ IsFiniteSet(in.corporate_actions) /\ IsFiniteSet(e.universe) /\ IsFiniteSet(Securities)
      /\ Sound(e, in) /\ IsState(st)
    BY <1>1, SpecsAssumption, SecuritiesAssumption, FS_Subset DEF Kinds, TypedAccount, AccountOK
<1>3. PICK sessions : sessions = CalendarSessions(e, in)
    OBVIOUS
<1>4. PICK s : s = sessions[k]
    OBVIOUS
<1>5. PICK opened : opened = ApplyActions(e, in, st, s)
    OBVIOUS
<1>6. PICK traded : traded = ExecuteOrders(e, in, opened, s)
    OBVIOUS
<1>7. PICK marked : marked = Mark(e, in, traded, s)
    OBVIOUS
<1>8. PICK u : u = Decide(e, in, sessions, k, marked)
    OBVIOUS
<1>9. t = IF k = Len(sessions) THEN marked ELSE u
    BY <1>1, <1>3, <1>4, <1>5, <1>6, <1>7, <1>8, Zenon DEF Session
<1>10. IsState(opened) /\ SameOrders(st, opened) /\ AccountOK(opened)
    BY <1>2, <1>5, ActionsShape, ActionsAccount
<1>11. IsState(traded) /\ (traded.halt = "none" => opened.halt = "none")
    BY <1>6, <1>10, OrdersShape
<1>12. Marks(traded, marked, s.date)
    BY <1>7, <1>11, MarkShape
<1>13. IsState(marked) /\ (marked.halt = "none" => traded.halt = "none" /\ SameOrders(traded, marked))
    BY <1>12 DEF Marks
<1>14. Decides(marked, u, s.date, sessions[k + 1].date)
    BY <1>2, <1>4, <1>8, <1>13, DecideShape
<1>15. marked.halt = "none"
    BY <1>9, <1>14 DEF Decides
<1>16. CostsOK(opened, days)
    BY <1>10 DEF SameOrders, SameCosts, CostsOK
<1>17. CostsOK(traded, days)
    <2>1. s.date \in days
        BY <1>1, <1>3, <1>4
    <2> QED  BY <1>2, <1>6, <1>10, <1>11, <1>13, <1>15, <1>16, <2>1, OrdersCosts
<1>18. CostsOK(marked, days)
    BY <1>13, <1>15, <1>17 DEF SameOrders, SameCosts, CostsOK
<1>19. u.halt = "none" => CostsOK(u, days)
    BY <1>14, <1>18, DecideCosts
<1> QED  BY <1>9, <1>18, <1>19

\* What n numbers are mapped to is finite.
LEMMA ImageFinite ==
    ASSUME NEW n \in Nat, NEW f
    PROVE  IsFiniteSet({f[i] : i \in 1..n})
<1>1. PICK g, S, T : S = 1..n /\ T = {f[i] : i \in 1..n} /\ g = [i \in S |-> f[i]]
    OBVIOUS
<1>2. g \in Surjection(S, T)
    BY <1>1 DEF Surjection
<1>3. IsFiniteSet(S)
    BY <1>1, FS_Interval
<1> QED  BY <1>1, <1>2, <1>3, FS_Surjection

\* The sum of zeros, or of ones.
LEMMA TotalOfEqual ==
    ASSUME NEW S, IsFiniteSet(S), NEW v, NEW c \in {0, 1}, \A x \in S : v[x] = c
    PROVE  Total(v, S) = IF c = 0 THEN 0 ELSE Cardinality(S)
<1>1. PICK n \in Nat : n = Cardinality(S)
    BY FS_CardinalityType
<1> DEFINE M == {m \in 0..n : \A s \in SUBSET S : Cardinality(s) = m => Total(v, s) = IF c = 0 THEN 0 ELSE m}
<1>2. 0 \in M
    <2>1. \A s \in SUBSET S : Cardinality(s) = 0 => s = {}
        BY OneLess
    <2>2. Total(v, {}) = 0
        BY TotalEmpty
    <2> QED  BY <2>1, <2>2
<1>3. ASSUME NEW m \in 0..n, m < n, m \in M PROVE m + 1 \in M
    <2> SUFFICES ASSUME NEW s \in SUBSET S, Cardinality(s) = m + 1 PROVE Total(v, s) = IF c = 0 THEN 0 ELSE m + 1
        BY <1>3
    <2>1. PICK x \in s : TRUE
        BY OneLess
    <2>2. PICK r : r = s \ {x}
        OBVIOUS
    <2>3. r \in SUBSET S /\ Cardinality(r) = m /\ s = r \cup {x} /\ x \notin r /\ IsFiniteSet(r)
        BY <2>1, <2>2, OneLess, FS_Subset
    <2>4. Total(v, r) = IF c = 0 THEN 0 ELSE m
        BY <1>3, <2>3
    <2>5. Total(v, r \cup {x}) = Total(v, r) + v[x]
        <3>1. v[x] \in Int /\ \A z \in r : v[z] \in Int
            BY <2>1, <2>3
        <3> QED  BY <2>3, <3>1, TotalMore
    <2>6. v[x] = c
        BY <2>1
    <2> QED  BY <2>3, <2>4, <2>5, <2>6
<1>4. n \in M
    <2> HIDE DEF M
    <2>1. 0..n \subseteq M
        BY <1>2, <1>3, UpTo
    <2> QED  BY <2>1
<1> QED  BY <1>1, <1>4

LEMMA AfterCosts ==
    ASSUME NEW e \in Specs, Sound(e, Load(e)), OneRowPerDate(e),
           NEW k \in 0..NumberOf(e), After(e, k).halt = "none"
    PROVE  CostsOK(After(e, k), {SessionDates(e)[i] : i \in 1..NumberOf(e)})
<1>1. PICK n \in Nat : n = NumberOf(e)
    BY SessionsCounted
<1>2. PICK days : days = {SessionDates(e)[i] : i \in 1..n}
    OBVIOUS
<1>3. IsFiniteSet(days)
    BY <1>2, ImageFinite
<1>4. \A i \in 1..n : /\ SessionDates(e)[i] = CalendarSessions(e, Load(e))[i].date
                      /\ CalendarSessions(e, Load(e))[i] \in Load(e).calendar
    <2>1. \A i \in 1..n : SessionDates(e)[i] = CalendarSessions(e, Load(e))[i].date
        BY <1>1 DEF SessionDates
    <2>2. \A i \in 1..n : CalendarSessions(e, Load(e))[i] \in Load(e).calendar
        BY <1>1, DatesIncrease
    <2> QED  BY <2>1, <2>2
<1> DEFINE T == {m \in 0..n : After(e, m).halt = "none" => CostsOK(After(e, m), days)}
<1>5. 0 \in T
    <2>1. PICK st, in, C : st = After(e, 0) /\ in = Load(e) /\ C = {s.date : s \in in.calendar}
        OBVIOUS
    <2>2. st = Initial(e, in)
        BY <2>1, AfterNone
    <2>3. st.costs = [d \in C |-> 0] /\ st.spent = 0
        BY <2>1, <2>2 DEF Initial
    <2>4. days \subseteq C
        BY <1>2, <1>4, <2>1
    <2>5. PICK v : v = st.costs
        OBVIOUS
    <2>6. days \subseteq DOMAIN v /\ \A d \in days : v[d] = 0
        BY <2>3, <2>4, <2>5
    <2>7. Total(v, days) = 0
        BY <1>3, <2>6, TotalOfEqual
    <2>8. CostsOK(st, days)
        BY <1>3, <2>3, <2>5, <2>6, <2>7 DEF CostsOK
    <2> QED  BY <2>1, <2>8
<1>6. ASSUME NEW m \in 0..n, m < n, m \in T PROVE m + 1 \in T
    <2>1. m + 1 \in 0..n /\ m + 1 \in 1..n
        BY <1>6
    <2>2. PICK st, t, j : st = After(e, m) /\ t = After(e, m + 1) /\ j = m + 1
        OBVIOUS
    <2>3. t = Session(e, Load(e), j, st)
        BY <2>2, AfterNext
    <2>4. AccountOK(st)
        BY <2>2, AfterAccount
    <2>5. SUFFICES ASSUME t.halt = "none" PROVE CostsOK(t, days)
        BY <2>1, <2>2
    <2>6. st.halt = "none"
        BY <2>3, <2>4, <2>5, SessionShape DEF AccountOK
    <2>7. CostsOK(st, days)
        BY <1>6, <2>2, <2>6
    <2>8. CalendarSessions(e, Load(e))[j].date \in days
        BY <1>2, <1>4, <2>1, <2>2
    <2> QED  BY <2>3, <2>4, <2>5, <2>7, <2>8, SessionCosts
<1>7. k \in T
    <2> HIDE DEF T
    <2>1. 0..n \subseteq T
        BY <1>5, <1>6, UpTo
    <2> QED  BY <1>1, <2>1
<1> QED  BY <1>1, <1>2, <1>7

(***************************************************************************)
(* Sums over the parts of a set that is divided.                           *)
(***************************************************************************)
LEMMA TotalOfBoth ==
    ASSUME NEW A, IsFiniteSet(A), NEW B, IsFiniteSet(B), A \cap B = {},
           NEW v, \A x \in A \cup B : v[x] \in Int
    PROVE  Total(v, A \cup B) = Total(v, A) + Total(v, B)
<1>1. PICK n \in Nat : n = Cardinality(B)
    BY FS_CardinalityType
<1> DEFINE Adds(s) == Total(v, A \cup s) = Total(v, A) + Total(v, s)
           M == {m \in 0..n : \A s \in SUBSET B : Cardinality(s) = m => Adds(s)}
<1>2. \A s : IsFiniteSet(s) /\ s \subseteq A \cup B => Total(v, s) \in Int
    <2> SUFFICES ASSUME NEW s, IsFiniteSet(s), s \subseteq A \cup B PROVE Total(v, s) \in Int
        OBVIOUS
    <2>1. \A x \in s : v[x] \in Int /\ v[x] = v[x]
        OBVIOUS
    <2> QED  BY <2>1, TotalSame
<1>3. 0 \in M
    <2>1. \A s \in SUBSET B : Cardinality(s) = 0 => s = {}
        BY OneLess
    <2>2. Total(v, {}) = 0 /\ Total(v, A) \in Int
        BY <1>2, TotalEmpty
    <2>3. A \cup {} = A
        OBVIOUS
    <2>4. Adds({})
        BY <2>2, <2>3
    <2> HIDE DEF Adds
    <2> QED  BY <2>1, <2>4
<1>4. ASSUME NEW m \in 0..n, m < n, m \in M PROVE m + 1 \in M
    <2> SUFFICES ASSUME NEW s \in SUBSET B, Cardinality(s) = m + 1 PROVE Adds(s)
        BY <1>4
    <2>1. PICK x \in s : TRUE
        BY OneLess
    <2>2. PICK r : r = s \ {x}
        OBVIOUS
    <2>3. r \in SUBSET B /\ Cardinality(r) = m /\ s = r \cup {x} /\ x \notin r /\ IsFiniteSet(r)
        BY <2>1, <2>2, OneLess, FS_Subset
    <2>4. Adds(r)
        BY <1>4, <2>3
    <2>5. PICK q : q = A \cup r
        OBVIOUS
    <2>6. IsFiniteSet(q) /\ x \notin q /\ A \cup s = q \cup {x} /\ q \subseteq A \cup B
        BY <2>1, <2>3, <2>5, FS_Union
    <2>7. v[x] \in Int /\ (\A z \in r : v[z] \in Int) /\ (\A z \in q : v[z] \in Int)
        BY <2>1, <2>3, <2>6
    <2>8. Total(v, r \cup {x}) = Total(v, r) + v[x]
        BY <2>3, <2>7, TotalMore
    <2>9. Total(v, q \cup {x}) = Total(v, q) + v[x]
        BY <2>6, <2>7, TotalMore
    <2>10. Total(v, r) \in Int /\ Total(v, A) \in Int
        BY <1>2, <2>3
    <2>11. Total(v, s) = Total(v, r) + v[x]
        BY <2>3, <2>8
    <2>12. Total(v, A \cup s) = Total(v, A \cup r) + v[x]
        BY <2>5, <2>6, <2>9
    <2>13. Total(v, A \cup r) = Total(v, A) + Total(v, r)
        BY <2>4
    <2>14. PICK a, b, c : a = Total(v, A) /\ b = Total(v, r) /\ c = v[x]
        OBVIOUS
    <2>15. (a + b) + c = a + (b + c)
        BY <2>7, <2>10, <2>14
    <2> QED  BY <2>11, <2>12, <2>13, <2>14, <2>15, Zenon
<1>5. n \in M
    <2> HIDE DEF M
    <2>1. 0..n \subseteq M
        BY <1>3, <1>4, UpTo
    <2> QED  BY <2>1
<1>6. B \in SUBSET B /\ Cardinality(B) = n
    BY <1>1
<1> QED  BY <1>5, <1>6

\* The parts f[p] of U are apart.
Apart(P, f, U) ==
    /\ IsFiniteSet(P) /\ IsFiniteSet(U)
    /\ \A p \in P : f[p] \subseteq U
    /\ \A p, q \in P : p # q => f[p] \cap f[q] = {}

Joined(f, Q) == UNION {f[p] : p \in Q}

LEMMA TotalOfParts ==
    ASSUME NEW P, NEW f, NEW U, Apart(P, f, U), NEW v, \A x \in U : v[x] \in Int,
           NEW w, \A p \in P : w[p] = Total(v, f[p])
    PROVE  Total(w, P) = Total(v, Joined(f, P))
<1>1. PICK n \in Nat : n = Cardinality(P)
    BY FS_CardinalityType DEF Apart
<1> DEFINE Adds(s) == Total(w, s) = Total(v, Joined(f, s))
           M == {m \in 0..n : \A s \in SUBSET P : Cardinality(s) = m => Adds(s)}
<1>2. \A s : s \subseteq U => IsFiniteSet(s) /\ Total(v, s) \in Int
    <2> SUFFICES ASSUME NEW s, s \subseteq U PROVE IsFiniteSet(s) /\ Total(v, s) \in Int
        OBVIOUS
    <2>1. IsFiniteSet(s)
        BY FS_Subset DEF Apart
    <2>2. \A x \in s : v[x] \in Int /\ v[x] = v[x]
        OBVIOUS
    <2> QED  BY <2>1, <2>2, TotalSame
<1>3. IsFiniteSet(P)
    BY DEF Apart
<1>4. 0 \in M
    <2>1. \A s \in SUBSET P : Cardinality(s) = 0 => s = {}
        BY <1>3, OneLess
    <2>2. Total(v, {}) = 0 /\ Total(w, {}) = 0
        BY TotalEmpty
    <2>3. Joined(f, {}) = {}
        BY DEF Joined
    <2>4. Adds({})
        BY <2>2, <2>3
    <2> HIDE DEF Adds
    <2> QED  BY <2>1, <2>4
<1>5. ASSUME NEW m \in 0..n, m < n, m \in M PROVE m + 1 \in M
    <2> SUFFICES ASSUME NEW s \in SUBSET P, Cardinality(s) = m + 1 PROVE Adds(s)
        BY <1>5
    <2>1. PICK x \in s : TRUE
        BY <1>3, OneLess
    <2>2. PICK r : r = s \ {x}
        OBVIOUS
    <2>3. r \in SUBSET P /\ Cardinality(r) = m /\ s = r \cup {x} /\ x \notin r /\ IsFiniteSet(r)
        BY <1>3, <2>1, <2>2, OneLess, FS_Subset
    <2>4. Adds(r)
        BY <1>5, <2>3
    <2>5. PICK A, B : A = Joined(f, r) /\ B = f[x]
        OBVIOUS
    <2>6. A \subseteq U /\ B \subseteq U /\ A \cap B = {} /\ Joined(f, s) = A \cup B
        BY <2>1, <2>3, <2>5 DEF Joined, Apart
    <2>7. IsFiniteSet(A) /\ IsFiniteSet(B) /\ Total(v, A) \in Int /\ Total(v, B) \in Int
        BY <1>2, <2>6
    <2>8. \A z \in A \cup B : v[z] \in Int
        BY <2>6
    <2>9. Total(v, A \cup B) = Total(v, A) + Total(v, B)
        BY <2>6, <2>7, <2>8, TotalOfBoth
    <2>10. w[x] = Total(v, B) /\ w[x] \in Int
        BY <2>1, <2>5, <2>7
    <2>11. \A z \in r : w[z] \in Int
        <3> SUFFICES ASSUME NEW z \in r PROVE w[z] \in Int
            OBVIOUS
        <3>1. f[z] \subseteq U /\ w[z] = Total(v, f[z])
            BY <2>3 DEF Apart
        <3> QED  BY <1>2, <3>1
    <2>12. Total(w, r \cup {x}) = Total(w, r) + w[x]
        BY <2>3, <2>10, <2>11, TotalMore
    <2>13. Total(w, s) = Total(w, r) + w[x]
        BY <2>3, <2>12, Zenon
    <2>14. Total(v, Joined(f, s)) = Total(v, A) + w[x]
        BY <2>6, <2>9, <2>10, Zenon
    <2>15. Total(w, r) = Total(v, A)
        BY <2>4, <2>5, Zenon
    <2> QED  BY <2>13, <2>14, <2>15, Zenon
<1>6. n \in M
    <2> HIDE DEF M
    <2>1. 0..n \subseteq M
        BY <1>4, <1>5, UpTo
    <2> QED  BY <2>1
<1>7. P \in SUBSET P /\ Cardinality(P) = n
    BY <1>1
<1> QED  BY <1>6, <1>7

(***************************************************************************)
(* The report: the sums over its partitions.                               *)
(***************************************************************************)
PartCosts(parts)  == SumOver(DOMAIN parts, LAMBDA p : parts[p].cost)
PartTrades(parts) == SumOver(DOMAIN parts, LAMBDA p : parts[p].trades)

LEMMA PartCostsIsTotal ==
    ASSUME NEW parts, NEW v, \A p \in DOMAIN parts : v[p] = parts[p].cost
    PROVE  PartCosts(parts) = Total(v, DOMAIN parts)
<1> DEFINE S == DOMAIN parts
           IsV(g) == g = [s \in SUBSET S |-> IF s = {} THEN 0 ELSE g[s \ {Picked(s)}] + v[Picked(s)]]
           IsW(g) == g = [s \in SUBSET S |-> IF s = {} THEN 0
                                             ELSE g[s \ {Picked(s)}] + parts[Picked(s)].cost]
<1>1. \A s \in SUBSET S : s # {} => v[Picked(s)] = parts[Picked(s)].cost
    BY DEF Picked
<1>2. ASSUME NEW g PROVE IsV(g) <=> IsW(g)
    <2>1. \A s \in SUBSET S : (IF s = {} THEN 0 ELSE g[s \ {Picked(s)}] + v[Picked(s)])
                                = (IF s = {} THEN 0 ELSE g[s \ {Picked(s)}] + parts[Picked(s)].cost)
        BY <1>1, Zenon
    <2> QED  BY <2>1, Zenon
<1>3. (CHOOSE g : IsV(g)) = (CHOOSE g : IsW(g))
    <2> HIDE DEF IsV, IsW
    <2> QED  BY <1>2, Zenon
<1>4. Total(v, S) = (CHOOSE g : IsV(g))[S]
    BY Zenon DEF Total, SumOver, FoldSet, MapThenFoldSet, Picked
<1>5. PartCosts(parts) = (CHOOSE g : IsW(g))[S]
    BY Zenon DEF PartCosts, SumOver, FoldSet, MapThenFoldSet, Picked
<1> QED  BY <1>3, <1>4, <1>5, Zenon

LEMMA PartTradesIsTotal ==
    ASSUME NEW parts, NEW v, \A p \in DOMAIN parts : v[p] = parts[p].trades
    PROVE  PartTrades(parts) = Total(v, DOMAIN parts)
<1> DEFINE S == DOMAIN parts
           IsV(g) == g = [s \in SUBSET S |-> IF s = {} THEN 0 ELSE g[s \ {Picked(s)}] + v[Picked(s)]]
           IsW(g) == g = [s \in SUBSET S |-> IF s = {} THEN 0
                                             ELSE g[s \ {Picked(s)}] + parts[Picked(s)].trades]
<1>1. \A s \in SUBSET S : s # {} => v[Picked(s)] = parts[Picked(s)].trades
    BY DEF Picked
<1>2. ASSUME NEW g PROVE IsV(g) <=> IsW(g)
    <2>1. \A s \in SUBSET S : (IF s = {} THEN 0 ELSE g[s \ {Picked(s)}] + v[Picked(s)])
                                = (IF s = {} THEN 0 ELSE g[s \ {Picked(s)}] + parts[Picked(s)].trades)
        BY <1>1, Zenon
    <2> QED  BY <2>1, Zenon
<1>3. (CHOOSE g : IsV(g)) = (CHOOSE g : IsW(g))
    <2> HIDE DEF IsV, IsW
    <2> QED  BY <1>2, Zenon
<1>4. Total(v, S) = (CHOOSE g : IsV(g))[S]
    BY Zenon DEF Total, SumOver, FoldSet, MapThenFoldSet, Picked
<1>5. PartTrades(parts) = (CHOOSE g : IsW(g))[S]
    BY Zenon DEF PartTrades, SumOver, FoldSet, MapThenFoldSet, Picked
<1> QED  BY <1>3, <1>4, <1>5, Zenon

\* The dates of the marks of partition p, and the fills on them.
DatesOf(st, p) == {m.date : m \in {x \in ToSet(st.marks) : x.partition = p}}
FillsOf(st, p) == {i \in DOMAIN st.fills : st.fills[i].date \in DatesOf(st, p)}
Kinded(st) == {m.partition : m \in ToSet(st.marks)}

LEMMA PartsOf ==
    ASSUME NEW st
    PROVE  /\ DOMAIN Attribution(st) = Kinded(st)
           /\ \A p \in Kinded(st) : /\ Attribution(st)[p].cost = Total(st.costs, DatesOf(st, p))
                                    /\ Attribution(st)[p].trades = Cardinality(FillsOf(st, p))
<1> DEFINE marksOf(p) == SelectSeq(st.marks, LAMBDA m : m.partition = p)
           first(p) == marksOf(p)[1].nav
           last(p)  == marksOf(p)[Len(marksOf(p))].nav
           part(p)  == [start |-> first(p), end |-> last(p), trades |-> Cardinality(FillsOf(st, p)),
                        cost |-> Total(st.costs, DatesOf(st, p))]
<1>1. Attribution(st) = [p \in Kinded(st) |-> part(p)]
    BY Zenon DEF Attribution, Kinded, FillsOf, DatesOf, Total
<1> HIDE DEF first, last
<1>2. \A p : part(p).cost = Total(st.costs, DatesOf(st, p)) /\ part(p).trades = Cardinality(FillsOf(st, p))
    OBVIOUS
<1> HIDE DEF part
<1> QED  BY <1>1, <1>2

\* Every session has one mark, every mark one partition, every fill one session.
LEMMA PartsDivide ==
    ASSUME NEW n \in Nat, NEW D, \A i, j \in 1..n : D[i] \in Int /\ (i < j => D[i] < D[j]),
           NEW st, OrderInv(st, D, n, n)
    PROVE  /\ Apart(Kinded(st), [p \in Kinded(st) |-> DatesOf(st, p)], {D[i] : i \in 1..n})
           /\ Joined([p \in Kinded(st) |-> DatesOf(st, p)], Kinded(st)) = {D[i] : i \in 1..n}
           /\ Apart(Kinded(st), [p \in Kinded(st) |-> FillsOf(st, p)], DOMAIN st.fills)
           /\ Joined([p \in Kinded(st) |-> FillsOf(st, p)], Kinded(st)) = DOMAIN st.fills
<1>1. PICK days : days = {D[i] : i \in 1..n}
    OBVIOUS
<1>2. PICK ms : ms = st.marks
    OBVIOUS
<1>3. DOMAIN ms = 1..n /\ ToSet(ms) = {ms[i] : i \in 1..n} /\ \A i \in 1..n : ms[i].date = D[i]
    <2>1. IsSeq(ms) /\ Len(ms) = n /\ \A i \in 1..n : ms[i].date = D[i]
        BY <1>2 DEF OrderInv, MarksAre
    <2>2. DOMAIN ms = 1..n
        BY <2>1, SeqFacts
    <2> QED  BY <2>1, <2>2 DEF ToSet
<1>4. PICK P : P = Kinded(st)
    OBVIOUS
<1>5. P = {ms[i].partition : i \in 1..n}
    BY <1>2, <1>3, <1>4 DEF Kinded
<1>6. PICK h : h = [i \in 1..n |-> ms[i].partition]
    OBVIOUS
<1>7. IsFiniteSet(P) /\ IsFiniteSet(days)
    <2>1. P = {h[i] : i \in 1..n}
        BY <1>5, <1>6
    <2> QED  BY <1>1, <2>1, ImageFinite
<1>8. \A p : DatesOf(st, p) = {D[i] : i \in {i \in 1..n : ms[i].partition = p}}
    BY <1>2, <1>3 DEF DatesOf
<1>9. \A i, j \in 1..n : D[i] = D[j] => i = j
    <2> SUFFICES ASSUME NEW i \in 1..n, NEW j \in 1..n, i # j PROVE D[i] # D[j]
        OBVIOUS
    <2>1. i < j \/ j < i
        OBVIOUS
    <2>2. /\ D[i] \in Int /\ D[j] \in Int /\ (i < j => D[i] < D[j]) /\ (j < i => D[j] < D[i])
        OBVIOUS
    <2> QED  BY <2>1, <2>2
<1>10. \A p, q : p # q => DatesOf(st, p) \cap DatesOf(st, q) = {}
    <2> SUFFICES ASSUME NEW p, NEW q, NEW d, d \in DatesOf(st, p), d \in DatesOf(st, q) PROVE p = q
        OBVIOUS
    <2>1. PICK i \in 1..n : ms[i].partition = p /\ d = D[i]
        BY <1>8
    <2>2. PICK j \in 1..n : ms[j].partition = q /\ d = D[j]
        BY <1>8
    <2>3. i = j
        BY <1>9, <2>1, <2>2
    <2> QED  BY <2>1, <2>2, <2>3
<1>11. \A p : DatesOf(st, p) \subseteq days
    <2> SUFFICES ASSUME NEW p, NEW d, d \in DatesOf(st, p) PROVE d \in days
        OBVIOUS
    <2>1. PICK i \in 1..n : ms[i].partition = p /\ d = D[i]
        BY <1>8
    <2> QED  BY <1>1, <2>1
<1>12. \A d \in days : \E p \in P : d \in DatesOf(st, p)
    <2> SUFFICES ASSUME NEW d \in days PROVE \E p \in P : d \in DatesOf(st, p)
        OBVIOUS
    <2>1. PICK i \in 1..n : d = D[i]
        BY <1>1
    <2>2. PICK p : p = ms[i].partition
        OBVIOUS
    <2>3. p \in P /\ d \in DatesOf(st, p)
        BY <1>5, <1>8, <2>1, <2>2
    <2> QED  BY <2>3
<1>13. \A x \in DOMAIN st.fills : st.fills[x].date \in days
    <2> SUFFICES ASSUME NEW x \in DOMAIN st.fills PROVE st.fills[x].date \in days
        OBVIOUS
    <2>1. PICK i \in DOMAIN st.orders : st.fills[x].date = st.orders[i].execution
        BY DEF OrderInv, BookOK, FillMatches
    <2>2. PICK j \in 1..n : j < n /\ DecidedAt(st.orders[i], D, j)
        BY DEF OrderInv, Timely
    <2>3. j + 1 \in 1..n /\ st.fills[x].date = D[j + 1]
        BY <2>1, <2>2 DEF DecidedAt
    <2> QED  BY <1>1, <2>3
<1>14. IsFiniteSet(DOMAIN st.fills)
    <2>1. IsSeq(st.fills)
        BY DEF OrderInv, BookOK
    <2>2. DOMAIN st.fills = 1..Len(st.fills) /\ Len(st.fills) \in Nat
        BY <2>1, SeqFacts
    <2> QED  BY <2>2, FS_Interval
<1>15. PICK f, g : f = [p \in P |-> DatesOf(st, p)] /\ g = [p \in P |-> FillsOf(st, p)]
    OBVIOUS
<1>16. Apart(P, f, days)
    BY <1>7, <1>10, <1>11, <1>15 DEF Apart
<1>17. Joined(f, P) = days
    BY <1>11, <1>12, <1>15 DEF Joined
<1>18. \A p : FillsOf(st, p) \subseteq DOMAIN st.fills
    BY DEF FillsOf
<1>19. \A p, q : p # q => FillsOf(st, p) \cap FillsOf(st, q) = {}
    BY <1>10 DEF FillsOf
<1>20. Apart(P, g, DOMAIN st.fills)
    BY <1>7, <1>14, <1>15, <1>18, <1>19 DEF Apart
<1>21. \A x \in DOMAIN st.fills : \E p \in P : x \in FillsOf(st, p)
    BY <1>12, <1>13 DEF FillsOf
<1>22. Joined(g, P) = DOMAIN st.fills
    BY <1>15, <1>18, <1>21 DEF Joined
<1> QED  BY <1>1, <1>4, <1>15, <1>16, <1>17, <1>20, <1>22

LEMMA AttributionAddsUp ==
    ASSUME NEW n \in Nat, NEW D, \A i, j \in 1..n : D[i] \in Int /\ (i < j => D[i] < D[j]),
           NEW st, OrderInv(st, D, n, n), CostsOK(st, {D[i] : i \in 1..n})
    PROVE  /\ st.spent = PartCosts(Attribution(st))
           /\ Len(st.fills) = PartTrades(Attribution(st))
<1>1. PICK days : days = {D[i] : i \in 1..n}
    OBVIOUS
<1>2. PICK P, f, g : /\ P = Kinded(st) /\ f = [p \in P |-> DatesOf(st, p)]
                     /\ g = [p \in P |-> FillsOf(st, p)]
    OBVIOUS
<1>3. /\ Apart(P, f, days) /\ Joined(f, P) = days
      /\ Apart(P, g, DOMAIN st.fills) /\ Joined(g, P) = DOMAIN st.fills
    <2>1. /\ Apart(Kinded(st), [p \in Kinded(st) |-> DatesOf(st, p)], {D[i] : i \in 1..n})
          /\ Joined([p \in Kinded(st) |-> DatesOf(st, p)], Kinded(st)) = {D[i] : i \in 1..n}
          /\ Apart(Kinded(st), [p \in Kinded(st) |-> FillsOf(st, p)], DOMAIN st.fills)
          /\ Joined([p \in Kinded(st) |-> FillsOf(st, p)], Kinded(st)) = DOMAIN st.fills
        BY PartsDivide
    <2> QED  BY <1>1, <1>2, <2>1, Zenon
<1>4. PICK parts : parts = Attribution(st)
    OBVIOUS
<1>5. DOMAIN parts = P
    BY <1>2, <1>4, PartsOf
<1>6. PICK c, k, v : /\ c = [p \in P |-> parts[p].cost] /\ k = [p \in P |-> parts[p].trades]
                     /\ v = [i \in DOMAIN st.fills |-> 1]
    OBVIOUS
<1>7. PartCosts(parts) = Total(c, P) /\ PartTrades(parts) = Total(k, P)
    BY <1>5, <1>6, PartCostsIsTotal, PartTradesIsTotal
<1>8. \A p \in P : parts[p].cost = Total(st.costs, DatesOf(st, p)) /\ parts[p].trades = Cardinality(FillsOf(st, p))
    BY <1>2, <1>4, PartsOf
<1>9. \A p \in P : c[p] = Total(st.costs, f[p])
    BY <1>2, <1>6, <1>8
<1>10. PICK w : w = st.costs
    OBVIOUS
<1>11. \A d \in days : w[d] \in Int
    BY <1>1, <1>10 DEF CostsOK
<1>12. Total(c, P) = Total(w, days)
    BY <1>3, <1>9, <1>10, <1>11, TotalOfParts
<1>13. \A p \in P : k[p] = Total(v, g[p])
    <2> SUFFICES ASSUME NEW p \in P PROVE k[p] = Total(v, g[p])
        OBVIOUS
    <2>1. k[p] = Cardinality(g[p])
        BY <1>2, <1>6, <1>8
    <2>2. IsFiniteSet(g[p]) /\ g[p] \subseteq DOMAIN st.fills
        BY <1>3, FS_Subset DEF Apart
    <2>3. \A x \in g[p] : v[x] = 1
        BY <1>6, <2>2
    <2>4. Total(v, g[p]) = Cardinality(g[p])
        BY <2>2, <2>3, TotalOfEqual
    <2> QED  BY <2>1, <2>4
<1>14. \A x \in DOMAIN st.fills : v[x] = 1 /\ v[x] \in Int
    BY <1>6
<1>15. Total(k, P) = Total(v, DOMAIN st.fills)
    BY <1>3, <1>13, <1>14, TotalOfParts
<1>16. Total(v, DOMAIN st.fills) = Len(st.fills)
    <2>1. IsSeq(st.fills)
        BY DEF OrderInv, BookOK
    <2>2. DOMAIN st.fills = 1..Len(st.fills) /\ Len(st.fills) \in Nat
        BY <2>1, SeqFacts
    <2>3. IsFiniteSet(DOMAIN st.fills) /\ Cardinality(DOMAIN st.fills) = Len(st.fills)
        BY <2>2, FS_Interval
    <2> QED  BY <1>14, <2>3, TotalOfEqual
<1>17. st.spent = Total(w, days)
    BY <1>1, <1>10 DEF CostsOK
<1> QED  BY <1>4, <1>7, <1>12, <1>15, <1>16, <1>17

LEMMA RunInvCosts == RunInv /\ ParsedInv => CostsAreAttributed
<1> SUFFICES ASSUME RunInv, ParsedInv PROVE CostsAreAttributed
    OBVIOUS
<1> SUFFICES ASSUME NEW c \in Commands, run[c].pc = "done"
             PROVE  /\ run[c].st.spent = PartCosts(Attribution(run[c].st))
                    /\ Len(run[c].st.fills) = PartTrades(Attribution(run[c].st))
    <2>1. \A e, in, st : /\ Metrics(e, in, st).total_cost = st.spent
                         /\ Metrics(e, in, st).by_partition = Attribution(st)
        BY DEF Metrics
    <2>2. SUFFICES ASSUME NEW d \in Commands, run[d].pc = "done"
                   PROVE  /\ Metrics(spec, Load(spec), run[d].st).total_cost
                                = PartCosts(Metrics(spec, Load(spec), run[d].st).by_partition)
                          /\ Len(run[d].st.fills)
                                = PartTrades(Metrics(spec, Load(spec), run[d].st).by_partition)
        BY Zenon DEF CostsAreAttributed, PartCosts, PartTrades
    <2> QED  BY <2>1, <2>2
<1>1. Live(c)
    BY DEF Live
<1>2. PICK st : st = run[c].st
    OBVIOUS
<1>3. spec \in Specs /\ NumberOf(spec) \in Nat
    BY SessionsCounted DEF RunInv
<1>4. PICK n \in Nat : n = NumberOf(spec)
    BY <1>3
<1>5. st = After(spec, n) /\ st.halt = "none"
    BY <1>1, <1>2, <1>4 DEF RunInv, Good
<1>6. PICK D : D = SessionDates(spec)
    OBVIOUS
<1>7. Sound(spec, Load(spec)) /\ OneRowPerDate(spec)
    BY <1>1 DEF ParsedInv, Parsed
<1>8. OrderInv(st, D, n, n)
    BY <1>3, <1>4, <1>5, <1>6, AfterOrders
<1>9. CostsOK(st, {D[i] : i \in 1..n})
    <2>1. n \in 0..n
        OBVIOUS
    <2> QED  BY <1>3, <1>4, <1>5, <1>6, <1>7, <2>1, AfterCosts
<1>10. \A i, j \in 1..n : D[i] \in Int /\ (i < j => D[i] < D[j])
    BY <1>3, <1>4, <1>6, <1>7, DatesIncrease
<1> QED  BY <1>2, <1>8, <1>9, <1>10, AttributionAddsUp

(***************************************************************************)
(* When a run is done, what its report says the partitions cost and traded *)
(* adds up to what the run spent and to the number of its fills: fill by   *)
(* fill _execute_orders adds the same cost to the total and to a date of   *)
(* the run, and _attribution gives each date to one partition.             *)
(***************************************************************************)
THEOREM CostsAddUp == Spec => []CostsAreAttributed
<1> QED  BY RunsInductive, RunsAreParsed, RunInvCosts, PTL

=============================================================================
