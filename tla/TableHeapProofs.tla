--------------------------- MODULE TableHeapProofs ---------------------------
(***************************************************************************)
(* The statements of the engine keep the contract of their pool, and so    *)
(* its coherence; they account for their pins; one that fails has gone     *)
(* through the table page by page; and those that do not fail act on the   *)
(* table as on a list of rows: for any rows, page size, pool size and      *)
(* policy, over flushes, reopenings and kills.                             *)
(***************************************************************************)
EXTENDS TableHeap, WellFoundedInduction, SequenceTheorems, FiniteSetTheorems,
        TLAPS

-----------------------------------------------------------------------------
(* Numbers: induction as a fact about a set, and recursive functions.      *)
Below == {ss \in Nat \X Nat : ss[1] < ss[2]}

(* The order of the numbers is well-founded.                               *)
LEMMA BelowIsWellFounded == IsWellFoundedOn(Below, Nat)
<1>1. Below = OpToRel(<, Nat)
  BY DEF Below, OpToRel
<1> QED
  BY <1>1, NatLessThanWellFounded, Zenon

(* A set of numbers that is not empty has a least one.                     *)
LEMMA LeastElement ==
    ASSUME NEW T, T \subseteq Nat, T # {}
    PROVE  \E n \in T : \A m \in T : n <= m
<1>1. PICK n \in T : \A m \in T : <<m, n>> \notin Below
  BY BelowIsWellFounded, WFMin, Zenon
<1>2. ASSUME NEW m \in T
      PROVE  n <= m
  <2>1. m \in Nat /\ n \in Nat
    OBVIOUS
  <2>2. m < n => <<m, n>> \in Below
    BY <2>1 DEF Below
  <2> QED
    BY <1>1, <2>1, <2>2
<1> QED
  BY <1>2

(* Induction up to a bound: a set with 0 and the successor of each of its  *)
(* members below the bound has every number up to it.                      *)
LEMMA UpToBound ==
    ASSUME NEW b \in Nat, NEW T, 0 \in T,
           \A k \in 0 .. b : k # 0 /\ k - 1 \in T => k \in T
    PROVE  0 .. b \subseteq T
<1> DEFINE out == (0 .. b) \ T
<1>1. SUFFICES ASSUME out # {}
               PROVE  FALSE
  OBVIOUS
<1>2. PICK n \in out : \A m \in out : n <= m
  <2>1. out \subseteq Nat
    OBVIOUS
  <2> HIDE DEF out
  <2> QED
    BY <1>1, <2>1, LeastElement
<1>3. n \in 0 .. b /\ n # 0 /\ n - 1 \in 0 .. b /\ n - 1 \notin out
  BY <1>2
<1> QED
  BY <1>2, <1>3

(* A value and a step, which makes the k-th value of the one before, are   *)
(* those of a function: what a recursive definition over 0 .. n needs.     *)
Recursive(n, V, v, step) ==
    \E f \in [0 .. n -> V] :
        f[0] = v /\ \A k \in 1 .. n : f[k] = step[<<k, f[k - 1]>>]

LEMMA RecursiveFunction ==
    ASSUME NEW n \in Nat, NEW V, NEW v \in V, NEW step \in [(1 .. n) \X V -> V]
    PROVE  Recursive(n, V, v, step)
<1> DEFINE Computes(f, m) ==
               f[0] = v /\ \A k \in 1 .. m : f[k] = step[<<k, f[k - 1]>>]
           T == {m \in 0 .. n : \E f \in [0 .. m -> V] : Computes(f, m)}
<1>1. 0 \in T
  <2> DEFINE f == [k \in 0 .. 0 |-> v]
  <2>1. f \in [0 .. 0 -> V] /\ Computes(f, 0)
    OBVIOUS
  <2> HIDE DEF f
  <2> QED
    BY <2>1
<1>2. ASSUME NEW m \in 0 .. n, m # 0, m - 1 \in T
      PROVE  m \in T
  <2>1. PICK f \in [0 .. m - 1 -> V] : Computes(f, m - 1)
    BY <1>2
  <2>2. m \in 1 .. n /\ m - 1 \in 0 .. m - 1 /\ m \in Nat
    BY <1>2
  <2> DEFINE w == step[<<m, f[m - 1]>>]
             g == [k \in 0 .. m |-> IF k = m THEN w ELSE f[k]]
  <2>3. w \in V
    BY <2>1, <2>2
  <2>4. g \in [0 .. m -> V] /\ g[m] = w /\ \A k \in 0 .. m - 1 : g[k] = f[k]
    <3> HIDE DEF w
    <3> QED
      BY <2>1, <2>2, <2>3
  <2>5. Computes(g, m)
    <3> HIDE DEF g
    <3>1. g[0] = v
      BY <2>1, <2>2, <2>4
    <3>2. ASSUME NEW k \in 1 .. m
          PROVE  g[k] = step[<<k, g[k - 1]>>]
      <4>1. k - 1 \in 0 .. m - 1 /\ g[k - 1] = f[k - 1]
        BY <2>2, <2>4
      <4>2. CASE k = m
        BY <2>4, <4>1, <4>2
      <4>3. CASE k # m
        <5>1. k \in 1 .. m - 1 /\ k \in 0 .. m - 1
          BY <2>2, <4>3
        <5> QED
          BY <2>1, <2>4, <4>1, <5>1
      <4> QED
        BY <4>2, <4>3
    <3> QED
      BY <3>1, <3>2
  <2> HIDE DEF g, Computes
  <2> QED
    BY <2>4, <2>5
<1>3. 0 .. n \subseteq T
  <2> HIDE DEF T
  <2> QED
    BY <1>1, <1>2, UpToBound
<1>4. n \in T
  BY <1>3
<1> QED
  BY <1>4 DEF Recursive

-----------------------------------------------------------------------------
(* Lists: induction, and what the operators of Lists return.               *)

(* A list that is not empty is one with a last element appended.           *)
LEMMA FrontAndLast ==
    ASSUME NEW T, NEW list \in Seq(T), Len(list) # 0
    PROVE  \E front \in Seq(T), e \in T :
               list = Append(front, e) /\ Len(front) = Len(list) - 1
<1> DEFINE n == Len(list)
           front == [i \in 1 .. n - 1 |-> list[i]]
<1>1. n \in Nat \ {0} /\ list \in [1 .. n -> T]
  BY LenProperties
<1>2. front \in Seq(T) /\ Len(front) = n - 1
  <2>1. n - 1 \in Nat /\ front \in [1 .. n - 1 -> T]
    BY <1>1
  <2> QED
    BY <2>1
<1>3. list[n] \in T
  BY <1>1
<1>4. list = Append(front, list[n])
  <2>1. Append(front, list[n]) \in Seq(T) /\ Len(Append(front, list[n])) = n
    BY <1>1, <1>2, <1>3
  <2>2. ASSUME NEW i \in 1 .. n
        PROVE  list[i] = Append(front, list[n])[i]
    <3>1. CASE i = n
      BY <1>2, <1>3, <3>1
    <3>2. CASE i # n
      <4>1. n \in Nat /\ i \in 1 .. n - 1
        <5> HIDE DEF n
        <5> QED
          BY <1>1, <3>2
      <4>2. front[i] = list[i]
        BY <4>1
      <4> HIDE DEF front
      <4> QED
        BY <1>2, <1>3, <4>1, <4>2
    <3> QED
      BY <3>1, <3>2
  <2> QED
    BY <2>1, <2>2, SeqEqual
<1> QED
  BY <1>2, <1>3, <1>4

(* Induction on a list: a set with the empty list, and with each of its    *)
(* members every list that is longer by one, has all lists.                *)
LEMMA ListInduction ==
    ASSUME NEW T, NEW G, <<>> \in G,
           \A front \in Seq(T), e \in T :
               front \in G => Append(front, e) \in G
    PROVE  Seq(T) \subseteq G
<1> SUFFICES ASSUME NEW list \in Seq(T)
             PROVE  list \in G
  OBVIOUS
<1> DEFINE n == Len(list)
           N == {k \in 0 .. n : \A l \in Seq(T) : Len(l) = k => l \in G}
<1>1. n \in Nat
  OBVIOUS
<1>2. 0 \in N
  <2>1. \A l \in Seq(T) : Len(l) = 0 => l = <<>>
    OBVIOUS
  <2> QED
    BY <1>1, <2>1
<1>3. ASSUME NEW k \in 0 .. n, k # 0, k - 1 \in N
      PROVE  k \in N
  <2> SUFFICES ASSUME NEW l \in Seq(T), Len(l) = k
               PROVE  l \in G
    OBVIOUS
  <2>1. PICK front \in Seq(T), e \in T :
            l = Append(front, e) /\ Len(front) = Len(l) - 1
    BY <1>3, FrontAndLast
  <2>2. front \in G
    BY <1>3, <2>1
  <2> QED
    BY <2>1, <2>2
<1>4. 0 .. n \subseteq N
  <2> HIDE DEF N, n
  <2> QED
    BY <1>1, <1>2, <1>3, UpToBound
<1> QED
  BY <1>1, <1>4

-----------------------------------------------------------------------------
(* Only.                                                                   *)

(* kept is what Only has collected after each element of the list.         *)
Keeps(kept, list, S) ==
    /\ kept[0] = <<>>
    /\ \A i \in 1 .. Len(list) :
          kept[i] = IF list[i] \in S THEN Append(kept[i - 1], list[i])
                    ELSE kept[i - 1]

LEMMA KeptExists ==
    ASSUME NEW T, NEW list \in Seq(T), NEW S
    PROVE  \E kept \in [0 .. Len(list) -> Seq(T)] : Keeps(kept, list, S)
<1> DEFINE n == Len(list)
           next(k, a) == IF list[k] \in S THEN Append(a, list[k]) ELSE a
           step == [ka \in (1 .. n) \X Seq(T) |-> next(ka[1], ka[2])]
<1>1. n \in Nat /\ <<>> \in Seq(T)
  OBVIOUS
<1>2. \A k \in 1 .. n, a \in Seq(T) : next(k, a) \in Seq(T)
  OBVIOUS
<1>3. /\ step \in [(1 .. n) \X Seq(T) -> Seq(T)]
      /\ \A k \in 1 .. n, a \in Seq(T) : step[<<k, a>>] = next(k, a)
  <2> HIDE DEF next, n
  <2> QED
    BY <1>2
<1> HIDE DEF step
<1>4. Recursive(n, Seq(T), <<>>, step)
  <2> HIDE DEF n
  <2> QED
    BY <1>1, <1>3, RecursiveFunction
<1>5. PICK f \in [0 .. n -> Seq(T)] :
          f[0] = <<>> /\ \A k \in 1 .. n : f[k] = step[<<k, f[k - 1]>>]
  BY <1>4 DEF Recursive
<1>6. \A k \in 1 .. n : f[k - 1] \in Seq(T)
  BY <1>1
<1>7. Keeps(f, list, S)
  BY <1>3, <1>5, <1>6 DEF Keeps
<1> QED
  BY <1>7

(* Only is the last of what any such function has collected.               *)
LEMMA OnlyIsKept ==
    ASSUME NEW list, Len(list) \in Nat, NEW S, NEW V,
           NEW kept \in [0 .. Len(list) -> V], Keeps(kept, list, S)
    PROVE  Only(list, S) = kept[Len(list)]
<1> DEFINE n == Len(list)
           Rec(f) == [i \in 0 .. Len(list) |->
                        IF i = 0 THEN <<>>
                        ELSE IF list[i] \in S THEN Append(f[i - 1], list[i])
                        ELSE f[i - 1]]
           found == CHOOSE f : f = Rec(f)
<1>1. kept = Rec(kept)
  <2>1. ASSUME NEW i \in 0 .. n
        PROVE  kept[i] = Rec(kept)[i]
    <3>1. CASE i = 0
      BY <3>1 DEF Keeps
    <3>2. CASE i # 0
      <4>1. i \in 1 .. Len(list)
        BY <3>2
      <4>2. kept[i] = IF list[i] \in S THEN Append(kept[i - 1], list[i])
                      ELSE kept[i - 1]
        BY <4>1 DEF Keeps
      <4> QED
        BY <3>2, <4>2
    <3> QED
      BY <3>1, <3>2
  <2> QED
    BY <2>1
<1>2. found = Rec(found)
  <2> HIDE DEF Rec
  <2> QED
    BY <1>1
<1>3. Only(list, S) = found[n]
  BY DEF Only
<1>4. \A i \in 0 .. n : found[i] = Rec(found)[i]
  BY <1>2
<1> HIDE DEF found
<1> DEFINE N == {i \in 0 .. n : found[i] = kept[i]}
<1>5. 0 \in N
  BY <1>4 DEF Keeps
<1>6. ASSUME NEW i \in 0 .. n, i # 0, i - 1 \in N
      PROVE  i \in N
  <2>1. i \in 1 .. n /\ found[i - 1] = kept[i - 1]
    BY <1>6
  <2> QED
    BY <1>4, <2>1 DEF Keeps
<1>7. 0 .. n \subseteq N
  <2> HIDE DEF N, n
  <2>1. n \in Nat
    BY DEF n
  <2> QED
    BY <1>5, <1>6, <2>1, UpToBound
<1> QED
  BY <1>3, <1>7

LEMMA OnlyNothing == \A S : Only(<<>>, S) = <<>>
<1> SUFFICES ASSUME NEW S PROVE Only(<<>>, S) = <<>>
  OBVIOUS
<1> DEFINE kept == [i \in 0 .. 0 |-> <<>>]
<1>1. /\ Len(<<>>) = 0 /\ kept \in [0 .. Len(<<>>) -> {<<>>}]
      /\ Keeps(kept, <<>>, S)
  BY DEF Keeps
<1>2. kept[0] = <<>>
  OBVIOUS
<1> HIDE DEF kept
<1> QED
  BY <1>1, <1>2, OnlyIsKept

LEMMA OnlyAppended ==
    ASSUME NEW T, NEW list \in Seq(T), NEW e \in T
    PROVE  \A S :
              /\ Only(list, S) \in Seq(T)
              /\ Only(Append(list, e), S) =
                    IF e \in S THEN Append(Only(list, S), e) ELSE Only(list, S)
<1> SUFFICES ASSUME NEW S
             PROVE  /\ Only(list, S) \in Seq(T)
                    /\ Only(Append(list, e), S) =
                           IF e \in S THEN Append(Only(list, S), e)
                           ELSE Only(list, S)
  OBVIOUS
<1> DEFINE n == Len(list)
           longer == Append(list, e)
<1>1. PICK kept \in [0 .. n -> Seq(T)] : Keeps(kept, list, S)
  BY KeptExists
<1>2. n \in Nat
  OBVIOUS
<1>3. Only(list, S) = kept[n] /\ kept[n] \in Seq(T)
  BY <1>1, <1>2, OnlyIsKept
<1>4. /\ longer \in Seq(T) /\ Len(longer) = n + 1 /\ longer[n + 1] = e
      /\ \A i \in 1 .. n : longer[i] = list[i]
  OBVIOUS
<1> DEFINE all == IF e \in S THEN Append(kept[n], e) ELSE kept[n]
           more == [i \in 0 .. n + 1 |-> IF i = n + 1 THEN all ELSE kept[i]]
<1>5. all \in Seq(T)
  BY <1>3
<1>6. /\ more \in [0 .. n + 1 -> Seq(T)] /\ more[n + 1] = all
      /\ \A i \in 0 .. n : more[i] = kept[i]
  <2> HIDE DEF all, n
  <2> QED
    BY <1>2, <1>5, <1>1
<1> HIDE DEF more, longer
<1>7. Keeps(more, longer, S)
  <2>1. more[0] = <<>>
    BY <1>1, <1>2, <1>6 DEF Keeps
  <2>2. ASSUME NEW i \in 1 .. Len(longer)
        PROVE  more[i] = IF longer[i] \in S THEN Append(more[i - 1], longer[i])
                         ELSE more[i - 1]
    <3> HIDE DEF all, n
    <3>1. CASE i = n + 1
      <4>1. more[i - 1] = kept[n] /\ longer[i] = e /\ more[i] = all
        BY <1>2, <1>4, <1>6, <3>1
      <4> QED
        BY <4>1 DEF all
    <3>2. CASE i # n + 1
      <4>1. i \in 1 .. n /\ i \in 0 .. n /\ i - 1 \in 0 .. n
        BY <1>2, <1>4, <3>2
      <4>2. more[i - 1] = kept[i - 1] /\ more[i] = kept[i] /\ longer[i] = list[i]
        BY <1>4, <1>6, <4>1
      <4> QED
        BY <1>1, <4>1, <4>2 DEF Keeps, n
    <3> QED
      BY <3>1, <3>2
  <2> QED
    BY <2>1, <2>2 DEF Keeps
<1>8. Only(longer, S) = more[n + 1]
  <2> HIDE DEF n, all
  <2>1. Len(longer) \in Nat /\ more \in [0 .. Len(longer) -> Seq(T)]
    BY <1>2, <1>4, <1>6
  <2>2. Only(longer, S) = more[Len(longer)]
    BY <1>7, <2>1, OnlyIsKept
  <2> QED
    BY <1>4, <2>2
<1> QED
  BY <1>3, <1>6, <1>8 DEF longer

LEMMA OnlyMembers ==
    ASSUME NEW T, NEW list \in Seq(T), NEW S
    PROVE  Only(list, S) \in Seq(T \cap S)
<1> DEFINE G == {l \in Seq(T) : Only(l, S) \in Seq(T \cap S)}
<1> HIDE DEF G
<1>1. <<>> \in G
  <2>1. /\ \A S0 : Only(<<>>, S0) = <<>>
        /\ <<>> \in Seq(T) /\ \A U : <<>> \in Seq(U)
    BY OnlyNothing
  <2> QED
    BY <2>1 DEF G
<1>2. ASSUME NEW front \in Seq(T), NEW e \in T, front \in G
      PROVE  Append(front, e) \in G
  <2>1. Only(Append(front, e), S) =
            IF e \in S THEN Append(Only(front, S), e) ELSE Only(front, S)
    BY OnlyAppended
  <2>2. Append(front, e) \in Seq(T) /\ Only(front, S) \in Seq(T \cap S)
    BY <1>2 DEF G
  <2>3. e \in S => Append(Only(front, S), e) \in Seq(T \cap S)
    <3> SUFFICES ASSUME e \in S PROVE Append(Only(front, S), e) \in Seq(T \cap S)
      OBVIOUS
    <3>1. e \in T \cap S
      OBVIOUS
    <3> QED
      BY <2>2, <3>1
  <2> QED
    BY <2>1, <2>2, <2>3 DEF G
<1>3. Seq(T) \subseteq G
  BY <1>1, <1>2, ListInduction
<1> QED
  BY <1>3 DEF G

(* Only of two lists one after the other.                                  *)
LEMMA OnlyConcat ==
    ASSUME NEW T, NEW a \in Seq(T), NEW b \in Seq(T), NEW S
    PROVE  Only(a \o b, S) = Only(a, S) \o Only(b, S)
<1> DEFINE G == {l \in Seq(T) : Only(a \o l, S) = Only(a, S) \o Only(l, S)}
<1> HIDE DEF G
<1>1. \A l \in Seq(T) : Only(l, S) \in Seq(T)
  <2> SUFFICES ASSUME NEW l \in Seq(T) PROVE Only(l, S) \in Seq(T)
    OBVIOUS
  <2>1. Only(l, S) \in Seq(T \cap S)
    BY OnlyMembers
  <2> QED
    BY <2>1
<1>2. <<>> \in G
  <2>1. a \o <<>> = a /\ Only(a, S) \o <<>> = Only(a, S)
    BY <1>1, ConcatEmptySeq
  <2>2. Only(<<>>, S) = <<>>
    BY OnlyNothing
  <2>3. Only(a \o <<>>, S) = Only(a, S) \o Only(<<>>, S)
    BY <2>1, <2>2
  <2> QED
    BY <2>3 DEF G
<1>3. ASSUME NEW front \in Seq(T), NEW e \in T, front \in G
      PROVE  Append(front, e) \in G
  <2>1. a \o Append(front, e) = Append(a \o front, e) /\ a \o front \in Seq(T)
    OBVIOUS
  <2>2. \A l \in Seq(T) :
            Only(Append(l, e), S) = IF e \in S THEN Append(Only(l, S), e) ELSE Only(l, S)
    <3> SUFFICES ASSUME NEW l \in Seq(T)
                 PROVE  Only(Append(l, e), S) =
                            IF e \in S THEN Append(Only(l, S), e) ELSE Only(l, S)
      OBVIOUS
    <3>1. \A Q : /\ Only(l, Q) \in Seq(T)
                 /\ Only(Append(l, e), Q) =
                       IF e \in Q THEN Append(Only(l, Q), e) ELSE Only(l, Q)
      BY OnlyAppended, Zenon
    <3> QED
      BY <3>1, Zenon
  <2>3. /\ Only(Append(a \o front, e), S) =
               IF e \in S THEN Append(Only(a \o front, S), e) ELSE Only(a \o front, S)
        /\ Only(Append(front, e), S) =
               IF e \in S THEN Append(Only(front, S), e) ELSE Only(front, S)
    BY <2>1, <2>2, Zenon
  <2>4. Only(a, S) \o Append(Only(front, S), e) =
            Append(Only(a, S) \o Only(front, S), e)
    BY <1>1
  <2>5. Append(front, e) \in Seq(T)
    OBVIOUS
  <2>6. Only(a \o front, S) = Only(a, S) \o Only(front, S)
    BY <1>3 DEF G
  <2> QED
    BY <2>1, <2>3, <2>4, <2>5, <2>6 DEF G
<1>4. Seq(T) \subseteq G
  BY <1>2, <1>3, ListInduction
<1> QED
  BY <1>4 DEF G

LEMMA OnlyTwice ==
    ASSUME NEW T, NEW list \in Seq(T), NEW S1, NEW S2
    PROVE  Only(Only(list, S1), S2) = Only(list, S1 \cap S2)
<1> DEFINE G == {l \in Seq(T) : Only(Only(l, S1), S2) = Only(l, S1 \cap S2)}
<1> HIDE DEF G
<1>1. <<>> \in G
  <2>1. /\ \A S0 : Only(<<>>, S0) = <<>>
        /\ <<>> \in Seq(T) /\ \A U : <<>> \in Seq(U)
    BY OnlyNothing
  <2> QED
    BY <2>1 DEF G
<1>2. ASSUME NEW front \in Seq(T), NEW e \in T, front \in G
      PROVE  Append(front, e) \in G
  <2>1. Only(front, S1) \in Seq(T)
    BY OnlyAppended
  <2>2. \A S : Only(Append(front, e), S) =
            IF e \in S THEN Append(Only(front, S), e) ELSE Only(front, S)
    BY OnlyAppended
  <2>3. Only(Append(Only(front, S1), e), S2) =
            IF e \in S2 THEN Append(Only(Only(front, S1), S2), e)
            ELSE Only(Only(front, S1), S2)
    BY <2>1, OnlyAppended
  <2>4. Only(Only(front, S1), S2) = Only(front, S1 \cap S2)
    BY <1>2 DEF G
  <2>5. Append(front, e) \in Seq(T)
    OBVIOUS
  <2>6. Only(Only(Append(front, e), S1), S2) = Only(Append(front, e), S1 \cap S2)
    <3> DEFINE longer == Append(front, e)
               both == S1 \cap S2
               kept == Only(front, S1)
    <3>1. Only(longer, S1) = IF e \in S1 THEN Append(kept, e) ELSE kept
      BY <2>2
    <3>2. Only(longer, both) = IF e \in both THEN Append(Only(front, both), e)
                               ELSE Only(front, both)
      BY <2>2
    <3>3. e \in both <=> e \in S1 /\ e \in S2
      OBVIOUS
    <3> HIDE DEF longer, both, kept
    <3>4. Only(Append(kept, e), S2) = IF e \in S2 THEN Append(Only(kept, S2), e)
                                      ELSE Only(kept, S2)
      BY <2>3 DEF kept
    <3>5. Only(kept, S2) = Only(front, both)
      BY <2>4 DEF kept, both
    <3>6. Only(Only(longer, S1), S2) = Only(longer, both)
      BY <3>1, <3>2, <3>3, <3>4, <3>5
    <3> QED
      BY <3>6 DEF longer, both
  <2> QED
    BY <2>5, <2>6 DEF G
<1>3. Seq(T) \subseteq G
  BY <1>1, <1>2, ListInduction
<1> QED
  BY <1>3 DEF G

(* What is not an element makes no difference to Only.                     *)
LEMMA OnlySame ==
    ASSUME NEW T, NEW list \in Seq(T), NEW S1, NEW S2, T \cap S1 = T \cap S2
    PROVE  Only(list, S1) = Only(list, S2)
<1> DEFINE G == {l \in Seq(T) : Only(l, S1) = Only(l, S2)}
<1> HIDE DEF G
<1>1. <<>> \in G
  <2>1. /\ \A S0 : Only(<<>>, S0) = <<>>
        /\ <<>> \in Seq(T) /\ \A U : <<>> \in Seq(U)
    BY OnlyNothing
  <2> QED
    BY <2>1 DEF G
<1>2. ASSUME NEW front \in Seq(T), NEW e \in T, front \in G
      PROVE  Append(front, e) \in G
  <2>1. e \in S1 <=> e \in S2
    OBVIOUS
  <2>2. \A S : Only(Append(front, e), S) =
            IF e \in S THEN Append(Only(front, S), e) ELSE Only(front, S)
    BY OnlyAppended
  <2>3. Append(front, e) \in Seq(T) /\ Only(front, S1) = Only(front, S2)
    BY <1>2 DEF G
  <2> QED
    BY <2>1, <2>2, <2>3 DEF G
<1>3. Seq(T) \subseteq G
  BY <1>1, <1>2, ListInduction
<1> QED
  BY <1>3 DEF G

LEMMA OnlyAll ==
    ASSUME NEW T, NEW list \in Seq(T)
    PROVE  Only(list, T) = list
<1> DEFINE G == {l \in Seq(T) : Only(l, T) = l}
<1> HIDE DEF G
<1>1. <<>> \in G
  <2>1. /\ \A S0 : Only(<<>>, S0) = <<>>
        /\ <<>> \in Seq(T) /\ \A U : <<>> \in Seq(U)
    BY OnlyNothing
  <2> QED
    BY <2>1 DEF G
<1>2. ASSUME NEW front \in Seq(T), NEW e \in T, front \in G
      PROVE  Append(front, e) \in G
  <2>1. Only(Append(front, e), T) = Append(Only(front, T), e)
    BY OnlyAppended
  <2>2. Append(front, e) \in Seq(T) /\ Only(front, T) = front
    BY <1>2 DEF G
  <2> QED
    BY <2>1, <2>2 DEF G
<1>3. Seq(T) \subseteq G
  BY <1>1, <1>2, ListInduction
<1> QED
  BY <1>3 DEF G

(* The places of a list that hold an element of S.                         *)
FoundAt(list, S) == {i \in DOMAIN list : list[i] \in S}

LEMMA FoundFinite ==
    ASSUME NEW T, NEW list \in Seq(T), NEW S
    PROVE  IsFiniteSet(FoundAt(list, S)) /\ Cardinality(FoundAt(list, S)) \in Nat
<1>1. DOMAIN list = 1 .. Len(list) /\ Len(list) \in Nat
  OBVIOUS
<1>2. IsFiniteSet(1 .. Len(list))
  BY <1>1, FS_Interval
<1>3. FoundAt(list, S) \subseteq 1 .. Len(list)
  BY <1>1 DEF FoundAt
<1> QED
  BY <1>2, <1>3, FS_Subset, FS_CardinalityType

LEMMA OnlyCounts ==
    ASSUME NEW T, NEW list \in Seq(T), NEW S
    PROVE  Len(Only(list, S)) = Cardinality(FoundAt(list, S))
<1> DEFINE G == {l \in Seq(T) : Len(Only(l, S)) = Cardinality(FoundAt(l, S))}
<1> HIDE DEF G
<1>1. <<>> \in G
  <2>1. FoundAt(<<>>, S) = {}
    BY DEF FoundAt
  <2>2. Only(<<>>, S) = <<>> /\ Cardinality({}) = 0 /\ <<>> \in Seq(T)
    BY OnlyNothing, FS_EmptySet
  <2> QED
    BY <2>1, <2>2 DEF G
<1>2. ASSUME NEW front \in Seq(T), NEW e \in T, front \in G
      PROVE  Append(front, e) \in G
  <2> DEFINE n == Len(front)
             longer == Append(front, e)
  <2>1. /\ n \in Nat /\ DOMAIN front = 1 .. n
        /\ longer \in Seq(T) /\ DOMAIN longer = 1 .. n + 1 /\ longer[n + 1] = e
        /\ \A i \in 1 .. n : longer[i] = front[i]
    OBVIOUS
  <2>2. \A Z : Only(front, Z) \in Seq(T)
    BY OnlyAppended
  <2>6. \A Z : Only(longer, Z) =
               IF e \in Z THEN Append(Only(front, Z), e) ELSE Only(front, Z)
    BY OnlyAppended
  <2> HIDE DEF longer, n
  <2>0. Len(Only(front, S)) = Cardinality(FoundAt(front, S))
    BY <1>2 DEF G
  <2> SUFFICES Len(Only(longer, S)) = Cardinality(FoundAt(longer, S))
    BY <2>1 DEF longer, G
  <2>3. n + 1 \notin FoundAt(front, S)
    BY <2>1 DEF FoundAt
  <2>4. CASE e \in S
    <3>1. FoundAt(longer, S) = FoundAt(front, S) \cup {n + 1}
      BY <2>1, <2>4 DEF FoundAt
    <3>2. Cardinality(FoundAt(longer, S)) = Cardinality(FoundAt(front, S)) + 1
      BY <2>3, <3>1, FoundFinite, FS_AddElement
    <3>3. Len(Only(longer, S)) = Len(Only(front, S)) + 1
      BY <2>2, <2>4, <2>6
    <3> QED
      BY <2>0, <3>2, <3>3
  <2>5. CASE e \notin S
    <3>1. FoundAt(longer, S) = FoundAt(front, S)
      BY <2>1, <2>5 DEF FoundAt
    <3> QED
      BY <2>0, <2>5, <2>6, <3>1
  <2> QED
    BY <2>4, <2>5
<1>3. Seq(T) \subseteq G
  BY <1>1, <1>2, ListInduction
<1> QED
  BY <1>3 DEF G

(* Only loses none of the elements it is to keep.                          *)
LEMMA OnlyFinds ==
    ASSUME NEW T, NEW list \in Seq(T), NEW S
    PROVE  \A i \in 1 .. Len(list) : list[i] \in S =>
               \E j \in 1 .. Len(Only(list, S)) : Only(list, S)[j] = list[i]
<1> DEFINE Finds(l) == \A i \in 1 .. Len(l) : l[i] \in S =>
               \E j \in 1 .. Len(Only(l, S)) : Only(l, S)[j] = l[i]
           G == {l \in Seq(T) : Finds(l)}
<1> HIDE DEF G
<1>1. <<>> \in G
  BY DEF G
<1>2. ASSUME NEW front \in Seq(T), NEW e \in T, front \in G
      PROVE  Append(front, e) \in G
  <2> DEFINE longer == Append(front, e)
             old == Only(front, S)
             all == Only(longer, S)
  <2>1. /\ Len(front) \in Nat /\ Len(longer) = Len(front) + 1
        /\ longer \in Seq(T) /\ longer[Len(front) + 1] = e
        /\ \A i \in 1 .. Len(front) : longer[i] = front[i]
    OBVIOUS
  <2>2. /\ old \in Seq(T) /\ Len(old) \in Nat
        /\ all = IF e \in S THEN Append(old, e) ELSE old
    BY OnlyAppended
  <2> HIDE DEF longer, old, all
  <2>3. /\ Len(old) <= Len(all) /\ Len(all) \in Nat
        /\ \A j \in 1 .. Len(old) : all[j] = old[j]
        /\ e \in S => Len(all) = Len(old) + 1 /\ all[Len(old) + 1] = e
    BY <2>2
  <2>4. ASSUME NEW i \in 1 .. Len(longer), longer[i] \in S
        PROVE  \E j \in 1 .. Len(all) : all[j] = longer[i]
    <3>1. CASE i = Len(front) + 1
      <4>1. longer[i] = e /\ Len(old) + 1 \in 1 .. Len(all)
        BY <2>1, <2>2, <2>3, <2>4, <3>1
      <4> QED
        BY <2>1, <2>3, <2>4, <4>1
    <3>2. CASE i # Len(front) + 1
      <4>1. i \in 1 .. Len(front) /\ longer[i] = front[i]
        BY <2>1, <3>2
      <4>2. PICK j \in 1 .. Len(old) : old[j] = front[i]
        BY <1>2, <2>4, <4>1 DEF old, G
      <4>3. j \in 1 .. Len(all) /\ all[j] = old[j]
        BY <2>2, <2>3
      <4> QED
        BY <4>1, <4>2, <4>3
    <3> QED
      BY <3>1, <3>2
  <2>5. Finds(longer)
    BY <2>4 DEF all
  <2> QED
    BY <2>1, <2>5 DEF longer, G
<1>3. Seq(T) \subseteq G
  BY <1>1, <1>2, ListInduction
<1> QED
  BY <1>3 DEF G

-----------------------------------------------------------------------------
(* A function applied to each element of a list.                           *)
Mapped(f, list) == [i \in DOMAIN list |-> f[list[i]]]

LEMMA MappedIsList ==
    ASSUME NEW T, NEW U, NEW list \in Seq(T), NEW f, \A x \in T : f[x] \in U
    PROVE  /\ Mapped(f, list) \in Seq(U)
           /\ Len(Mapped(f, list)) = Len(list)
           /\ \A i \in 1 .. Len(list) : Mapped(f, list)[i] = f[list[i]]
<1> DEFINE n == Len(list)
<1>1. n \in Nat /\ DOMAIN list = 1 .. n /\ \A i \in 1 .. n : list[i] \in T
  OBVIOUS
<1> HIDE DEF n
<1>2. Mapped(f, list) \in [1 .. n -> U]
  BY <1>1 DEF Mapped
<1>3. Mapped(f, list) \in Seq(U) /\ Len(Mapped(f, list)) = n
  BY <1>1, <1>2
<1>4. \A i \in 1 .. n : Mapped(f, list)[i] = f[list[i]]
  BY <1>1 DEF Mapped
<1> QED
  BY <1>3, <1>4 DEF n

LEMMA MappedToItself ==
    ASSUME NEW T, NEW list \in Seq(T), NEW f, \A x \in T : f[x] = x
    PROVE  Mapped(f, list) = list
<1>1. DOMAIN list = 1 .. Len(list) /\ \A i \in 1 .. Len(list) : list[i] \in T
  OBVIOUS
<1>2. Mapped(f, list) = [i \in DOMAIN list |-> list[i]]
  BY <1>1 DEF Mapped
<1> QED
  BY <1>2

LEMMA MappedAppended ==
    ASSUME NEW T, NEW f, NEW list \in Seq(T), NEW e \in T
    PROVE  Mapped(f, Append(list, e)) = Append(Mapped(f, list), f[e])
<1> DEFINE U == {f[x] : x \in T}
           n == Len(list)
           longer == Append(list, e)
           a == Mapped(f, longer)
           b == Append(Mapped(f, list), f[e])
<1>1. /\ n \in Nat /\ longer \in Seq(T) /\ Len(longer) = n + 1
      /\ longer[n + 1] = e /\ \A i \in 1 .. n : longer[i] = list[i]
  OBVIOUS
<1>0. \A x \in T : f[x] \in U
  OBVIOUS
<1>2. /\ Mapped(f, list) \in Seq(U) /\ Len(Mapped(f, list)) = n
      /\ \A i \in 1 .. n : Mapped(f, list)[i] = f[list[i]]
  <2> HIDE DEF U
  <2> QED
    BY <1>0, MappedIsList
<1>7. f[e] \in U
  OBVIOUS
<1> HIDE DEF longer, U
<1>3. a \in Seq(U) /\ Len(a) = n + 1 /\ \A i \in 1 .. n + 1 : a[i] = f[longer[i]]
  <2>1. longer \in Seq(T)
    BY <1>1
  <2> QED
    BY <1>0, <1>1, <2>1, MappedIsList
<1>4. b \in Seq(U) /\ Len(b) = n + 1
  BY <1>2, <1>7
<1>5. ASSUME NEW i \in 1 .. n + 1
      PROVE  a[i] = b[i]
  <2> HIDE DEF n
  <2>1. CASE i = n + 1
    <3>1. a[i] = f[e]
      BY <1>1, <1>3, <2>1
    <3>2. b[i] = f[e]
      BY <1>2, <2>1 DEF n
    <3> QED
      BY <3>1, <3>2
  <2>2. CASE i # n + 1
    <3>1. i \in 1 .. n
      BY <1>1, <2>2
    <3>2. a[i] = f[list[i]]
      BY <1>1, <1>3, <3>1
    <3>3. b[i] = Mapped(f, list)[i]
      BY <1>2, <3>1 DEF n
    <3> QED
      BY <1>2, <3>1, <3>2, <3>3
  <2> QED
    BY <2>1, <2>2
<1> HIDE DEF n, a, b
<1>6. a = b
  BY <1>1, <1>3, <1>4, <1>5, SeqEqual
<1> QED
  BY <1>6 DEF a, b, longer

LEMMA MappedConcat ==
    ASSUME NEW T, NEW f, NEW a \in Seq(T), NEW b \in Seq(T)
    PROVE  Mapped(f, a \o b) = Mapped(f, a) \o Mapped(f, b)
<1> DEFINE U == {f[x] : x \in T}
           m == Len(a)
           n == Len(b)
           both == a \o b
           ma == Mapped(f, a)
           mb == Mapped(f, b)
           l == Mapped(f, both)
           r == ma \o mb
<1>0. \A x \in T : f[x] \in U
  OBVIOUS
<1>1. /\ m \in Nat /\ n \in Nat /\ both \in Seq(T) /\ Len(both) = m + n
      /\ \A i \in 1 .. m + n : both[i] = IF i <= m THEN a[i] ELSE b[i - m]
  BY ConcatProperties
<1> HIDE DEF U, both
<1>2. ASSUME NEW list \in Seq(T)
      PROVE  /\ Mapped(f, list) \in Seq(U) /\ Len(Mapped(f, list)) = Len(list)
             /\ \A i \in 1 .. Len(list) : Mapped(f, list)[i] = f[list[i]]
  <2>1. \A x \in T : f[x] \in U
    BY <1>0
  <2> QED
    BY <2>1, MappedIsList
<1>3. ma \in Seq(U) /\ Len(ma) = m /\ \A i \in 1 .. m : ma[i] = f[a[i]]
  BY <1>2
<1>4. mb \in Seq(U) /\ Len(mb) = n /\ \A i \in 1 .. n : mb[i] = f[b[i]]
  BY <1>2
<1> HIDE DEF m, n, ma, mb
<1>5. l \in Seq(U) /\ Len(l) = m + n /\ \A i \in 1 .. m + n : l[i] = f[both[i]]
  BY <1>1, <1>2
<1>6. /\ r \in Seq(U) /\ Len(r) = m + n
      /\ \A i \in 1 .. m + n : r[i] = IF i <= m THEN ma[i] ELSE mb[i - m]
  BY <1>3, <1>4, ConcatProperties
<1> HIDE DEF l, r
<1>7. ASSUME NEW i \in 1 .. m + n
      PROVE  l[i] = r[i]
  <2>1. CASE i <= m
    <3>1. i \in 1 .. m
      BY <1>1, <2>1
    <3>2. l[i] = f[a[i]]
      BY <1>1, <1>5, <2>1
    <3>3. r[i] = f[a[i]]
      BY <1>3, <1>6, <2>1, <3>1
    <3> QED
      BY <3>2, <3>3
  <2>2. CASE ~ (i <= m)
    <3>1. i - m \in 1 .. n
      BY <1>1, <2>2
    <3>2. l[i] = f[b[i - m]]
      BY <1>1, <1>5, <2>2
    <3>3. r[i] = f[b[i - m]]
      BY <1>4, <1>6, <2>2, <3>1
    <3> QED
      BY <3>2, <3>3
  <2> QED
    BY <2>1, <2>2
<1>8. l = r
  BY <1>1, <1>5, <1>6, <1>7, SeqEqual
<1> QED
  BY <1>8 DEF l, r, both, ma, mb

(* What is collected of a list whose elements were replaced.               *)
LEMMA OnlyMapped ==
    ASSUME NEW T, NEW U, NEW a \in Seq(T), NEW b \in Seq(U), Len(a) = Len(b),
           NEW S1, NEW S2, NEW f,
           \A i \in 1 .. Len(a) : /\ a[i] \in S1 <=> b[i] \in S2
                                  /\ a[i] \in S1 => b[i] = f[a[i]]
    PROVE  Only(b, S2) = Mapped(f, Only(a, S1))
<1> DEFINE n == Len(a)
<1>1. n \in Nat /\ \A i \in 1 .. n : a[i] \in T /\ b[i] \in U
  OBVIOUS
<1>2. PICK ka \in [0 .. n -> Seq(T)] : Keeps(ka, a, S1)
  BY KeptExists
<1>3. PICK kb \in [0 .. Len(b) -> Seq(U)] : Keeps(kb, b, S2)
  BY KeptExists
<1>9. \A l \in Seq(T), e \in T :
          Mapped(f, Append(l, e)) = Append(Mapped(f, l), f[e])
  BY MappedAppended
<1> DEFINE N == {i \in 0 .. n : kb[i] = Mapped(f, ka[i])}
<1>4. 0 \in N
  <2>1. Mapped(f, <<>>) = <<>>
    BY DEF Mapped
  <2>2. ka[0] = <<>> /\ kb[0] = <<>>
    BY <1>2, <1>3 DEF Keeps
  <2> QED
    BY <1>1, <2>1, <2>2
<1>5. ASSUME NEW i \in 0 .. n, i # 0, i - 1 \in N
      PROVE  i \in N
  <2>1. i \in 1 .. n /\ i \in 1 .. Len(b) /\ i - 1 \in 0 .. n
    BY <1>1, <1>5
  <2>2. kb[i - 1] = Mapped(f, ka[i - 1]) /\ ka[i - 1] \in Seq(T) /\ a[i] \in T
    BY <1>1, <1>2, <1>5, <2>1
  <2>3. ka[i] = IF a[i] \in S1 THEN Append(ka[i - 1], a[i]) ELSE ka[i - 1]
    BY <1>2, <2>1 DEF Keeps
  <2>4. kb[i] = IF b[i] \in S2 THEN Append(kb[i - 1], b[i]) ELSE kb[i - 1]
    BY <1>3, <2>1 DEF Keeps
  <2>5. Mapped(f, Append(ka[i - 1], a[i])) = Append(Mapped(f, ka[i - 1]), f[a[i]])
    BY <1>9, <2>2
  <2>6. CASE a[i] \in S1
    BY <2>1, <2>2, <2>3, <2>4, <2>5, <2>6
  <2>7. CASE a[i] \notin S1
    BY <2>1, <2>2, <2>3, <2>4, <2>7
  <2> QED
    BY <2>6, <2>7
<1>6. 0 .. n \subseteq N
  <2> HIDE DEF N, n
  <2> QED
    BY <1>1, <1>4, <1>5, UpToBound
<1>7. Only(a, S1) = ka[n]
  BY <1>1, <1>2, OnlyIsKept
<1>8. Only(b, S2) = kb[n]
  <2>1. Len(b) \in Nat
    BY <1>1
  <2>2. Only(b, S2) = kb[Len(b)]
    BY <1>3, <2>1, OnlyIsKept
  <2> QED
    BY <2>2
<1> QED
  BY <1>1, <1>6, <1>7, <1>8

(* How often an element is in a list, once one of them was replaced.       *)
Copies(v, list) == Len(Only(list, {v}))

LEMMA CopiesReplaced ==
    ASSUME NEW T, NEW list \in Seq(T), NEW k \in 1 .. Len(list), NEW e \in T
    PROVE  \A v :
              /\ Copies(v, [list EXCEPT ![k] = e]) \in Nat
              /\ Copies(v, [list EXCEPT ![k] = e]) =
                    Copies(v, list) - (IF list[k] = v THEN 1 ELSE 0)
                                    + (IF e = v THEN 1 ELSE 0)
<1> SUFFICES ASSUME NEW v
             PROVE  /\ Copies(v, [list EXCEPT ![k] = e]) \in Nat
                    /\ Copies(v, [list EXCEPT ![k] = e]) =
                          Copies(v, list) - (IF list[k] = v THEN 1 ELSE 0)
                                          + (IF e = v THEN 1 ELSE 0)
  OBVIOUS
<1> DEFINE other == [list EXCEPT ![k] = e]
           n == Len(list)
           rest == {i \in 1 .. n : i # k /\ list[i] = v}
<1>1. /\ n \in Nat /\ DOMAIN list = 1 .. n /\ k \in 1 .. n
      /\ other \in Seq(T) /\ DOMAIN other = 1 .. n /\ other[k] = e
      /\ \A i \in 1 .. n : i # k => other[i] = list[i]
  OBVIOUS
<1> HIDE DEF other, n
<1>2. IsFiniteSet(rest) /\ Cardinality(rest) \in Nat /\ k \notin rest
  <2>1. IsFiniteSet(1 .. n) /\ rest \subseteq 1 .. n
    BY <1>1, FS_Interval
  <2> QED
    BY <2>1, FS_Subset, FS_CardinalityType
<1>3. Cardinality(rest \cup {k}) = Cardinality(rest) + 1
  BY <1>2, FS_AddElement
<1>4. FoundAt(list, {v}) = IF list[k] = v THEN rest \cup {k} ELSE rest
  BY <1>1 DEF FoundAt
<1>5. FoundAt(other, {v}) = IF e = v THEN rest \cup {k} ELSE rest
  BY <1>1 DEF FoundAt
<1>6. Copies(v, list) = Cardinality(FoundAt(list, {v}))
  BY OnlyCounts DEF Copies
<1>7. Copies(v, other) = Cardinality(FoundAt(other, {v}))
  <2>1. other \in Seq(T)
    BY <1>1
  <2> QED
    BY <2>1, OnlyCounts DEF Copies
<1> HIDE DEF rest
<1>8. /\ Copies(v, other) \in Nat
      /\ Copies(v, other) =
             Copies(v, list) - (IF list[k] = v THEN 1 ELSE 0) + (IF e = v THEN 1 ELSE 0)
  BY <1>2, <1>3, <1>4, <1>5, <1>6, <1>7
<1> QED
  BY <1>8 DEF other

LEMMA CopiesAppended ==
    ASSUME NEW T, NEW list \in Seq(T), NEW e \in T
    PROVE  \A v : Copies(v, Append(list, e)) =
                      Copies(v, list) + (IF e = v THEN 1 ELSE 0)
<1> SUFFICES ASSUME NEW v
             PROVE  Copies(v, Append(list, e)) =
                        Copies(v, list) + (IF e = v THEN 1 ELSE 0)
  OBVIOUS
<1>1. \A S : Only(list, S) \in Seq(T)
  BY OnlyAppended
<1>2. \A S : Only(Append(list, e), S) =
                IF e \in S THEN Append(Only(list, S), e) ELSE Only(list, S)
  BY OnlyAppended
<1>3. Only(list, {v}) \in Seq(T)
  BY <1>1
<1>4. Only(Append(list, e), {v}) =
          IF e = v THEN Append(Only(list, {v}), e) ELSE Only(list, {v})
  BY <1>2
<1> QED
  BY <1>3, <1>4 DEF Copies

LEMMA CopiesConcat ==
    ASSUME NEW T, NEW a \in Seq(T), NEW b \in Seq(T), NEW v
    PROVE  Copies(v, a \o b) = Copies(v, a) + Copies(v, b)
<1>1. Only(a \o b, {v}) = Only(a, {v}) \o Only(b, {v})
  BY OnlyConcat
<1>2. Only(a, {v}) \in Seq(T \cap {v})
  BY OnlyMembers
<1>3. Only(b, {v}) \in Seq(T \cap {v})
  BY OnlyMembers
<1> QED
  BY <1>1, <1>2, <1>3 DEF Copies

-----------------------------------------------------------------------------
Proofs == INSTANCE BufferPoolProofs WITH
    Contents <- PageContents, Blank <- <<>>, IOErrors <- FALSE

Slot == Row \cup {Gone}

-----------------------------------------------------------------------------
(* Lemmas on pages.                                                        *)

(* A page is a sequence of slots that is not too long.                     *)
LEMMA PageIsSeq ==
    /\ \A page \in PageContents :
                page \in Seq(Slot) /\ Len(page) <= RowsPerPage
    /\ \A page \in Seq(Slot) :
                Len(page) <= RowsPerPage => page \in PageContents
    /\ <<>> \in PageContents
<1>1. RowsPerPage \in Nat
  BY HeapAssumption
<1>2. ASSUME NEW page \in PageContents
      PROVE  page \in Seq(Slot) /\ Len(page) <= RowsPerPage
  <2>1. PICK n \in 0 .. RowsPerPage : page \in [1 .. n -> Slot]
    BY DEF PageContents, Slot
  <2> QED
    BY <1>1, <2>1
<1>3. ASSUME NEW page \in Seq(Slot), Len(page) <= RowsPerPage
      PROVE  page \in PageContents
  <2>1. Len(page) \in 0 .. RowsPerPage /\ page \in [1 .. Len(page) -> Slot]
    BY <1>1, <1>3
  <2> QED
    BY <2>1 DEF PageContents, Slot
<1>4. <<>> \in Seq(Slot) /\ Len(<<>>) <= RowsPerPage
  BY <1>1
<1> QED
  BY <1>2, <1>3, <1>4

(* A page with a slot replaced, and with a row more.                       *)
LEMMA PageReplaced ==
    ASSUME NEW page \in PageContents, NEW s \in DOMAIN page,
           NEW r \in Slot
    PROVE  /\ [page EXCEPT ![s] = r] \in PageContents
           /\ Len([page EXCEPT ![s] = r]) = Len(page)
<1>1. page \in Seq(Slot) /\ Len(page) <= RowsPerPage /\ s \in 1 .. Len(page)
  BY PageIsSeq
<1>2. /\ [page EXCEPT ![s] = r] \in Seq(Slot)
      /\ Len([page EXCEPT ![s] = r]) = Len(page)
  BY <1>1, ExceptSeq
<1> QED
  BY <1>1, <1>2, PageIsSeq

LEMMA PageAppended ==
    ASSUME NEW page \in PageContents, NEW r \in Slot,
           Len(page) < RowsPerPage
    PROVE  /\ Append(page, r) \in PageContents
           /\ Len(Append(page, r)) = Len(page) + 1
<1>1. page \in Seq(Slot) /\ Len(page) \in Nat
  BY PageIsSeq
<1>2. Append(page, r) \in Seq(Slot) /\ Len(Append(page, r)) = Len(page) + 1
  BY <1>1
<1>3. RowsPerPage \in Nat
  BY HeapAssumption
<1> QED
  <2>1. Len(Append(page, r)) <= RowsPerPage
    BY <1>1, <1>2, <1>3
  <2> QED
    BY <1>2, <2>1, PageIsSeq

(* DELETE makes a page of a page, the same one when nothing matches.       *)
LEMMA DeletedPage ==
    ASSUME NEW page \in PageContents, NEW st
    PROVE  /\ Deleted(st, page) \in PageContents
           /\ Len(Deleted(st, page)) = Len(page)
           /\ Matches(st.where, page) = {} => Deleted(st, page) = page
<1>1. /\ page \in Seq(Slot) /\ Len(page) <= RowsPerPage /\ Len(page) \in Nat
      /\ DOMAIN page = 1 .. Len(page) /\ Gone \in Slot
  BY PageIsSeq DEF Slot
<1>2. Deleted(st, page) \in [1 .. Len(page) -> Slot]
  BY <1>1 DEF Deleted
<1>3. Deleted(st, page) \in Seq(Slot) /\ Len(Deleted(st, page)) = Len(page)
  BY <1>1, <1>2
<1>4. ASSUME Matches(st.where, page) = {}
      PROVE  Deleted(st, page) = page
  <2>1. Deleted(st, page) = [s \in DOMAIN page |-> page[s]]
    BY <1>4 DEF Deleted
  <2> QED
    BY <1>1, <2>1
<1> QED
  BY <1>1, <1>3, <1>4, PageIsSeq

(* Page.update_row makes a page with at least as many slots.               *)
LEMMA UpdateRowPage ==
    ASSUME NEW page \in PageContents, NEW s \in DOMAIN page,
           NEW r \in Row
    PROVE  /\ UpdateRow(page, s, r).page \in PageContents
           /\ Len(UpdateRow(page, s, r).page) >= Len(page)
           /\ UpdateRow(page, s, r) =
                [page |-> UpdateRow(page, s, r).page,
                 lost |-> UpdateRow(page, s, r).lost]
           /\ UpdateRow(page, s, r).lost \in BOOLEAN
<1> DEFINE changed == [page EXCEPT ![s] = r]
           emptied == [page EXCEPT ![s] = Gone]
<1>1. r \in Slot /\ Gone \in Slot
  BY DEF Slot
<1>2. /\ changed \in PageContents /\ Len(changed) = Len(page)
      /\ emptied \in PageContents /\ Len(emptied) = Len(page)
  BY <1>1, PageReplaced
<1>3. Len(page) \in Nat
  BY PageIsSeq
<1> HIDE DEF changed, emptied
<1>4. CASE SameWidth(page[s], r)
  <2>1. UpdateRow(page, s, r) = [page |-> changed, lost |-> FALSE]
    BY <1>4 DEF UpdateRow, changed
  <2> QED
    BY <1>2, <1>3, <2>1
<1>5. CASE ~ SameWidth(page[s], r) /\ Len(page) < RowsPerPage
  <2>1. UpdateRow(page, s, r) = [page |-> Append(emptied, r), lost |-> FALSE]
    BY <1>5 DEF UpdateRow, emptied
  <2>2. /\ Append(emptied, r) \in PageContents
        /\ Len(Append(emptied, r)) = Len(page) + 1
    BY <1>1, <1>2, <1>5, PageAppended
  <2> QED
    BY <1>3, <2>1, <2>2
<1>6. CASE ~ SameWidth(page[s], r) /\ ~ (Len(page) < RowsPerPage)
  <2>1. UpdateRow(page, s, r) = [page |-> emptied, lost |-> TRUE]
    BY <1>6 DEF UpdateRow, emptied
  <2> QED
    BY <1>2, <1>3, <2>1
<1> QED
  BY <1>4, <1>5, <1>6

(* What the clauses of a statement map from and to.                        *)
Yes(st) == {v \in Row : st.where[v] = "yes"}

LEMMA Clauses ==
    ASSUME NEW st \in Statements
    PROVE  /\ st.kind = "insert" => st.row \in Row
           /\ st.kind \in {"delete", "update"} => DOMAIN st.where = Row
           /\ st.kind = "update" =>
                 /\ st.set \in [Row -> Row]
                 /\ \A r \in Row : r \notin Yes(st) => st.set[r] = r
<1>1. \A v : Insert(v).kind = "insert" /\ Insert(v).row = v
  BY DEF Insert
<1>2. Scan.kind = "scan"
  BY DEF Scan
<1>3. \A w : Delete(w).kind = "delete" /\ Delete(w).where = w
  BY DEF Delete
<1>4. \A w, f : /\ Update(w, f).kind = "update"
                /\ Update(w, f).where = w /\ Update(w, f).set = f
  BY DEF Update
<1>5. CASE \E v \in Values : st = Insert(v)
  BY <1>1, <1>5 DEF Row
<1>6. CASE st = Scan
  BY <1>2, <1>6
<1>7. CASE \E w \in Wheres : st = Delete(w)
  BY <1>3, <1>7 DEF Wheres
<1>8. CASE st \in Updates
  <2>1. PICK w \in Wheres, f \in [Row -> Row] : st = Update(w, f)
    BY <1>8 DEF Updates
  <2>2. st.where = w /\ st.set = f /\ st.kind = "update"
    BY <1>4, <2>1
  <2>3. \A r \in Row : st.where[r] # "yes" => st.set[r] = r
    BY <1>8 DEF Updates
  <2>4. DOMAIN st.where = Row
    BY <2>2 DEF Wheres
  <2> QED
    BY <2>2, <2>3, <2>4 DEF Yes
<1> QED
  BY <1>5, <1>6, <1>7, <1>8 DEF Statements

(* What the SET clause makes of a row that matches.                        *)
LEMMA SetIsRow ==
    ASSUME NEW page \in PageContents, NEW st \in Statements,
           st.kind = "update", NEW s \in Matches(st.where, page)
    PROVE  st.set[page[s]] \in Row
<1>1. s \in DOMAIN page /\ page[s] # Gone
  BY DEF Matches
<1>2. page[s] \in Row
  BY <1>1, PageIsSeq DEF Slot
<1> QED
  BY <1>2, Clauses

(* The second loop of update_where, a slot at a time.                      *)
Stages(page) ==
    {a \in [page : PageContents, lost : BOOLEAN] : Len(a.page) >= Len(page)}
Stage(st, page, k, a) ==
    IF a.lost \/ k \notin Matches(st.where, page) THEN a
    ELSE UpdateRow(a.page, k, st.set[page[k]])
IsLoop(done, st, page) ==
    /\ done \in [0 .. Len(page) -> Stages(page)]
    /\ done[0] = [page |-> page, lost |-> FALSE]
    /\ \A k \in 1 .. Len(page) : done[k] = Stage(st, page, k, done[k - 1])
    /\ Updated(st, page) = done[Len(page)]

LEMMA UpdateLoop ==
    ASSUME NEW page \in PageContents, NEW st \in Statements, st.kind = "update"
    PROVE  \E done : IsLoop(done, st, page)
<1> DEFINE n == Len(page)
           V == Stages(page)
           first == [page |-> page, lost |-> FALSE]
           Step(k, a) == Stage(st, page, k, a)
           Rec(f) == [s \in 0 .. Len(page) |->
                        IF s = 0 THEN [page |-> page, lost |-> FALSE]
                        ELSE IF f[s - 1].lost \/ s \notin Matches(st.where, page)
                        THEN f[s - 1]
                        ELSE UpdateRow(f[s - 1].page, s, st.set[page[s]])]
           done == CHOOSE f : f = Rec(f)
<1>1. n \in Nat /\ page \in Seq(Slot)
  BY PageIsSeq
<1>2. first \in V
  BY <1>1 DEF Stages
<1>3. ASSUME NEW k \in 1 .. n, NEW a \in V
      PROVE  Step(k, a) \in V
  <2>1. CASE a.lost \/ k \notin Matches(st.where, page)
    BY <2>1 DEF Stage
  <2>2. CASE ~ (a.lost \/ k \notin Matches(st.where, page))
    <3>1. st.set[page[k]] \in Row
      BY <2>2, SetIsRow
    <3>2. a.page \in PageContents /\ Len(a.page) \in Nat /\ Len(a.page) >= n
          /\ DOMAIN a.page = 1 .. Len(a.page)
      BY <1>3, PageIsSeq DEF Stages
    <3>3. k \in DOMAIN a.page
      BY <1>1, <3>2
    <3> DEFINE u == UpdateRow(a.page, k, st.set[page[k]])
    <3>4. /\ u.page \in PageContents /\ u.lost \in BOOLEAN
          /\ Len(u.page) >= Len(a.page)
          /\ u = [page |-> u.page, lost |-> u.lost]
      BY <3>1, <3>2, <3>3, UpdateRowPage
    <3>5. Len(u.page) \in Nat
      BY <3>4, PageIsSeq
    <3>6. Step(k, a) = u
      BY <2>2 DEF Stage
    <3> HIDE DEF u, Step
    <3>7. u \in [page : PageContents, lost : BOOLEAN]
      BY <3>4
    <3>8. Len(u.page) >= n
      BY <1>1, <3>2, <3>4, <3>5
    <3> QED
      BY <3>6, <3>7, <3>8 DEF Stages
  <2> QED
    BY <2>1, <2>2
<1>4. PICK g \in [0 .. n -> V] :
          g[0] = first /\ \A k \in 1 .. n : g[k] = Step(k, g[k - 1])
  <2> DEFINE step == [ka \in (1 .. n) \X V |-> Step(ka[1], ka[2])]
  <2> HIDE DEF V, Step, first, n
  <2>1. step \in [(1 .. n) \X V -> V]
    BY <1>3
  <2>2. \A k \in 1 .. n, a \in V : step[<<k, a>>] = Step(k, a)
    OBVIOUS
  <2> HIDE DEF step
  <2>3. Recursive(n, V, first, step)
    BY <1>1, <1>2, <2>1, RecursiveFunction
  <2>4. PICK g \in [0 .. n -> V] :
            g[0] = first /\ \A k \in 1 .. n : g[k] = step[<<k, g[k - 1]>>]
    BY <2>3 DEF Recursive
  <2>5. \A k \in 1 .. n : g[k - 1] \in V
    BY <1>1
  <2> QED
    BY <2>2, <2>4, <2>5
<1>5. g = Rec(g)
  <2>1. ASSUME NEW k \in 0 .. n
        PROVE  g[k] = Rec(g)[k]
    BY <1>1, <1>4 DEF Stage
  <2> QED
    BY <2>1
<1>6. done = Rec(done)
  <2> HIDE DEF Rec
  <2> QED
    BY <1>5
<1>7. Updated(st, page) = done[n]
  BY DEF Updated
<1>8. done[0] = first /\ \A k \in 1 .. n : done[k] = Step(k, done[k - 1])
  <2>1. \A k \in 0 .. n : done[k] = Rec(done)[k]
    BY <1>6
  <2> HIDE DEF done
  <2>2. 0 \in 0 .. n /\ \A k \in 1 .. n : k \in 0 .. n /\ k # 0
    BY <1>1
  <2> QED
    BY <2>1, <2>2 DEF Stage
<1>9. DOMAIN done = 0 .. n
  BY <1>6
<1> HIDE DEF done, Step, V, first, Rec
<1>10. done \in [0 .. n -> V]
  <2> DEFINE T == {k \in 0 .. n : done[k] \in V}
  <2>1. 0 \in T
    BY <1>1, <1>2, <1>8
  <2>2. ASSUME NEW k \in 0 .. n, k # 0, k - 1 \in T
        PROVE  k \in T
    <3>1. k \in 1 .. n /\ done[k - 1] \in V
      BY <1>1, <2>2
    <3> QED
      BY <1>3, <1>8, <3>1
  <2>3. 0 .. n \subseteq T
    <3> HIDE DEF T, n
    <3> QED
      BY <1>1, <2>1, <2>2, UpToBound
  <2>4. done = [k \in 0 .. n |-> done[k]]
    <3>1. Rec(done) = [k \in 0 .. n |-> Rec(done)[k]]
      BY DEF Rec
    <3> QED
      BY <1>6, <3>1
  <2>5. \A k \in 0 .. n : done[k] \in V
    BY <2>3
  <2> QED
    BY <2>4, <2>5
<1> QED
  BY <1>7, <1>8, <1>10 DEF IsLoop, V, first, Step

(* UPDATE makes a page of a page, the same one when nothing matches.       *)
LEMMA UpdatedPage ==
    ASSUME NEW page \in PageContents, NEW st \in Statements, st.kind = "update"
    PROVE  /\ Updated(st, page).page \in PageContents
           /\ Len(Updated(st, page).page) >= Len(page)
           /\ Matches(st.where, page) = {} =>
                Updated(st, page) = [page |-> page, lost |-> FALSE]
<1> DEFINE n == Len(page)
           first == [page |-> page, lost |-> FALSE]
<1>1. PICK done : IsLoop(done, st, page)
  BY UpdateLoop
<1>2. n \in Nat
  BY PageIsSeq
<1>3. /\ done[n] \in Stages(page) /\ Updated(st, page) = done[n]
  BY <1>1, <1>2 DEF IsLoop
<1>4. ASSUME Matches(st.where, page) = {}
      PROVE  done[n] = first
  <2> DEFINE T == {k \in 0 .. n : done[k] = first}
  <2>1. 0 \in T
    BY <1>1, <1>2 DEF IsLoop
  <2>2. ASSUME NEW k \in 0 .. n, k # 0, k - 1 \in T
        PROVE  k \in T
    <3>1. k \in 1 .. n /\ done[k - 1] = first
      BY <1>2, <2>2
    <3>2. done[k] = Stage(st, page, k, first)
      BY <1>1, <3>1 DEF IsLoop
    <3>3. Stage(st, page, k, first) = first
      BY <1>4 DEF Stage
    <3> QED
      BY <3>1, <3>2, <3>3
  <2>3. 0 .. n \subseteq T
    <3> HIDE DEF T, n
    <3> QED
      BY <1>2, <2>1, <2>2, UpToBound
  <2>4. n \in T
    <3> HIDE DEF T, n
    <3> QED
      BY <1>2, <2>3
  <2> QED
    BY <2>4
<1> QED
  BY <1>3, <1>4 DEF Stages

-----------------------------------------------------------------------------
(* The table's pool is one that BufferPoolProofs speaks of.                *)

LEMMA PoolConstants == Proofs!PoolAssumption
<1>1. /\ NoPage \notin Pages
      /\ Capacity \in Nat \ {0}
      /\ Policies \subseteq {"LRU", "FIFO"}
      /\ <<>> \in PageContents
      /\ MaxRestarts \in Nat
  BY HeapAssumption, PageIsSeq DEF Pages
<1>2. Proofs!IsFiniteSet(Users)
  <2>1. IsFiniteSet(Users)
    BY HeapAssumption
  <2> QED
    BY <2>1 DEF IsFiniteSet, Proofs!IsFiniteSet
<1>3. Proofs!PoolAssumption
  BY <1>1, <1>2
<1> QED
  BY <1>3

LEMMA SamePool ==
    /\ Pool!Init <=> Proofs!Init
    /\ Pool!View = Proofs!View /\ Pool!View' = Proofs!View'
    /\ Pool!Coherence <=> Proofs!Coherence
    /\ Pool!FlushAll <=> Proofs!FlushAll
    /\ Pool!Restart <=> Proofs!Restart
    /\ Pool!WrittenBack(Pool!DirtyPages) = Proofs!WrittenBack(Proofs!DirtyPages)
    /\ Pool!Dropped(Pages) = Proofs!Dropped(Pages)
<1>1. Pool!Init <=> Proofs!Init
  BY DEF Pool!Init, Proofs!Init
<1>2. Pool!View = Proofs!View /\ Pool!View' = Proofs!View'
  BY DEF Pool!View, Proofs!View, Pool!Cached, Proofs!Cached
<1>3. Pool!Coherence <=> Proofs!Coherence
  BY DEF Pool!Coherence, Proofs!Coherence, Pool!Holders, Proofs!Holders,
         Pool!Cached, Proofs!Cached
<1>4. Pool!FlushAll <=> Proofs!FlushAll
  BY DEF Pool!FlushAll, Proofs!FlushAll, Pool!WrittenBack,
         Proofs!WrittenBack, Pool!DirtyPages, Proofs!DirtyPages,
         Pool!Cleaned, Proofs!Cleaned, Pool!Cached, Proofs!Cached,
         Pool!users, Proofs!users, Pool!process, Proofs!process
<1>5. Pool!Restart <=> Proofs!Restart
  BY DEF Pool!Restart, Proofs!Restart
<1>6. Pool!WrittenBack(Pool!DirtyPages) = Proofs!WrittenBack(Proofs!DirtyPages)
  BY DEF Pool!WrittenBack, Proofs!WrittenBack, Pool!DirtyPages,
         Proofs!DirtyPages, Pool!Cached, Proofs!Cached
<1>7. Pool!Dropped(Pages) = Proofs!Dropped(Pages)
  BY DEF Pool!Dropped, Proofs!Dropped, Pool!Cached, Proofs!Cached
<1> QED
  BY <1>1, <1>2, <1>3, <1>4, <1>5, <1>6, <1>7

LEMMA SameGet ==
    ASSUME NEW u, NEW p
    PROVE  /\ Pool!GetHit(u, p) <=> Proofs!GetHit(u, p)
           /\ Pool!GetMiss(u, p) <=> Proofs!GetMiss(u, p)
           /\ \A victim : Pool!GetEvict(u, p, victim)
                            <=> Proofs!GetEvict(u, p, victim)
           /\ Pool!GetRefused(u, p) => UNCHANGED poolVars
<1>1. Pool!GetHit(u, p) <=> Proofs!GetHit(u, p)
  BY DEF Pool!GetHit, Proofs!GetHit, Pool!Got, Proofs!Got, Pool!Cached,
         Proofs!Cached, Pool!Touched, Proofs!Touched, Pool!Without,
         Proofs!Without, Pool!PositionOf, Proofs!PositionOf,
         Pool!process, Proofs!process
<1>2. Pool!GetMiss(u, p) <=> Proofs!GetMiss(u, p)
  BY DEF Pool!GetMiss, Proofs!GetMiss, Pool!Got, Proofs!Got, Pool!Cached,
         Proofs!Cached, Pool!Full, Proofs!Full, Pool!Loaded,
         Proofs!Loaded, Pool!process, Proofs!process
<1>3. ASSUME NEW victim
      PROVE  Pool!GetEvict(u, p, victim) <=> Proofs!GetEvict(u, p, victim)
  BY DEF Pool!GetEvict, Proofs!GetEvict, Pool!Got, Proofs!Got, Pool!Cached,
         Proofs!Cached, Pool!Full, Proofs!Full, Pool!Loaded, Proofs!Loaded,
         Pool!Dropped, Proofs!Dropped, Pool!Without, Proofs!Without,
         Pool!PositionOf, Proofs!PositionOf, Pool!IsVictim,
         Proofs!IsVictim, Pool!WrittenBack, Proofs!WrittenBack,
         Pool!DirtyPages, Proofs!DirtyPages, Pool!process, Proofs!process
<1>4. Pool!GetRefused(u, p) => UNCHANGED poolVars
  BY DEF Pool!GetRefused, Pool!vars, poolVars
<1> QED
  BY <1>1, <1>2, <1>3, <1>4

LEMMA SameUse ==
    ASSUME NEW u
    PROVE  /\ \A c : Pool!Change(u, c) <=> Proofs!Change(u, c)
           /\ Pool!Unpin(u) <=> Proofs!Unpin(u)
<1>1. ASSUME NEW c
      PROVE  Pool!Change(u, c) <=> Proofs!Change(u, c)
  BY DEF Pool!Change, Proofs!Change, Pool!process, Proofs!process
<1>2. Pool!Unpin(u) <=> Proofs!Unpin(u)
  BY DEF Pool!Unpin, Proofs!Unpin, Pool!process, Proofs!process
<1> QED
  BY <1>1, <1>2

-----------------------------------------------------------------------------
(* What each step does to the pages as the statements see them.            *)
View == Pool!View
CachedPages == DOMAIN frame

LEMMA ViewIsPages ==
    ASSUME Proofs!PoolInv
    PROVE  /\ View \in [Pages -> PageContents]
           /\ \A p \in Pages :
                 View[p] = IF p \in CachedPages THEN frame[p].page ELSE disk[p]
           /\ CachedPages \subseteq Pages
           /\ holds \in [Users -> Pages \cup {NoPage}]
           /\ disk \in [Pages -> PageContents]
<1>1. /\ Proofs!View \in [Pages -> PageContents]
      /\ \A p \in Pages : Proofs!View[p] =
             IF p \in Proofs!Cached THEN frame[p].page ELSE disk[p]
  BY PoolConstants, Proofs!ViewTypes
<1>2. CachedPages = Proofs!Cached
  BY DEF CachedPages, Proofs!Cached
<1>3. /\ Proofs!Cached \subseteq Pages
      /\ holds \in [Users -> Pages \cup {NoPage}]
      /\ disk \in [Pages -> PageContents]
  BY DEF Proofs!PoolInv, Proofs!TypeOK
<1> QED
  BY <1>1, <1>2, <1>3, SamePool DEF View

LEMMA GetStep ==
    ASSUME Proofs!PoolInv, NEW u \in Users, NEW p \in Pages,
           \/ Pool!GetHit(u, p) \/ Pool!GetMiss(u, p)
           \/ \E victim \in DOMAIN frame : Pool!GetEvict(u, p, victim)
    PROVE  /\ Proofs!PoolInv' /\ View' = View
           /\ holds[u] = NoPage /\ holds' = [holds EXCEPT ![u] = p]
           /\ CachedPages' \subseteq CachedPages \cup {p}
<1>1. CASE Pool!GetHit(u, p)
  <2>1. Proofs!GetHit(u, p)
    BY <1>1, SameGet
  <2>2. Proofs!PoolInv' /\ Proofs!Store!Get(u, p)
    BY <2>1, PoolConstants, Proofs!GetHitPoolInv, Proofs!GetHitRefines
  <2>3. CachedPages' = CachedPages
    BY <2>1 DEF Proofs!GetHit, CachedPages
  <2> QED
    BY <2>2, <2>3, SamePool DEF Proofs!Store!Get, View
<1>2. CASE Pool!GetMiss(u, p)
  <2>1. Proofs!GetMiss(u, p)
    BY <1>2, SameGet
  <2>2. Proofs!PoolInv' /\ Proofs!Store!Get(u, p)
    BY <2>1, PoolConstants, Proofs!GetMissPoolInv, Proofs!GetMissRefines
  <2>3. CachedPages' \subseteq CachedPages \cup {p}
    BY <2>1 DEF Proofs!GetMiss, Proofs!Loaded, CachedPages
  <2> QED
    BY <2>2, <2>3, SamePool DEF Proofs!Store!Get, View
<1>3. ASSUME NEW victim \in DOMAIN frame, Pool!GetEvict(u, p, victim)
      PROVE  /\ Proofs!PoolInv' /\ View' = View
             /\ holds[u] = NoPage /\ holds' = [holds EXCEPT ![u] = p]
             /\ CachedPages' \subseteq CachedPages \cup {p}
  <2>1. Proofs!GetEvict(u, p, victim) /\ victim \in Proofs!Cached
    BY <1>3, SameGet DEF Proofs!Cached
  <2>2. Proofs!PoolInv' /\ Proofs!Store!Get(u, p)
    BY <2>1, PoolConstants, Proofs!GetEvictPoolInv, Proofs!GetEvictRefines
  <2>3. CachedPages' \subseteq CachedPages \cup {p}
    BY <2>1 DEF Proofs!GetEvict, Proofs!Loaded, Proofs!Dropped,
                Proofs!Cached, CachedPages
  <2> QED
    BY <2>2, <2>3, SamePool DEF Proofs!Store!Get, View
<1> QED
  BY <1>1, <1>2, <1>3

LEMMA ChangeStep ==
    ASSUME Proofs!PoolInv, NEW u \in Users, NEW c \in PageContents,
           Pool!Change(u, c)
    PROVE  /\ Proofs!PoolInv' /\ View' = [View EXCEPT ![holds[u]] = c]
           /\ holds' = holds /\ CachedPages' = CachedPages
<1>1. Proofs!Change(u, c)
  BY SameUse
<1>2. Proofs!PoolInv' /\ Proofs!Store!Write(u, c)
  BY <1>1, PoolConstants, Proofs!ChangePoolInv, Proofs!ChangeRefines
<1>3. holds' = holds /\ CachedPages' = CachedPages
  BY <1>1 DEF Proofs!Change, CachedPages
<1> QED
  BY <1>2, <1>3, SamePool DEF Proofs!Store!Write, View

LEMMA UnpinStep ==
    ASSUME Proofs!PoolInv, NEW u \in Users, Pool!Unpin(u)
    PROVE  /\ Proofs!PoolInv' /\ View' = View
           /\ holds[u] # NoPage /\ holds' = [holds EXCEPT ![u] = NoPage]
           /\ CachedPages' = CachedPages
<1>1. Proofs!Unpin(u) /\ holds[u] # NoPage
  BY SameUse DEF Pool!Unpin
<1>2. holds[u] \in Pages
  BY <1>1, ViewIsPages
<1>3. Proofs!PoolInv' /\ Proofs!Store!Release(u)
  BY <1>1, <1>2, PoolConstants, Proofs!UnpinPoolInv, Proofs!UnpinRefines
<1>4. CachedPages' = CachedPages
  BY <1>1 DEF Proofs!Unpin, CachedPages
<1> QED
  BY <1>3, <1>4, SamePool DEF Proofs!Store!Release, View

LEMMA FlushStep ==
    ASSUME Proofs!PoolInv, Pool!FlushAll
    PROVE  /\ Proofs!PoolInv' /\ View' = View
           /\ holds' = holds /\ CachedPages' = CachedPages
<1>1. Proofs!FlushAll
  BY SamePool
<1>2. Proofs!PoolInv' /\ Proofs!Store!Flush
  BY <1>1, PoolConstants, Proofs!CleanedPoolInv, Proofs!CleanedRefines
     DEF Proofs!FlushAll
<1>3. CachedPages' = CachedPages
  BY <1>1 DEF Proofs!FlushAll, Proofs!Cleaned, Proofs!Cached, CachedPages
<1> QED
  BY <1>2, <1>3, SamePool DEF Proofs!Store!Flush, View

(* allocate_page touches no cached page: the pool has not got the new one. *)
LEMMA AllocateStep ==
    ASSUME Proofs!PoolInv, NEW p \in Pages, p \notin CachedPages,
           disk' = [disk EXCEPT ![p] = <<>>],
           UNCHANGED <<order, frame, holds, wrote, policy, restarts>>
    PROVE  Proofs!PoolInv' /\ View' = [View EXCEPT ![p] = <<>>]
<1>1. /\ disk' \in [Pages -> PageContents]
      /\ \A q \in Pages : disk'[q] = IF q = p THEN <<>> ELSE disk[q]
  BY ViewIsPages, PageIsSeq
<1>2. Proofs!TypeOK'
  BY <1>1 DEF Proofs!PoolInv, Proofs!TypeOK, Proofs!Cached, Proofs!Frame
<1>3. Proofs!PinsAreHolders'
  BY DEF Proofs!PoolInv, Proofs!PinsAreHolders, Proofs!Cached, Proofs!Holders
<1>4. Proofs!Coherence'
  <2>1. \A q \in Proofs!Cached : disk'[q] = disk[q]
    BY <1>1, ViewIsPages DEF CachedPages, Proofs!Cached
  <2> QED
    BY <2>1 DEF Proofs!PoolInv, Proofs!Coherence, Proofs!Cached,
                Proofs!Holders
<1>5. View' = [View EXCEPT ![p] = <<>>]
  <2>1. View' = [q \in Pages |-> IF q \in CachedPages THEN frame[q].page
                                 ELSE disk'[q]]
    BY SamePool DEF View, Proofs!View, Proofs!Cached, CachedPages
  <2> QED
    BY <1>1, <2>1, ViewIsPages
<1> QED
  BY <1>2, <1>3, <1>4, <1>5 DEF Proofs!PoolInv

(* After a close and a new start the pool is empty.                        *)
LEMMA ReopenStep ==
    ASSUME Proofs!PoolInv,
           disk' = Pool!WrittenBack(Pool!DirtyPages),
           order' = <<>>, frame' = Pool!Dropped(Pages),
           holds' = [u \in Users |-> NoPage],
           wrote' = [u \in Users |-> FALSE],
           UNCHANGED <<policy, restarts>>
    PROVE  Proofs!PoolInv' /\ CachedPages' = {}
<1>1. disk' \in [Pages -> PageContents]
  <2>1. Proofs!DirtyPages \in SUBSET Proofs!Cached
    BY DEF Proofs!DirtyPages
  <2> QED
    BY <2>1, SamePool, PoolConstants, Proofs!WrittenBackTypes
<1>2. CachedPages' = {} /\ Proofs!Cached' = {}
      /\ frame' \in [{} -> Proofs!Frame]
  <2>1. frame' = [q \in Proofs!Cached \ Pages |-> frame[q]]
    BY SamePool DEF Proofs!Dropped
  <2>2. Proofs!Cached \subseteq Pages
    BY DEF Proofs!PoolInv, Proofs!TypeOK
  <2> QED
    BY <2>1, <2>2 DEF CachedPages, Proofs!Cached
<1>3. Proofs!TypeOK'
  <2>1. Capacity \in Nat
    BY HeapAssumption
  <2> QED
    BY <1>1, <1>2, <2>1 DEF Proofs!PoolInv, Proofs!TypeOK
<1>4. Proofs!PinsAreHolders' /\ Proofs!Coherence'
  <2>1. \A u \in Users : holds'[u] = NoPage
    OBVIOUS
  <2> QED
    BY <1>2, <2>1 DEF Proofs!PinsAreHolders, Proofs!Coherence
<1> QED
  BY <1>2, <1>3, <1>4 DEF Proofs!PoolInv

LEMMA KillStep ==
    ASSUME Proofs!PoolInv, Pool!Restart
    PROVE  /\ Proofs!PoolInv' /\ CachedPages' = {}
           /\ holds' = [u \in Users |-> NoPage]
<1>1. Proofs!Restart
  BY SamePool
<1> QED
  BY <1>1, PoolConstants, Proofs!RestartPoolInv DEF Proofs!Restart, CachedPages

-----------------------------------------------------------------------------
(* The inductive invariant.                                                *)

Holding == pc \in {"work", "unpin"}
Pinned == {u \in Users : holds[u] # NoPage}

HeapTypes ==
    /\ count \in 1 .. MaxPages + 1
    /\ at \in 1 .. count
    /\ stmt \in Statements
    /\ pc \in {"idle", "get", "work", "unpin"}
    /\ me \in Users
    /\ raised \in Nat
    /\ start \in [Pages -> PageContents]
    /\ soFar.ok
    /\ IF pc = "idle" THEN stmt = Scan ELSE answer.ok

(* The pool has only pages of the file, the loop has a hold to take, and   *)
(* the page it is at is the one it holds.                                  *)
LoopInv ==
    /\ CachedPages \subseteq 1 .. count - 1
    /\ pc = "get" => IsFree
    /\ Holding => holds[me] = at /\ at < count

PinsInv == Cardinality(Pinned) <= raised + (IF Holding THEN 1 ELSE 0)

(* An INSERT that may not allocate finds room on the last page.            *)
LastHasRoom == Len(View[count - 1]) < RowsPerPage
RoomInv ==
    stmt.kind = "insert" /\ count > MaxPages =>
        /\ pc \in {"get", "work"} => at < count /\ LastHasRoom
        /\ pc = "unpin" /\ soFar.count # 1 => at < count - 1 /\ LastHasRoom

(* A DELETE or an UPDATE has gone through the pages before the loop's and  *)
(* left the others as they were.                                           *)
Done(p) == p < at \/ (p = at /\ pc = "unpin")
ProgressInv ==
    pc # "idle" /\ stmt.kind \in {"delete", "update"} =>
        \A p \in 1 .. count - 1 :
            View[p] = IF Done(p) THEN Outcome(stmt, start[p]) ELSE start[p]

HeapInv ==
    /\ Proofs!PoolInv
    /\ HeapTypes /\ LoopInv /\ PinsInv /\ RoomInv /\ ProgressInv

-----------------------------------------------------------------------------
(* Lemmas for the steps.                                                   *)

LEMMA UnchangedPool ==
    ASSUME Proofs!PoolInv, UNCHANGED poolVars
    PROVE  /\ Proofs!PoolInv' /\ View' = View
           /\ holds' = holds /\ CachedPages' = CachedPages
<1>1. UNCHANGED Proofs!vars
  BY DEF poolVars, Proofs!vars
<1>2. Proofs!PoolInv'
  BY <1>1, PoolConstants, Proofs!NextPoolInv
<1>3. View' = View
  BY DEF poolVars, View, Pool!View, Pool!Cached
<1> QED
  BY <1>2, <1>3 DEF poolVars, CachedPages

LEMMA PinnedFinite == IsFiniteSet(Pinned) /\ Cardinality(Pinned) \in Nat
<1>1. Pinned \subseteq Users /\ IsFiniteSet(Users)
  BY HeapAssumption DEF Pinned
<1> QED
  BY <1>1, FS_Subset, FS_CardinalityType

LEMMA PinnedOneMore ==
    ASSUME holds \in [Users -> Pages \cup {NoPage}], NEW u \in Users,
           NEW p \in Pages, holds[u] = NoPage,
           holds' = [holds EXCEPT ![u] = p]
    PROVE  Cardinality(Pinned') = Cardinality(Pinned) + 1
<1>1. Pinned' = Pinned \cup {u} /\ u \notin Pinned
  BY HeapAssumption DEF Pinned, Pages
<1> QED
  BY <1>1, PinnedFinite, FS_AddElement

LEMMA PinnedOneLess ==
    ASSUME holds \in [Users -> Pages \cup {NoPage}], NEW u \in Users,
           holds[u] # NoPage, holds' = [holds EXCEPT ![u] = NoPage]
    PROVE  Cardinality(Pinned') = Cardinality(Pinned) - 1
<1>1. Pinned' = Pinned \ {u} /\ u \in Pinned
  BY DEF Pinned
<1> QED
  BY <1>1, PinnedFinite, FS_RemoveElement

LEMMA NothingPinned ==
    ASSUME holds' = [u \in Users |-> NoPage]
    PROVE  Cardinality(Pinned') = 0
<1>1. Pinned' = {}
  BY DEF Pinned
<1> QED
  BY <1>1, FS_EmptySet

LEMMA FreeIsFree ==
    ASSUME IsFree
    PROVE  Free \in Users /\ holds[Free] = NoPage
<1> QED
  BY DEF IsFree, Free

(* The page in the loop's hands is the one the table has there.            *)
LEMMA HereIsView ==
    ASSUME HeapInv, Holding
    PROVE  /\ at \in Pages /\ me \in Users /\ holds[me] = at
           /\ Here = View[at] /\ Here \in PageContents
<1>1. /\ at \in 1 .. count /\ count \in 1 .. MaxPages + 1 /\ me \in Users
      /\ holds[me] = at /\ at < count
  BY DEF HeapInv, HeapTypes, LoopInv
<1>2. at \in Pages
  BY <1>1, HeapAssumption DEF Pages
<1>3. at # NoPage
  BY <1>2, HeapAssumption DEF Pages
<1>4. at \in CachedPages
  BY <1>1, <1>3 DEF HeapInv, Proofs!PoolInv, Proofs!PinsAreHolders,
                    Proofs!Cached, CachedPages
<1>5. View[at] = frame[at].page /\ View[at] \in PageContents
  BY <1>2, <1>4, ViewIsPages DEF HeapInv
<1> QED
  BY <1>1, <1>2, <1>5 DEF Here

LEMMA Kinds ==
    ASSUME NEW st \in Statements
    PROVE  /\ st.kind \in {"insert", "scan", "delete", "update"}
           /\ st.kind = "insert" => st.row \in Slot
<1>1. \A v : Insert(v).kind = "insert" /\ Insert(v).row = v
  BY DEF Insert
<1>2. Scan.kind = "scan"
  BY DEF Scan
<1>3. \A w : Delete(w).kind = "delete"
  BY DEF Delete
<1>4. \A w, f : Update(w, f).kind = "update"
  BY DEF Update
<1> QED
  BY <1>1, <1>2, <1>3, <1>4 DEF Statements, Updates, Slot, Row

LEMMA InitInv == Init => HeapInv
<1> SUFFICES ASSUME Init PROVE HeapInv
  OBVIOUS
<1>1. Proofs!Init
  BY SamePool DEF Init
<1>2. Proofs!PoolInv
  BY <1>1, PoolConstants, Proofs!InitPoolInv
<1>3. HeapTypes
  <2>1. Scan \in Statements /\ NoAnswer.ok
    BY DEF Statements, NoAnswer, Answer
  <2>2. me \in Users
    BY HeapAssumption DEF Init
  <2>3. start \in [Pages -> PageContents]
    BY PageIsSeq DEF Init
  <2> QED
    BY <2>1, <2>2, <2>3, HeapAssumption DEF Init, HeapTypes
<1>4. CachedPages = {} /\ Pinned = {}
  BY <1>1 DEF Proofs!Init, CachedPages, Pinned
<1>5. Cardinality(Pinned) = 0
  BY <1>4, FS_EmptySet
<1>6. LoopInv /\ PinsInv /\ RoomInv /\ ProgressInv
  BY <1>4, <1>5 DEF Init, LoopInv, PinsInv, RoomInv, ProgressInv, Holding
<1> QED
  BY <1>2, <1>3, <1>6 DEF HeapInv

-----------------------------------------------------------------------------
(* The invariant step by step.                                             *)

(* A call that returns leaves the locals of no call.                       *)
LEMMA ReturnedTypes ==
    ASSUME HeapTypes, Returned, UNCHANGED <<count, me>>, raised' \in Nat
    PROVE  HeapTypes' /\ pc' = "idle" /\ RoomInv' /\ ProgressInv'
<1>1. /\ pc' = "idle" /\ stmt' = Scan /\ at' = 1 /\ soFar' = NoAnswer
      /\ start' = [p \in Pages |-> <<>>]
  BY DEF Returned
<1>2. Scan \in Statements /\ NoAnswer.ok
  BY DEF Statements, NoAnswer, Answer
<1>3. start' \in [Pages -> PageContents]
  BY <1>1, PageIsSeq
<1>4. HeapTypes'
  BY <1>1, <1>2, <1>3 DEF HeapTypes
<1>5. RoomInv' /\ ProgressInv'
  BY <1>1 DEF RoomInv, ProgressInv
<1> QED
  BY <1>1, <1>4, <1>5

LEMMA BeginInv ==
    ASSUME HeapInv, NEW st \in Statements, Begin(st)
    PROVE  HeapInv' /\ View' = View
<1>1. /\ UNCHANGED poolVars /\ pc = "idle" /\ pc' = "get" /\ at' = 1
      /\ stmt' = st /\ start' = View /\ soFar' = NoAnswer /\ answer' = NoAnswer
      /\ count' = count /\ me' = me /\ raised' = raised
      /\ RoomFor(st) /\ IsFree
  BY DEF Begin, View
<1>2. /\ Proofs!PoolInv' /\ View' = View
      /\ holds' = holds /\ CachedPages' = CachedPages
  BY <1>1, UnchangedPool DEF HeapInv
<1>3. HeapTypes'
  <2>1. View \in [Pages -> PageContents]
    BY ViewIsPages DEF HeapInv
  <2>2. 1 \in 1 .. count
    BY DEF HeapInv, HeapTypes
  <2> QED
    BY <1>1, <2>1, <2>2 DEF HeapInv, HeapTypes, NoAnswer, Answer
<1>4. LoopInv' /\ PinsInv'
  <2>1. IsFree' /\ Pinned' = Pinned
    BY <1>1, <1>2 DEF IsFree, Pinned
  <2> QED
    BY <1>1, <1>2, <2>1 DEF HeapInv, LoopInv, PinsInv, Holding
<1>5. RoomInv'
  <2>1. count > MaxPages => 1 < count
    BY HeapAssumption DEF HeapInv, HeapTypes
  <2> QED
    BY <1>1, <1>2, <2>1 DEF RoomInv, RoomFor, LastHasRoom, View
<1>6. ProgressInv'
  <2> SUFFICES ASSUME NEW p \in 1 .. count - 1
               PROVE  ~ Done(p)' /\ View[p] = start'[p]
    BY <1>1, <1>2 DEF ProgressInv
  <2> QED
    BY <1>1 DEF Done
<1> QED
  BY <1>2, <1>3, <1>4, <1>5, <1>6 DEF HeapInv

LEMMA GetPageInv ==
    ASSUME HeapInv, GetPage
    PROVE  HeapInv' /\ View' = View
<1>1. /\ pc = "get" /\ pc' = "work" /\ at < count /\ me' = Free
      /\ UNCHANGED <<count, stmt, at, soFar, answer, start, raised>>
  BY DEF GetPage
<1>2. Free \in Users /\ at \in Pages /\ at \in 1 .. count - 1
  <2>1. IsFree
    BY <1>1 DEF HeapInv, LoopInv
  <2>2. at \in 1 .. count /\ count \in 1 .. MaxPages + 1
    BY DEF HeapInv, HeapTypes
  <2> QED
    BY <1>1, <2>1, <2>2, FreeIsFree, HeapAssumption DEF Pages
<1>3. /\ Proofs!PoolInv' /\ View' = View
      /\ holds[Free] = NoPage /\ holds' = [holds EXCEPT ![Free] = at]
      /\ CachedPages' \subseteq CachedPages \cup {at}
  <2>1. \/ Pool!GetHit(Free, at) \/ Pool!GetMiss(Free, at)
        \/ \E victim \in DOMAIN frame : Pool!GetEvict(Free, at, victim)
    BY DEF GetPage
  <2> QED
    BY <1>2, <2>1, GetStep DEF HeapInv
<1>4. holds \in [Users -> Pages \cup {NoPage}]
  BY ViewIsPages DEF HeapInv
<1>5. HeapTypes'
  BY <1>1, <1>2 DEF HeapInv, HeapTypes
<1>6. LoopInv'
  BY <1>1, <1>2, <1>3, <1>4 DEF HeapInv, LoopInv, Holding
<1>7. PinsInv'
  <2>1. Cardinality(Pinned') = Cardinality(Pinned) + 1
    BY <1>2, <1>3, <1>4, PinnedOneMore
  <2>2. /\ Cardinality(Pinned) <= raised /\ raised \in Nat
        /\ Cardinality(Pinned) \in Nat
    BY <1>1, PinnedFinite DEF HeapInv, HeapTypes, PinsInv, Holding
  <2> QED
    BY <1>1, <2>1, <2>2 DEF PinsInv, Holding
<1>8. RoomInv'
  BY <1>1, <1>3 DEF HeapInv, RoomInv, LastHasRoom
<1>9. ProgressInv'
  <2>1. \A p : Done(p)' <=> Done(p)
    BY <1>1 DEF Done
  <2> QED
    BY <1>1, <1>3, <2>1 DEF HeapInv, ProgressInv, Outcome
<1> QED
  BY <1>3, <1>5, <1>6, <1>7, <1>8, <1>9 DEF HeapInv

(* A statement that ends, or is refused its page, leaves the loop's hold.  *)
LEMMA EndInv ==
    ASSUME HeapInv, pc = "get", Returned, UNCHANGED poolVars,
           UNCHANGED <<count, me, raised>>
    PROVE  HeapInv'
<1>1. /\ Proofs!PoolInv' /\ View' = View
      /\ holds' = holds /\ CachedPages' = CachedPages
  BY UnchangedPool DEF HeapInv
<1>2. HeapTypes' /\ pc' = "idle" /\ RoomInv' /\ ProgressInv'
  BY ReturnedTypes DEF HeapInv, HeapTypes
<1>3. LoopInv' /\ PinsInv'
  BY <1>1, <1>2 DEF HeapInv, LoopInv, PinsInv, Holding, Pinned
<1> QED
  BY <1>1, <1>2, <1>3 DEF HeapInv

LEMMA AllocateInv ==
    ASSUME HeapInv, AllocatePage
    PROVE  HeapInv' /\ View' = [View EXCEPT ![count] = <<>>]
<1>1. /\ pc = "get" /\ stmt.kind = "insert" /\ at = count
      /\ disk' = [disk EXCEPT ![count] = <<>>] /\ count' = count + 1
      /\ UNCHANGED <<order, frame, holds, wrote, policy, restarts>>
      /\ UNCHANGED <<stmt, pc, at, me, soFar, answer, start, raised>>
  BY DEF AllocatePage
<1>2. /\ count \in 1 .. MaxPages + 1 /\ MaxPages \in Nat /\ at \in 1 .. count
      /\ CachedPages \subseteq 1 .. count - 1
  BY HeapAssumption DEF HeapInv, HeapTypes, LoopInv
<1>3. count <= MaxPages
  BY <1>1, <1>2 DEF HeapInv, RoomInv
<1>4. count \in Pages /\ count \notin CachedPages
  BY <1>2, <1>3 DEF Pages
<1>5. Proofs!PoolInv' /\ View' = [View EXCEPT ![count] = <<>>]
  BY <1>1, <1>4, AllocateStep DEF HeapInv
<1>6. HeapTypes'
  BY <1>1, <1>2, <1>3 DEF HeapInv, HeapTypes
<1>7. LoopInv' /\ PinsInv'
  <2>1. CachedPages' = CachedPages /\ Pinned' = Pinned /\ IsFree' = IsFree
    BY <1>1 DEF CachedPages, Pinned, IsFree
  <2>2. 1 .. count - 1 \subseteq 1 .. count' - 1
    BY <1>1, <1>2
  <2> QED
    BY <1>1, <1>2, <2>1, <2>2 DEF HeapInv, LoopInv, PinsInv, Holding
<1>8. RoomInv'
  <2>1. View'[count' - 1] = <<>>
    BY <1>1, <1>2, <1>4, <1>5, ViewIsPages DEF HeapInv
  <2>2. Len(<<>>) < RowsPerPage
    BY HeapAssumption
  <2>3. at' < count'
    BY <1>1, <1>2
  <2> QED
    BY <1>1, <2>1, <2>2, <2>3 DEF RoomInv, LastHasRoom
<1>9. ProgressInv'
  BY <1>1 DEF ProgressInv
<1> QED
  BY <1>5, <1>6, <1>7, <1>8, <1>9 DEF HeapInv

(* What a statement makes of its page when it goes on.                     *)
Worked(c) ==
    /\ Proofs!PoolInv' /\ View' = [View EXCEPT ![at] = c]
    /\ holds' = holds /\ CachedPages' = CachedPages
    /\ soFar'.ok
    /\ Len(c) >= Len(Here)
    /\ stmt.kind = "insert" =>
          IF HasRoom THEN c = Append(Here, stmt.row) /\ soFar' = Answer(1, <<>>)
                     ELSE c = Here /\ soFar' = soFar
    /\ stmt.kind = "scan" =>
          c = Here /\ soFar' = Answer(0, soFar.rows \o Live(Here))
    /\ stmt.kind \in {"delete", "update"} =>
          /\ c = Outcome(stmt, Here)
          /\ soFar' = IF Matches(stmt.where, Here) = {} THEN soFar ELSE Counted
    /\ stmt.kind = "update" => ~ Updated(stmt, Here).lost

LEMMA UnchangedWorked ==
    ASSUME HeapInv, Holding, UNCHANGED poolVars
    PROVE  /\ Proofs!PoolInv' /\ View' = [View EXCEPT ![at] = Here]
           /\ holds' = holds /\ CachedPages' = CachedPages
<1>1. View \in [Pages -> PageContents] /\ at \in Pages /\ Here = View[at]
  BY HereIsView, ViewIsPages DEF HeapInv
<1>2. View = [View EXCEPT ![at] = Here]
  BY <1>1
<1> QED
  BY <1>2, UnchangedPool DEF HeapInv

LEMMA ChangedWorked ==
    ASSUME HeapInv, Holding, NEW c \in PageContents, Pool!Change(me, c)
    PROVE  /\ Proofs!PoolInv' /\ View' = [View EXCEPT ![at] = c]
           /\ holds' = holds /\ CachedPages' = CachedPages
<1> QED
  BY HereIsView, ChangeStep DEF HeapInv

LEMMA WorkedStep ==
    ASSUME HeapInv, Work
    PROVE  \E c \in PageContents : Worked(c)
<1>1. Holding
  BY DEF Work, Holding
<1>2. /\ Here \in PageContents /\ stmt \in Statements /\ soFar.ok
      /\ Len(Here) \in Nat
  BY <1>1, HereIsView, PageIsSeq DEF HeapInv, HeapTypes
<1>3. CASE InsertRow
  <2>1. stmt.kind = "insert" /\ HasRoom /\ soFar' = Answer(1, <<>>)
        /\ Pool!Change(me, Append(Here, stmt.row))
    BY <1>3 DEF InsertRow
  <2>2. /\ Append(Here, stmt.row) \in PageContents
        /\ Len(Append(Here, stmt.row)) = Len(Here) + 1
    BY <1>2, <2>1, Kinds, PageAppended DEF HasRoom
  <2>3. soFar'.ok
    BY <2>1 DEF Answer
  <2>4. Len(Append(Here, stmt.row)) >= Len(Here)
    BY <1>2, <2>2
  <2> QED
    BY <1>1, <2>1, <2>2, <2>3, <2>4, ChangedWorked DEF Worked
<1>4. CASE PageFull
  <2>1. stmt.kind = "insert" /\ ~ HasRoom /\ UNCHANGED poolVars
        /\ soFar' = soFar
    BY <1>4 DEF PageFull
  <2>2. Worked(Here)
    BY <1>1, <1>2, <2>1, UnchangedWorked DEF Worked
  <2> QED
    BY <1>2, <2>2
<1>5. CASE ScanPage
  <2>1. stmt.kind = "scan" /\ UNCHANGED poolVars
        /\ soFar' = Answer(0, soFar.rows \o Live(Here))
    BY <1>5 DEF ScanPage
  <2>2. soFar'.ok
    BY <2>1 DEF Answer
  <2>3. Worked(Here)
    BY <1>1, <1>2, <2>1, <2>2, UnchangedWorked DEF Worked
  <2> QED
    BY <1>2, <2>3
<1>6. CASE NothingMatches
  <2>1. /\ stmt.kind \in {"delete", "update"}
        /\ Matches(stmt.where, Here) = {}
        /\ UNCHANGED poolVars /\ soFar' = soFar
    BY <1>6 DEF NothingMatches
  <2>2. /\ Outcome(stmt, Here) = Here
        /\ stmt.kind = "update" => ~ Updated(stmt, Here).lost
    <3>1. CASE stmt.kind = "delete"
      BY <1>2, <2>1, <3>1, DeletedPage DEF Outcome
    <3>2. CASE stmt.kind = "update"
      <4>1. Updated(stmt, Here) = [page |-> Here, lost |-> FALSE]
        BY <1>2, <2>1, <3>2, UpdatedPage
      <4> QED
        BY <3>2, <4>1 DEF Outcome
    <3> QED
      BY <2>1, <3>1, <3>2
  <2>3. Worked(Here)
    BY <1>1, <1>2, <2>1, <2>2, UnchangedWorked DEF Worked
  <2> QED
    BY <1>2, <2>3
<1>7. CASE DeleteRows
  <2>1. /\ stmt.kind = "delete" /\ Matches(stmt.where, Here) # {}
        /\ Pool!Change(me, Deleted(stmt, Here)) /\ soFar' = Counted
    BY <1>7 DEF DeleteRows
  <2>2. /\ Deleted(stmt, Here) \in PageContents
        /\ Len(Deleted(stmt, Here)) >= Len(Here)
    <3>1. /\ Deleted(stmt, Here) \in PageContents
          /\ Len(Deleted(stmt, Here)) = Len(Here)
      BY <1>2, DeletedPage
    <3> QED
      BY <1>2, <3>1
  <2>3. Outcome(stmt, Here) = Deleted(stmt, Here) /\ soFar'.ok
    BY <2>1 DEF Outcome, Counted, Answer
  <2> QED
    BY <1>1, <2>1, <2>2, <2>3, ChangedWorked DEF Worked
<1>8. CASE UpdateRows
  <2>1. /\ stmt.kind = "update" /\ Matches(stmt.where, Here) # {}
        /\ ~ Updated(stmt, Here).lost
        /\ Pool!Change(me, Updated(stmt, Here).page) /\ soFar' = Counted
    BY <1>8 DEF UpdateRows
  <2>2. /\ Updated(stmt, Here).page \in PageContents
        /\ Len(Updated(stmt, Here).page) >= Len(Here)
    BY <1>2, <2>1, UpdatedPage
  <2>3. Outcome(stmt, Here) = Updated(stmt, Here).page /\ soFar'.ok
    BY <2>1 DEF Outcome, Counted, Answer
  <2> QED
    BY <1>1, <2>1, <2>2, <2>3, ChangedWorked DEF Worked
<1> QED
  BY <1>3, <1>4, <1>5, <1>6, <1>7, <1>8 DEF Work

LEMMA WorkInv ==
    ASSUME HeapInv, Work
    PROVE  HeapInv'
<1>1. /\ pc = "work" /\ pc' = "unpin" /\ Holding
      /\ UNCHANGED <<count, stmt, at, me, answer, start, raised>>
  BY DEF Work, NextStep, Holding
<1>2. PICK c \in PageContents : Worked(c)
  BY WorkedStep
<1>3. /\ at \in Pages /\ Here = View[at] /\ at \in 1 .. count - 1
      /\ View \in [Pages -> PageContents]
      /\ count \in 1 .. MaxPages + 1 /\ MaxPages \in Nat
  BY <1>1, HereIsView, ViewIsPages, HeapAssumption
     DEF HeapInv, HeapTypes, LoopInv
<1>4. /\ View'[at] = c /\ \A p \in Pages : p # at => View'[p] = View[p]
  BY <1>2, <1>3 DEF Worked
<1>5. HeapTypes'
  BY <1>1, <1>2 DEF HeapInv, HeapTypes, Worked
<1>6. LoopInv' /\ PinsInv'
  BY <1>1, <1>2 DEF HeapInv, LoopInv, PinsInv, Holding, Pinned, Worked
<1>7. RoomInv'
  <2> SUFFICES ASSUME stmt.kind = "insert", count > MaxPages,
                      soFar'.count # 1
               PROVE  at < count - 1 /\ LastHasRoom'
    BY <1>1 DEF RoomInv
  <2>1. Here = c /\ ~ HasRoom
    BY <1>2 DEF Worked, Answer
  <2>2. LastHasRoom
    BY <1>1 DEF HeapInv, RoomInv
  <2>3. at # count - 1
    BY <1>3, <2>1, <2>2 DEF LastHasRoom, HasRoom
  <2>4. View'[count - 1] = View[count - 1]
    <3>1. count - 1 \in Pages
      BY <1>3 DEF Pages
    <3> QED
      BY <1>4, <2>3, <3>1
  <2> QED
    BY <1>1, <1>3, <2>2, <2>3, <2>4 DEF LastHasRoom
<1>8. ProgressInv'
  <2> SUFFICES ASSUME stmt.kind \in {"delete", "update"},
                      NEW p \in 1 .. count - 1
               PROVE  View'[p] = IF Done(p)' THEN Outcome(stmt, start[p])
                                 ELSE start[p]
    BY <1>1 DEF ProgressInv, Outcome
  <2>1. View[p] = IF Done(p) THEN Outcome(stmt, start[p]) ELSE start[p]
    BY <1>1 DEF HeapInv, ProgressInv
  <2>2. p \in Pages
    BY <1>3 DEF Pages
  <2>3. CASE p = at
    <3>1. ~ Done(p) /\ Done(p)'
      BY <1>1, <1>3, <2>3 DEF Done
    <3>2. View'[p] = Outcome(stmt, Here)
      BY <1>2, <1>4, <2>3 DEF Worked
    <3> QED
      BY <1>3, <2>1, <2>3, <3>1, <3>2
  <2>4. CASE p # at
    <3>1. Done(p) <=> Done(p)'
      BY <1>1, <2>4 DEF Done
    <3> QED
      BY <1>4, <2>1, <2>2, <2>4, <3>1
  <2> QED
    BY <2>3, <2>4
<1> QED
  BY <1>2, <1>5, <1>6, <1>7, <1>8 DEF HeapInv, Worked

(* A statement that raises leaves no page pinned but its own, and counts.  *)
LEMMA AbandonInv ==
    ASSUME HeapInv, pc = "work", Abandon, Proofs!PoolInv',
           holds' = holds, CachedPages' = CachedPages
    PROVE  HeapInv'
<1>1. Returned /\ raised' = raised + 1 /\ UNCHANGED <<count, me>>
  BY DEF Abandon
<1>2. HeapTypes' /\ pc' = "idle" /\ RoomInv' /\ ProgressInv'
  BY <1>1, ReturnedTypes DEF HeapInv, HeapTypes
<1>3. LoopInv'
  BY <1>1, <1>2 DEF HeapInv, LoopInv, Holding
<1>4. PinsInv'
  <2>1. Cardinality(Pinned) <= raised + 1 /\ raised \in Nat
    BY DEF HeapInv, HeapTypes, PinsInv, Holding
  <2>2. Pinned' = Pinned
    BY DEF Pinned
  <2> QED
    BY <1>1, <1>2, <2>1, <2>2 DEF PinsInv, Holding
<1> QED
  BY <1>2, <1>3, <1>4 DEF HeapInv

LEMMA RaisesInv ==
    ASSUME HeapInv, ClauseRaises \/ ScanRaises
    PROVE  HeapInv' /\ View' = View
<1>1. pc = "work" /\ UNCHANGED poolVars /\ Abandon
  BY DEF ClauseRaises, ScanRaises
<1>2. /\ Proofs!PoolInv' /\ View' = View
      /\ holds' = holds /\ CachedPages' = CachedPages
  BY <1>1, UnchangedPool DEF HeapInv
<1> QED
  BY <1>1, <1>2, AbandonInv

LEMMA NoRoomInv ==
    ASSUME HeapInv, UpdateFindsNoRoom
    PROVE  /\ HeapInv'
           /\ View' = [View EXCEPT ![at] = Outcome(stmt, Here)]
<1>1. /\ pc = "work" /\ Holding /\ Abandon
      /\ stmt.kind = "update" /\ ~ RaisesOn(stmt, Here)
      /\ Pool!Change(me, Updated(stmt, Here).page)
  BY DEF UpdateFindsNoRoom, Holding
<1>2. Here \in PageContents /\ stmt \in Statements
  BY <1>1, HereIsView DEF HeapInv, HeapTypes
<1>3. Updated(stmt, Here).page \in PageContents
  BY <1>1, <1>2, UpdatedPage
<1>4. Outcome(stmt, Here) = Updated(stmt, Here).page
  BY <1>1 DEF Outcome
<1>5. /\ Proofs!PoolInv' /\ View' = [View EXCEPT ![at] = Outcome(stmt, Here)]
      /\ holds' = holds /\ CachedPages' = CachedPages
  BY <1>1, <1>3, <1>4, ChangedWorked
<1> QED
  BY <1>1, <1>5, AbandonInv

LEMMA UnpinInv ==
    ASSUME HeapInv, UnpinPage
    PROVE  HeapInv' /\ View' = View
<1>1. /\ pc = "unpin" /\ Holding /\ Pool!Unpin(me)
      /\ UNCHANGED <<count, me, raised>>
      /\ IF stmt.kind = "insert" /\ soFar.count = 1
         THEN Returned /\ answer' = soFar ELSE NextPage /\ pc' = "get"
  BY DEF UnpinPage, NextPage, Holding
<1>2. /\ at \in 1 .. count /\ at < count /\ count \in 1 .. MaxPages + 1
      /\ MaxPages \in Nat /\ me \in Users
      /\ holds \in [Users -> Pages \cup {NoPage}]
  BY <1>1, ViewIsPages, HeapAssumption DEF HeapInv, HeapTypes, LoopInv
<1>3. /\ Proofs!PoolInv' /\ View' = View
      /\ holds[me] # NoPage /\ holds' = [holds EXCEPT ![me] = NoPage]
      /\ CachedPages' = CachedPages
  BY <1>1, <1>2, UnpinStep DEF HeapInv
<1>4. pc' \in {"idle", "get"}
  BY <1>1 DEF Returned
<1>5. LoopInv'
  <2>1. IsFree'
    <3>1. me \in Users /\ holds'[me] = NoPage
      BY <1>2, <1>3
    <3> QED
      BY <3>1 DEF IsFree
  <2> QED
    BY <1>1, <1>3, <1>4, <2>1 DEF HeapInv, LoopInv, Holding
<1>6. PinsInv'
  <2>1. Cardinality(Pinned') = Cardinality(Pinned) - 1
    BY <1>2, <1>3, PinnedOneLess
  <2>2. /\ Cardinality(Pinned) <= raised + 1 /\ raised \in Nat
        /\ Cardinality(Pinned) \in Nat
    BY <1>1, PinnedFinite DEF HeapInv, HeapTypes, PinsInv, Holding
  <2> QED
    BY <1>1, <1>4, <2>1, <2>2 DEF PinsInv, Holding
<1>7. HeapTypes' /\ RoomInv' /\ ProgressInv'
  <2>1. CASE stmt.kind = "insert" /\ soFar.count = 1
    BY <1>1, <2>1, ReturnedTypes DEF HeapInv, HeapTypes
  <2>2. CASE ~ (stmt.kind = "insert" /\ soFar.count = 1)
    <3>1. /\ pc' = "get" /\ at' = at + 1
          /\ UNCHANGED <<stmt, soFar, answer, start>>
      BY <1>1, <2>2 DEF NextPage
    <3>2. HeapTypes'
      BY <1>1, <1>2, <3>1 DEF HeapInv, HeapTypes
    <3>3. RoomInv'
      <4> SUFFICES ASSUME stmt.kind = "insert", count > MaxPages
                   PROVE  at' < count /\ LastHasRoom'
        BY <1>1, <3>1 DEF RoomInv
      <4>1. at < count - 1 /\ LastHasRoom
        BY <1>1, <2>2 DEF HeapInv, RoomInv
      <4> QED
        BY <1>1, <1>2, <1>3, <3>1, <4>1 DEF LastHasRoom
    <3>4. ProgressInv'
      <4> SUFFICES ASSUME stmt.kind \in {"delete", "update"},
                          NEW p \in 1 .. count - 1
                   PROVE  View[p] = IF Done(p)' THEN Outcome(stmt, start[p])
                                    ELSE start[p]
        BY <1>1, <1>3, <3>1 DEF ProgressInv, Outcome
      <4>1. View[p] = IF Done(p) THEN Outcome(stmt, start[p]) ELSE start[p]
        BY <1>1 DEF HeapInv, ProgressInv
      <4>2. Done(p) <=> Done(p)'
        BY <1>1, <1>2, <3>1 DEF Done
      <4> QED
        BY <4>1, <4>2
    <3> QED
      BY <3>2, <3>3, <3>4
  <2> QED
    BY <2>1, <2>2
<1> QED
  BY <1>3, <1>5, <1>6, <1>7 DEF HeapInv

LEMMA FlushInv ==
    ASSUME HeapInv, Flush
    PROVE  HeapInv' /\ View' = View
<1>1. /\ pc = "idle" /\ Pool!FlushAll
      /\ UNCHANGED <<count, stmt, pc, at, me, soFar, answer, start, raised>>
  BY DEF Flush
<1>2. /\ Proofs!PoolInv' /\ View' = View
      /\ holds' = holds /\ CachedPages' = CachedPages
  BY <1>1, FlushStep DEF HeapInv
<1>3. HeapTypes'
  BY <1>1 DEF HeapInv, HeapTypes
<1>4. LoopInv' /\ PinsInv'
  BY <1>1, <1>2 DEF HeapInv, LoopInv, PinsInv, Holding, Pinned
<1>5. RoomInv' /\ ProgressInv'
  BY <1>1 DEF RoomInv, ProgressInv
<1> QED
  BY <1>2, <1>3, <1>4, <1>5 DEF HeapInv

(* Nothing is pinned in the empty pool of a new opening.                   *)
LEMMA EmptyPoolInv ==
    ASSUME HeapInv, Proofs!PoolInv', CachedPages' = {},
           holds' = [u \in Users |-> NoPage],
           pc' = "idle", raised' = 0, HeapTypes'
    PROVE  HeapInv'
<1>1. Cardinality(Pinned') = 0
  BY NothingPinned
<1>2. LoopInv' /\ PinsInv'
  BY <1>1 DEF LoopInv, PinsInv, Holding
<1>3. RoomInv' /\ ProgressInv'
  BY DEF RoomInv, ProgressInv
<1> QED
  BY <1>2, <1>3 DEF HeapInv

LEMMA ReopenInv ==
    ASSUME HeapInv, Reopen
    PROVE  HeapInv'
<1>1. /\ pc' = "idle" /\ raised' = 0 /\ pc = "idle"
      /\ holds' = [u \in Users |-> NoPage]
      /\ UNCHANGED <<count, stmt, pc, at, me, soFar, answer, start>>
  BY DEF Reopen
<1>2. Proofs!PoolInv' /\ CachedPages' = {}
  BY ReopenStep DEF Reopen, HeapInv
<1>3. HeapTypes'
  BY <1>1 DEF HeapInv, HeapTypes
<1> QED
  BY <1>1, <1>2, <1>3, EmptyPoolInv

LEMMA KillInv ==
    ASSUME HeapInv, Kill
    PROVE  HeapInv'
<1>1. /\ Returned /\ raised' = 0 /\ Pool!Restart /\ UNCHANGED <<count, me>>
  BY DEF Kill
<1>2. /\ Proofs!PoolInv' /\ CachedPages' = {}
      /\ holds' = [u \in Users |-> NoPage]
  BY <1>1, KillStep DEF HeapInv
<1>3. HeapTypes' /\ pc' = "idle"
  BY <1>1, ReturnedTypes DEF HeapInv
<1> QED
  BY <1>1, <1>2, <1>3, EmptyPoolInv

LEMMA StutterInv ==
    ASSUME HeapInv, UNCHANGED vars
    PROVE  HeapInv' /\ View' = View
<1>1. /\ UNCHANGED poolVars
      /\ UNCHANGED <<count, stmt, pc, at, me, soFar, answer, start, raised>>
  BY DEF vars
<1>2. /\ Proofs!PoolInv' /\ View' = View
      /\ holds' = holds /\ CachedPages' = CachedPages
  BY <1>1, UnchangedPool DEF HeapInv
<1>3. HeapTypes'
  BY <1>1 DEF HeapInv, HeapTypes
<1>4. LoopInv' /\ PinsInv'
  BY <1>1, <1>2 DEF HeapInv, LoopInv, PinsInv, Holding, Pinned, IsFree
<1>5. RoomInv' /\ ProgressInv'
  BY <1>1, <1>2 DEF HeapInv, RoomInv, ProgressInv, LastHasRoom, Done, Outcome
<1> QED
  BY <1>2, <1>3, <1>4, <1>5 DEF HeapInv

LEMMA RefusedInv ==
    ASSUME HeapInv, GetRefused \/ Return
    PROVE  HeapInv' /\ View' = View
<1>1. /\ pc = "get" /\ Returned /\ UNCHANGED poolVars
      /\ UNCHANGED <<count, me, raised>>
  BY SameGet DEF GetRefused, Return
<1> QED
  BY <1>1, EndInv, UnchangedPool DEF HeapInv

LEMMA InsertRefusedInv ==
    ASSUME HeapInv, InsertRefused
    PROVE  HeapInv' /\ View' = View
<1>1. /\ pc = "idle" /\ UNCHANGED poolVars
      /\ UNCHANGED <<count, stmt, pc, at, me, soFar, start, raised>>
  BY DEF InsertRefused
<1>2. /\ Proofs!PoolInv' /\ View' = View
      /\ holds' = holds /\ CachedPages' = CachedPages
  BY <1>1, UnchangedPool DEF HeapInv
<1>3. HeapTypes'
  BY <1>1 DEF HeapInv, HeapTypes
<1>4. LoopInv' /\ PinsInv'
  BY <1>1, <1>2 DEF HeapInv, LoopInv, PinsInv, Holding, Pinned
<1>5. RoomInv' /\ ProgressInv'
  BY <1>1 DEF RoomInv, ProgressInv
<1> QED
  BY <1>2, <1>3, <1>4, <1>5 DEF HeapInv

LEMMA NextInv == HeapInv /\ [Next]_vars => HeapInv'
<1> SUFFICES ASSUME HeapInv, [Next]_vars PROVE HeapInv'
  OBVIOUS
<1>1. ASSUME NEW st \in Asked, Begin(st) PROVE HeapInv'
  BY <1>1, AskedAssumption, BeginInv
<1> QED
  BY <1>1, GetPageInv, RefusedInv, AllocateInv, WorkInv, RaisesInv, NoRoomInv,
     UnpinInv, FlushInv, ReopenInv, KillInv, StutterInv, InsertRefusedInv
     DEF Next

-----------------------------------------------------------------------------
(* The invariant holds of every run.                                       *)
THEOREM HeapInvariant == Spec => []HeapInv
<1> QED
  BY InitInv, NextInv, PTL DEF Spec

(* An unchanged frame of a table's pool equals its page in the file, under *)
(* the statements of storage_engine.py and whatever they raise.            *)
THEOREM UnchangedFramesAreInTheFile == Spec => []PageOrFile
<1>1. HeapInv => PageOrFile
  BY SamePool DEF HeapInv, Proofs!PoolInv, PageOrFile
<1> QED
  BY <1>1, HeapInvariant, PTL

(* Never are more pages pinned than statements raised with a page in hand  *)
(* since the table was opened, and the one the loop is at.                 *)
THEOREM PinsAreOfFailures == Spec => []PinsAreAccounted
<1>1. HeapInv => PinsAreAccounted
  BY DEF HeapInv, PinsInv, Holding, Pinned, PinsAreAccounted, Pins, InHand
<1> QED
  BY <1>1, HeapInvariant, PTL

-----------------------------------------------------------------------------
(* A statement that fails before it changes its page.                      *)
LEMMA FailsBefore ==
    ASSUME HeapInv, pc \in {"get", "work"}, View' = View,
           stmt.kind \in {"delete", "update"}
    PROVE  FailedPagewise
<1> SUFFICES ASSUME NEW p \in 1 .. count - 1
             PROVE  \/ /\ p <= at /\ View[p] = Outcome(stmt, start[p])
                       /\ p = at => stmt.kind = "update" /\ Updated(stmt, start[p]).lost
                    \/ p >= at /\ View[p] = start[p]
  BY DEF FailedPagewise, View
<1>1. View[p] = IF Done(p) THEN Outcome(stmt, start[p]) ELSE start[p]
  BY DEF HeapInv, ProgressInv
<1>2. at \in Nat /\ p \in Nat
  BY DEF HeapInv, HeapTypes
<1> QED
  BY <1>1, <1>2 DEF Done

(* An UPDATE that lost a row for want of room.                             *)
LEMMA FailsForRoom ==
    ASSUME HeapInv, UpdateFindsNoRoom
    PROVE  FailedPagewise
<1>1. /\ pc = "work" /\ Holding
      /\ stmt.kind = "update" /\ Updated(stmt, Here).lost
  BY DEF UpdateFindsNoRoom, Holding
<1>2. /\ at \in Pages /\ Here = View[at] /\ at \in 1 .. count - 1
      /\ View \in [Pages -> PageContents] /\ 1 .. count - 1 \subseteq Pages
  BY <1>1, HereIsView, ViewIsPages, HeapAssumption
     DEF HeapInv, HeapTypes, LoopInv, Pages
<1>3. View' = [View EXCEPT ![at] = Outcome(stmt, Here)]
  BY NoRoomInv
<1> SUFFICES ASSUME NEW p \in 1 .. count - 1
             PROVE  \/ /\ p <= at /\ View'[p] = Outcome(stmt, start[p])
                       /\ p = at => stmt.kind = "update" /\ Updated(stmt, start[p]).lost
                    \/ p >= at /\ View'[p] = start[p]
  BY DEF FailedPagewise, View
<1>4. View[p] = IF Done(p) THEN Outcome(stmt, start[p]) ELSE start[p]
  BY <1>1 DEF HeapInv, ProgressInv
<1>5. CASE p = at
  <2>1. Here = start[p]
    BY <1>1, <1>2, <1>4, <1>5 DEF Done
  <2> QED
    BY <1>1, <1>2, <1>3, <1>5, <2>1
<1>6. CASE p # at
  <2>1. View'[p] = View[p]
    BY <1>2, <1>3, <1>6
  <2> QED
    BY <1>2, <1>4, <1>6, <2>1 DEF Done
<1> QED
  BY <1>5, <1>6

(* A DELETE or an UPDATE that fails has done the pages before the loop's,  *)
(* and the loop's own only when it lost a row there; it has left the       *)
(* others as they were (storage_engine.py:197-240).                        *)
THEOREM FailuresArePagewise == Spec => PagewiseProgress
<1>1. HeapInv /\ [Next]_vars =>
          (stmt.kind \in {"delete", "update"} /\ ~ answer'.ok => FailedPagewise)
  <2> SUFFICES ASSUME HeapInv, [Next]_vars,
                      stmt.kind \in {"delete", "update"}, ~ answer'.ok
               PROVE  FailedPagewise
    OBVIOUS
  <2>1. CASE GetRefused
    BY <2>1, RefusedInv, FailsBefore DEF GetRefused
  <2>2. CASE ClauseRaises
    BY <2>2, RaisesInv, FailsBefore DEF ClauseRaises
  <2>3. CASE UpdateFindsNoRoom
    BY <2>3, FailsForRoom
  <2>4. pc # "idle" /\ answer.ok /\ soFar.ok /\ NoAnswer.ok
    BY DEF HeapInv, HeapTypes, Scan, NoAnswer, Answer
  <2>5. /\ \A st \in Asked : ~ Begin(st)
        /\ ~ GetPage /\ ~ AllocatePage /\ ~ Work /\ ~ Flush /\ ~ Reopen
        /\ ~ Return /\ ~ UnpinPage /\ ~ Kill /\ ~ UNCHANGED vars
        /\ ~ InsertRefused /\ ~ ScanRaises
    BY <2>4 DEF Begin, GetPage, AllocatePage, Work, NextStep, Flush, Reopen,
                Return, UnpinPage, NextPage, Kill, vars, InsertRefused,
                ScanRaises
  <2> QED
    BY <2>1, <2>2, <2>3, <2>5 DEF Next
<1> QED
  BY <1>1, HeapInvariant, PTL DEF Spec, PagewiseProgress

-----------------------------------------------------------------------------
(* The live rows of a page that a statement has gone over.                 *)

LEMMA LiveRows ==
    ASSUME NEW page \in PageContents
    PROVE  /\ Live(page) \in Seq(Row)
           /\ \A S : S \subseteq Row => Only(Live(page), S) = Only(page, S)
<1>1. page \in Seq(Slot) /\ Slot \cap Row = Row
  BY PageIsSeq DEF Slot
<1>2. Only(page, Row) \in Seq(Slot \cap Row)
  BY <1>1, OnlyMembers
<1>3. ASSUME NEW S, S \subseteq Row
      PROVE  Only(Only(page, Row), S) = Only(page, S)
  <2>1. Only(Only(page, Row), S) = Only(page, Row \cap S)
    BY <1>1, OnlyTwice
  <2>2. Row \cap S = S
    BY <1>3
  <2> QED
    BY <2>1, <2>2
<1> QED
  BY <1>1, <1>2, <1>3 DEF Live

LEMMA LiveAppended ==
    ASSUME NEW page \in PageContents, NEW r \in Row
    PROVE  Live(Append(page, r)) = Append(Live(page), r)
<1>1. page \in Seq(Slot) /\ r \in Slot
  BY PageIsSeq DEF Slot
<1>2. \A S : Only(Append(page, r), S) =
                IF r \in S THEN Append(Only(page, S), r) ELSE Only(page, S)
  BY <1>1, OnlyAppended
<1> QED
  BY <1>2 DEF Live

LEMMA LiveOfNothing == Live(<<>>) = <<>>
<1> QED
  BY OnlyNothing DEF Live

(* The rows that match are as many as the statement counts.                *)
LEMMA MatchesCount ==
    ASSUME NEW page \in PageContents, NEW st \in Statements,
           st.kind \in {"delete", "update"}
    PROVE  Cardinality(Matches(st.where, page)) = Len(Only(Live(page), Yes(st)))
<1>1. page \in Seq(Slot) /\ \A s \in DOMAIN page : page[s] \in Slot
  BY PageIsSeq
<1>2. \A s \in DOMAIN page : page[s] # Gone <=> page[s] \in Row
  BY <1>1, HeapAssumption DEF Slot, Row
<1>3. Matches(st.where, page) = FoundAt(page, Yes(st))
  BY <1>2 DEF Matches, FoundAt, Yes
<1>4. Len(Only(page, Yes(st))) = Cardinality(FoundAt(page, Yes(st)))
  BY <1>1, OnlyCounts
<1>5. Only(Live(page), Yes(st)) = Only(page, Yes(st))
  BY LiveRows DEF Yes
<1> QED
  BY <1>3, <1>4, <1>5

(* DELETE leaves the rows that do not match.                               *)
LEMMA DeletedRows ==
    ASSUME NEW page \in PageContents, NEW st
    PROVE  Live(Deleted(st, page)) = Only(Live(page), Row \ Yes(st))
<1> DEFINE after == Deleted(st, page)
           S == Row \ Yes(st)
           f == [x \in Slot |-> x]
<1>1. /\ page \in Seq(Slot) /\ DOMAIN page = 1 .. Len(page)
      /\ \A s \in 1 .. Len(page) : page[s] \in Slot
  BY PageIsSeq
<1>2. after \in Seq(Slot) /\ Len(after) = Len(page)
  BY DeletedPage, PageIsSeq
<1>3. Gone \notin Row
  BY HeapAssumption DEF Row
<1>4. \A s \in 1 .. Len(page) :
          after[s] = IF page[s] \in Row /\ page[s] \in Yes(st) THEN Gone ELSE page[s]
  BY <1>1, <1>3 DEF Deleted, Matches, Yes, Slot
<1>5. \A s \in 1 .. Len(page) : /\ page[s] \in S <=> after[s] \in Row
                                /\ page[s] \in S => after[s] = f[page[s]]
  BY <1>1, <1>3, <1>4 DEF Slot
<1>6. \A x \in Slot : f[x] = x
  OBVIOUS
<1> HIDE DEF after, f
<1>7. Only(after, Row) = Mapped(f, Only(page, S))
  BY <1>1, <1>2, <1>5, OnlyMapped
<1>8. Only(page, S) \in Seq(Slot)
  <2>1. \A Z : Only(page, Z) \in Seq(Slot)
    BY <1>1, OnlyMembers, OnlyAppended
  <2> QED
    BY <2>1
<1>9. Mapped(f, Only(page, S)) = Only(page, S)
  BY <1>6, <1>8, MappedToItself
<1>10. Only(Live(page), S) = Only(page, S)
  BY LiveRows
<1> QED
  BY <1>7, <1>9, <1>10 DEF Live, after

(* An UPDATE that loses no row: what the SET clause makes of the rows, in  *)
(* their slots when none changes its width, and as often in any case.      *)
Changed(st, page, k) ==
    [s \in DOMAIN page |->
        IF s <= k /\ page[s] # Gone THEN st.set[page[s]] ELSE page[s]]
KeepsWidths(st, page) ==
    \A s \in DOMAIN page : page[s] # Gone => SameWidth(page[s], st.set[page[s]])

LEMMA ChangedOne ==
    ASSUME NEW page \in PageContents, NEW st \in Statements,
           st.kind = "update", NEW k \in 1 .. Len(page)
    PROVE  /\ Changed(st, page, k - 1) \in Seq(Slot)
           /\ Len(Changed(st, page, k - 1)) = Len(page)
           /\ Changed(st, page, k - 1)[k] = page[k]
           /\ k \notin Matches(st.where, page) =>
                 Changed(st, page, k) = Changed(st, page, k - 1)
           /\ k \in Matches(st.where, page) =>
                 Changed(st, page, k) =
                     [Changed(st, page, k - 1) EXCEPT ![k] = st.set[page[k]]]
<1> DEFINE n == Len(page)
<1>1. /\ n \in Nat /\ k \in Nat /\ DOMAIN page = 1 .. n
      /\ \A s \in 1 .. n : page[s] \in Slot
  BY PageIsSeq
<1>2. Gone \notin Row
  BY HeapAssumption DEF Row
<1>3. /\ st.set \in [Row -> Row]
      /\ \A r \in Row : r \notin Yes(st) => st.set[r] = r
  BY Clauses
<1>4. ASSUME NEW s \in 1 .. n
      PROVE  /\ page[s] # Gone => page[s] \in Row /\ st.set[page[s]] \in Row
             /\ s \notin Matches(st.where, page) /\ page[s] # Gone =>
                   st.set[page[s]] = page[s]
             /\ s \in Matches(st.where, page) => page[s] # Gone
  BY <1>1, <1>3 DEF Slot, Matches, Yes
<1> HIDE DEF n
<1>5. Changed(st, page, k - 1) \in [1 .. n -> Slot]
  BY <1>1, <1>4 DEF Changed, Slot
<1>6. Changed(st, page, k - 1)[k] = page[k]
  BY <1>1 DEF Changed, n
<1>7. ASSUME k \notin Matches(st.where, page)
      PROVE  Changed(st, page, k) = Changed(st, page, k - 1)
  <2>1. ASSUME NEW s \in 1 .. n
        PROVE  (IF s <= k /\ page[s] # Gone THEN st.set[page[s]] ELSE page[s])
             = (IF s <= k - 1 /\ page[s] # Gone THEN st.set[page[s]] ELSE page[s])
    <3>1. CASE s = k
      BY <1>1, <1>4, <1>7, <3>1
    <3>2. CASE s # k
      BY <1>1, <3>2
    <3> QED
      BY <3>1, <3>2
  <2> QED
    BY <1>1, <2>1 DEF Changed
<1>8. ASSUME k \in Matches(st.where, page)
      PROVE  Changed(st, page, k) =
                 [Changed(st, page, k - 1) EXCEPT ![k] = st.set[page[k]]]
  <2> DEFINE before == Changed(st, page, k - 1)
             after == Changed(st, page, k)
  <2>1. page[k] # Gone
    BY <1>4, <1>8, <1>1 DEF n
  <2>2. /\ DOMAIN before = 1 .. n /\ DOMAIN after = 1 .. n
        /\ after[k] = st.set[page[k]]
    BY <1>1, <2>1 DEF Changed, n
  <2>3. ASSUME NEW s \in 1 .. n, s # k
        PROVE  after[s] = before[s]
    BY <1>1, <2>3 DEF Changed
  <2>4. after = [s \in 1 .. n |-> after[s]]
    BY <1>1 DEF Changed
  <2>5. before = [s \in 1 .. n |-> before[s]]
    BY <1>1 DEF Changed
  <2> HIDE DEF before, after
  <2>6. [before EXCEPT ![k] = st.set[page[k]]] =
            [s \in 1 .. n |-> IF s = k THEN st.set[page[k]] ELSE before[s]]
    BY <2>2
  <2>7. after = [before EXCEPT ![k] = st.set[page[k]]]
    BY <2>2, <2>3, <2>4, <2>6
  <2> QED
    BY <2>7 DEF before, after
<1>9. Changed(st, page, k - 1) \in Seq(Slot) /\ Len(Changed(st, page, k - 1)) = n
  BY <1>1, <1>5
<1> QED
  BY <1>6, <1>7, <1>8, <1>9 DEF n

(* One slot of the loop changes a page as one slot of Changed.             *)
SameCopies(p, q) == \A v \in Row : Copies(v, p) = Copies(v, q)
OneSlot(p, q, k, r) ==
    LET u == UpdateRow(p, k, r)
    IN  /\ SameCopies(u.page, [q EXCEPT ![k] = r])
        /\ \A s \in 1 .. Len(p) : s # k => u.page[s] = p[s]
        /\ SameWidth(p[k], r) => u.page = [p EXCEPT ![k] = r]

LEMMA UpdateRowAs ==
    ASSUME NEW page \in PageContents, NEW as \in Seq(Slot), NEW k,
           k \in 1 .. Len(page), k \in 1 .. Len(as), page[k] = as[k],
           NEW r \in Row, SameCopies(page, as), ~ UpdateRow(page, k, r).lost
    PROVE  OneSlot(page, as, k, r)
<1> DEFINE after == UpdateRow(page, k, r).page
           emptied == [page EXCEPT ![k] = Gone]
           Swapped(v, list, e) ==
               /\ Copies(v, [list EXCEPT ![k] = e]) \in Nat
               /\ Copies(v, [list EXCEPT ![k] = e]) =
                     Copies(v, list) - (IF list[k] = v THEN 1 ELSE 0)
                                     + (IF e = v THEN 1 ELSE 0)
<1>1. page \in Seq(Slot) /\ r \in Slot /\ Gone \in Slot /\ Gone \notin Row
  BY PageIsSeq, HeapAssumption DEF Slot, Row
<1>2. \A list \in Seq(Slot), e \in Slot :
          k \in 1 .. Len(list) => \A v : Swapped(v, list, e)
  <2> SUFFICES ASSUME NEW list \in Seq(Slot), NEW e \in Slot, k \in 1 .. Len(list)
               PROVE  \A v : Swapped(v, list, e)
    OBVIOUS
  <2> QED
    BY CopiesReplaced
<1> HIDE DEF Swapped
<1>3. \A v : Swapped(v, as, r) /\ Swapped(v, page, r) /\ Swapped(v, page, Gone)
  BY <1>1, <1>2
<1>4. CASE SameWidth(page[k], r)
  <2>1. after = [page EXCEPT ![k] = r]
    BY <1>4 DEF UpdateRow
  <2>2. \A v \in Row : Copies(v, [page EXCEPT ![k] = r]) = Copies(v, [as EXCEPT ![k] = r])
    BY <1>3 DEF Swapped, SameCopies
  <2>3. \A s \in 1 .. Len(page) : s # k => after[s] = page[s]
    BY <1>1, <2>1
  <2> QED
    BY <2>1, <2>2, <2>3 DEF OneSlot, SameCopies
<1>5. CASE ~ SameWidth(page[k], r)
  <2>1. after = Append(emptied, r)
    BY <1>5 DEF UpdateRow
  <2>2. emptied \in Seq(Slot) /\ Len(emptied) = Len(page) /\ Len(page) \in Nat
        /\ \A s \in 1 .. Len(page) : s # k => emptied[s] = page[s]
    BY <1>1
  <2>3. ASSUME NEW v \in Row
        PROVE  /\ Copies(v, emptied) \in Nat
               /\ Copies(v, emptied) = Copies(v, page) - (IF page[k] = v THEN 1 ELSE 0)
    <3>1. Swapped(v, page, Gone) /\ Gone # v
      BY <1>1, <1>3
    <3>2. Copies(v, emptied) =
              Copies(v, page) - (IF page[k] = v THEN 1 ELSE 0) + 0
      BY <3>1 DEF Swapped
    <3>3. Copies(v, emptied) \in Nat
      BY <3>1 DEF Swapped
    <3>4. Copies(v, page) \in Nat
      <4>1. \A S : Only(page, S) \in Seq(Slot)
        BY <1>1, OnlyAppended
      <4> QED
        BY <4>1 DEF Copies
    <3> DEFINE gone == IF page[k] = v THEN 1 ELSE 0
    <3>5. gone \in Int
      OBVIOUS
    <3> HIDE DEF emptied, gone
    <3>6. Copies(v, page) - gone + 0 = Copies(v, page) - gone
      BY <3>4, <3>5
    <3> QED
      BY <3>2, <3>3, <3>6 DEF gone
  <2> HIDE DEF emptied
  <2>4. \A v : Copies(v, Append(emptied, r)) = Copies(v, emptied) + (IF r = v THEN 1 ELSE 0)
    BY <1>1, <2>2, CopiesAppended
  <2>5. ASSUME NEW v \in Row
        PROVE  Copies(v, after) = Copies(v, [as EXCEPT ![k] = r])
    <3>1. Copies(v, after) = Copies(v, emptied) + (IF r = v THEN 1 ELSE 0)
      BY <2>1, <2>4
    <3>2. Copies(v, emptied) = Copies(v, page) - (IF page[k] = v THEN 1 ELSE 0)
      BY <2>3
    <3>3. Copies(v, [as EXCEPT ![k] = r]) =
              Copies(v, as) - (IF as[k] = v THEN 1 ELSE 0) + (IF r = v THEN 1 ELSE 0)
      BY <1>3 DEF Swapped
    <3> HIDE DEF after
    <3> QED
      BY <3>1, <3>2, <3>3 DEF SameCopies
  <2>6. \A s \in 1 .. Len(page) : s # k => after[s] = page[s]
    BY <1>1, <2>1, <2>2
  <2> QED
    BY <1>5, <2>5, <2>6 DEF OneSlot, SameCopies
<1> QED
  BY <1>4, <1>5
(* An UPDATE that loses no row changes each of them once.                  *)
LEMMA UpdatedRows ==
    ASSUME NEW page \in PageContents, NEW st \in Statements,
           st.kind = "update", ~ Updated(st, page).lost
    PROVE  /\ \A v \in Row : Copies(v, Updated(st, page).page) =
                             Copies(v, Changed(st, page, Len(page)))
           /\ KeepsWidths(st, page) =>
                 Updated(st, page).page = Changed(st, page, Len(page))
<1> DEFINE n == Len(page)
           As(k, p) ==
               /\ \A v \in Row : Copies(v, p) = Copies(v, Changed(st, page, k))
               /\ \A s \in k + 1 .. n : p[s] = page[s]
               /\ KeepsWidths(st, page) => p = Changed(st, page, k)
<1>1. PICK done : IsLoop(done, st, page)
  BY UpdateLoop
<1>2. /\ n \in Nat /\ page \in Seq(Slot) /\ DOMAIN page = 1 .. n
      /\ \A s \in 1 .. n : page[s] \in Slot
  BY PageIsSeq
<1>3. /\ \A k \in 0 .. n : done[k] \in Stages(page)
      /\ done[0] = [page |-> page, lost |-> FALSE]
      /\ \A k \in 1 .. n : done[k] = Stage(st, page, k, done[k - 1])
      /\ Updated(st, page) = done[n]
  BY <1>1 DEF IsLoop
<1> DEFINE T == {k \in 0 .. n : done[k].lost \/ As(k, done[k].page)}
<1>4. 0 \in T
  <2>1. Changed(st, page, 0) = [s \in DOMAIN page |-> page[s]]
    BY <1>2 DEF Changed
  <2>2. Changed(st, page, 0) = page
    BY <1>2, <2>1
  <2> QED
    BY <1>2, <1>3, <2>2
<1>5. ASSUME NEW k \in 0 .. n, k # 0, k - 1 \in T
      PROVE  k \in T
  <2> DEFINE before == done[k - 1].page
             as == Changed(st, page, k - 1)
             r == st.set[page[k]]
  <2>1. /\ k \in 1 .. n /\ k - 1 \in 0 .. n /\ (k - 1) + 1 = k /\ k \in Nat
        /\ k \in k .. n /\ \A s \in k + 1 .. n : s \in k .. n /\ s # k /\ s \in 1 .. n
    BY <1>2, <1>5
  <2>2. done[k] = Stage(st, page, k, done[k - 1])
    BY <1>3, <2>1
  <2>3. CASE done[k - 1].lost
    BY <1>5, <2>2, <2>3 DEF Stage
  <2>4. CASE ~ done[k - 1].lost /\ k \notin Matches(st.where, page)
    <3>1. done[k] = done[k - 1] /\ As(k - 1, before)
      BY <1>5, <2>2, <2>4 DEF Stage
    <3>2. Changed(st, page, k) = as
      BY <2>1, <2>4, ChangedOne
    <3>3. As(k, before)
      BY <2>1, <3>1, <3>2
    <3> HIDE DEF As
    <3> QED
      BY <1>5, <3>1, <3>3
  <2>5. CASE ~ done[k - 1].lost /\ k \in Matches(st.where, page)
    <3> DEFINE u == UpdateRow(before, k, r)
    <3>1. done[k] = u /\ As(k - 1, before)
      BY <1>5, <2>2, <2>5 DEF Stage
    <3>2. /\ Changed(st, page, k) = [as EXCEPT ![k] = r]
          /\ as \in Seq(Slot) /\ Len(as) = n /\ as[k] = page[k]
      BY <2>1, <2>5, ChangedOne
    <3>3. r \in Row
      BY <2>5, SetIsRow
    <3>4. before \in PageContents /\ Len(before) >= n /\ Len(before) \in Nat
      <4>1. before \in PageContents /\ Len(before) >= n
        BY <1>3, <2>1 DEF Stages
      <4> QED
        BY <4>1, PageIsSeq
    <3>5. before[k] = page[k] /\ \A v \in Row : Copies(v, before) = Copies(v, as)
      BY <2>1, <3>1
    <3>6. k \in 1 .. Len(before) /\ k \in 1 .. Len(as)
      BY <1>2, <2>1, <3>2, <3>4
    <3> SUFFICES ASSUME ~ u.lost PROVE As(k, u.page)
      BY <1>5, <3>1
    <3>7. /\ \A v \in Row : Copies(v, u.page) = Copies(v, [as EXCEPT ![k] = r])
          /\ \A s \in 1 .. Len(before) : s # k => u.page[s] = before[s]
          /\ SameWidth(before[k], r) => u.page = [before EXCEPT ![k] = r]
      <4> HIDE DEF before, as, r, As, n
      <4>1. before[k] = as[k]
        BY <3>2, <3>5
      <4>2. ~ UpdateRow(before, k, r).lost
        OBVIOUS
      <4>3. before \in PageContents /\ as \in Seq(Slot) /\ r \in Row
        BY <3>2, <3>3, <3>4
      <4>4. \A v \in Row : Copies(v, before) = Copies(v, as)
        BY <3>5
      <4>5. SameCopies(before, as)
        BY <4>4 DEF SameCopies
      <4>6. OneSlot(before, as, k, r)
        <5> HIDE DEF u
        <5> QED
          BY <3>6, <4>1, <4>2, <4>3, <4>5, UpdateRowAs
      <4> QED
        BY <4>6 DEF OneSlot, SameCopies
    <3>8. \A s \in k + 1 .. n : u.page[s] = page[s]
      <4>1. \A s \in k + 1 .. n : before[s] = page[s]
        BY <2>1, <3>1
      <4>2. \A s \in k + 1 .. n : s \in 1 .. Len(before) /\ s # k
        BY <1>2, <2>1, <3>4
      <4> HIDE DEF u, before, n
      <4> QED
        BY <3>7, <4>1, <4>2
    <3>9. ASSUME KeepsWidths(st, page)
          PROVE  u.page = Changed(st, page, k)
      <4>1. SameWidth(page[k], r)
        BY <1>2, <2>1, <2>5, <3>9 DEF KeepsWidths, Matches
      <4>2. before = as
        BY <3>1, <3>9
      <4> HIDE DEF u, before, as, r
      <4> QED
        BY <3>2, <3>5, <3>7, <4>1, <4>2
    <3>10. \A v \in Row : Copies(v, u.page) = Copies(v, Changed(st, page, k))
      <4> HIDE DEF u, before, as, r
      <4> QED
        BY <3>2, <3>7
    <3> HIDE DEF u
    <3> QED
      BY <3>8, <3>9, <3>10
  <2> QED
    BY <2>3, <2>4, <2>5
<1>6. 0 .. n \subseteq T
  <2> HIDE DEF T, n
  <2> QED
    BY <1>2, <1>4, <1>5, UpToBound
<1>7. n \in 0 .. n
  BY <1>2
<1>8. As(n, Updated(st, page).page)
  BY <1>3, <1>6, <1>7
<1> QED
  BY <1>8
(* The rows of the page as the SET clause leaves them.                     *)
LEMMA ChangedRows ==
    ASSUME NEW page \in PageContents, NEW st \in Statements, st.kind = "update"
    PROVE  /\ Changed(st, page, Len(page)) \in PageContents
           /\ Live(Changed(st, page, Len(page))) = Mapped(st.set, Live(page))
<1> DEFINE n == Len(page)
           after == Changed(st, page, n)
<1>1. /\ n \in Nat /\ page \in Seq(Slot) /\ DOMAIN page = 1 .. n
      /\ \A s \in 1 .. n : page[s] \in Slot /\ s <= n
      /\ n <= RowsPerPage
  BY PageIsSeq
<1>2. Gone \notin Row /\ st.set \in [Row -> Row]
  BY Clauses, HeapAssumption DEF Row
<1>3. \A s \in 1 .. n :
          after[s] = IF page[s] \in Row THEN st.set[page[s]] ELSE page[s]
  BY <1>1, <1>2 DEF Changed, Slot
<1>4. after \in [1 .. n -> Slot]
  BY <1>1, <1>2, <1>3 DEF Changed, Slot
<1>5. after \in Seq(Slot) /\ Len(after) = n
  BY <1>1, <1>4
<1>6. \A s \in 1 .. Len(page) : /\ page[s] \in Row <=> after[s] \in Row
                                /\ page[s] \in Row => after[s] = st.set[page[s]]
  BY <1>1, <1>2, <1>3 DEF Slot
<1> HIDE DEF after
<1>7. Only(after, Row) = Mapped(st.set, Only(page, Row))
  BY <1>1, <1>5, <1>6, OnlyMapped
<1>8. after \in PageContents
  BY <1>1, <1>5, PageIsSeq
<1> QED
  BY <1>7, <1>8 DEF Live, after

LEMMA LiveCopies ==
    ASSUME NEW page \in PageContents, NEW v \in Row
    PROVE  Copies(v, Live(page)) = Copies(v, page)
<1>1. Only(Live(page), {v}) = Only(page, {v})
  BY LiveRows
<1> QED
  BY <1>1 DEF Copies

LEMMA UpdatedLive ==
    ASSUME NEW page \in PageContents, NEW st \in Statements,
           st.kind = "update", ~ Updated(st, page).lost
    PROVE  /\ \A v \in Row : Copies(v, Live(Updated(st, page).page)) =
                             Copies(v, Mapped(st.set, Live(page)))
           /\ KeepsWidths(st, page) =>
                 Live(Updated(st, page).page) = Mapped(st.set, Live(page))
<1> DEFINE after == Changed(st, page, Len(page))
           u == Updated(st, page).page
<1>1. after \in PageContents /\ Live(after) = Mapped(st.set, Live(page))
  BY ChangedRows
<1>2. u \in PageContents
  BY UpdatedPage
<1>3. /\ \A v \in Row : Copies(v, u) = Copies(v, after)
      /\ KeepsWidths(st, page) => u = after
  BY UpdatedRows
<1> HIDE DEF after, u
<1>4. ASSUME NEW v \in Row
      PROVE  Copies(v, Live(u)) = Copies(v, Mapped(st.set, Live(page)))
  BY <1>1, <1>2, <1>3, LiveCopies
<1> QED
  BY <1>1, <1>3, <1>4 DEF u

-----------------------------------------------------------------------------
(* The rows of the table, page after page.                                 *)
ArePages(pages, n) == \A p \in 1 .. n : pages[p] \in PageContents
Collects(rows, pages, n) ==
    /\ rows[0] = <<>>
    /\ \A p \in 1 .. n : rows[p] = rows[p - 1] \o Live(pages[p])

LEMMA CollectedExists ==
    ASSUME NEW n \in Nat, NEW pages, ArePages(pages, n)
    PROVE  \E rows \in [0 .. n -> Seq(Row)] : Collects(rows, pages, n)
<1> DEFINE next(k, a) == a \o Live(pages[k])
           step == [ka \in (1 .. n) \X Seq(Row) |-> next(ka[1], ka[2])]
<1>1. <<>> \in Seq(Row)
  OBVIOUS
<1>2. \A k \in 1 .. n, a \in Seq(Row) : next(k, a) \in Seq(Row)
  <2> SUFFICES ASSUME NEW k \in 1 .. n, NEW a \in Seq(Row)
               PROVE  a \o Live(pages[k]) \in Seq(Row)
    OBVIOUS
  <2>1. Live(pages[k]) \in Seq(Row)
    BY LiveRows DEF ArePages
  <2> QED
    BY <2>1
<1>3. /\ step \in [(1 .. n) \X Seq(Row) -> Seq(Row)]
      /\ \A k \in 1 .. n, a \in Seq(Row) : step[<<k, a>>] = next(k, a)
  <2> HIDE DEF next
  <2> QED
    BY <1>2
<1> HIDE DEF step
<1>4. Recursive(n, Seq(Row), <<>>, step)
  BY <1>1, <1>3, RecursiveFunction
<1>5. PICK f \in [0 .. n -> Seq(Row)] :
          f[0] = <<>> /\ \A k \in 1 .. n : f[k] = step[<<k, f[k - 1]>>]
  BY <1>4 DEF Recursive
<1>6. \A k \in 1 .. n : f[k - 1] \in Seq(Row)
  OBVIOUS
<1>7. Collects(f, pages, n)
  BY <1>3, <1>5, <1>6 DEF Collects
<1> QED
  BY <1>7

LEMMA RowsAreCollected ==
    ASSUME NEW n \in Nat, NEW pages, NEW V,
           NEW rows \in [0 .. n -> V], Collects(rows, pages, n)
    PROVE  RowsUpTo(pages, n) = rows[n]
<1> DEFINE Rec(f) == [p \in 0 .. n |->
                        IF p = 0 THEN <<>> ELSE f[p - 1] \o Live(pages[p])]
           found == CHOOSE f : f = Rec(f)
<1>1. rows = Rec(rows)
  <2>1. \A p \in 0 .. n : rows[p] = Rec(rows)[p]
    BY DEF Collects
  <2> QED
    BY <2>1
<1>2. found = Rec(found)
  <2> HIDE DEF Rec
  <2> QED
    BY <1>1
<1>3. RowsUpTo(pages, n) = found[n]
  BY DEF RowsUpTo
<1>4. \A p \in 0 .. n : found[p] = Rec(found)[p]
  BY <1>2
<1> HIDE DEF found
<1> DEFINE N == {p \in 0 .. n : found[p] = rows[p]}
<1>5. 0 \in N
  BY <1>4 DEF Collects
<1>6. ASSUME NEW p \in 0 .. n, p # 0, p - 1 \in N
      PROVE  p \in N
  <2>1. p \in 1 .. n /\ found[p - 1] = rows[p - 1]
    BY <1>6
  <2> QED
    BY <1>4, <2>1 DEF Collects
<1>7. 0 .. n \subseteq N
  <2> HIDE DEF N
  <2> QED
    BY <1>5, <1>6, UpToBound
<1> QED
  BY <1>3, <1>7

(* RowsUpTo, a page at a time.                                             *)
LEMMA RowsStep ==
    ASSUME NEW n \in Nat, NEW pages, ArePages(pages, n)
    PROVE  /\ RowsUpTo(pages, 0) = <<>>
           /\ RowsUpTo(pages, n) \in Seq(Row)
           /\ n > 0 => RowsUpTo(pages, n) = RowsUpTo(pages, n - 1) \o Live(pages[n])
<1>1. PICK rows \in [0 .. n -> Seq(Row)] : Collects(rows, pages, n)
  BY CollectedExists
<1>2. ASSUME NEW m \in 0 .. n
      PROVE  RowsUpTo(pages, m) = rows[m]
  <2> DEFINE less == [p \in 0 .. m |-> rows[p]]
  <2>1. m \in Nat /\ less \in [0 .. m -> Seq(Row)]
    OBVIOUS
  <2>2. Collects(less, pages, m)
    <3>1. less[0] = <<>> /\ \A p \in 1 .. m :
              p \in 1 .. n /\ less[p] = rows[p] /\ less[p - 1] = rows[p - 1]
      BY <1>1 DEF Collects
    <3>2. \A p \in 1 .. n : rows[p] = rows[p - 1] \o Live(pages[p])
      BY <1>1 DEF Collects
    <3> HIDE DEF less
    <3> QED
      BY <3>1, <3>2 DEF Collects
  <2>3. less[m] = rows[m]
    OBVIOUS
  <2> HIDE DEF less
  <2>4. RowsUpTo(pages, m) = less[m]
    BY <2>1, <2>2, RowsAreCollected
  <2> QED
    BY <2>3, <2>4
<1>3. RowsUpTo(pages, 0) = <<>> /\ RowsUpTo(pages, n) \in Seq(Row)
  BY <1>1, <1>2 DEF Collects
<1>4. ASSUME n > 0
      PROVE  RowsUpTo(pages, n) = RowsUpTo(pages, n - 1) \o Live(pages[n])
  <2>1. n \in 1 .. n /\ n \in 0 .. n /\ n - 1 \in 0 .. n
    BY <1>4
  <2>2. rows[n] = rows[n - 1] \o Live(pages[n])
    BY <1>1, <2>1 DEF Collects
  <2> QED
    BY <1>2, <2>1, <2>2
<1> QED
  BY <1>3, <1>4

(* Two tables whose pages are alike, each with the other's.                *)
LEMMA RowsSame ==
    ASSUME NEW n \in Nat, NEW a, NEW b, ArePages(a, n), ArePages(b, n),
           \A p \in 1 .. n : Live(a[p]) = Live(b[p])
    PROVE  RowsUpTo(a, n) = RowsUpTo(b, n)
<1> DEFINE T == {m \in 0 .. n : RowsUpTo(a, m) = RowsUpTo(b, m)}
<1>1. 0 \in T
  BY RowsStep
<1>2. ASSUME NEW m \in 0 .. n, m # 0, m - 1 \in T
      PROVE  m \in T
  <2>1. m \in Nat /\ m > 0 /\ m \in 1 .. n /\ ArePages(a, m) /\ ArePages(b, m)
    BY <1>2 DEF ArePages
  <2>2. RowsUpTo(a, m) = RowsUpTo(a, m - 1) \o Live(a[m])
    BY <2>1, RowsStep
  <2>3. RowsUpTo(b, m) = RowsUpTo(b, m - 1) \o Live(b[m])
    BY <2>1, RowsStep
  <2> QED
    BY <1>2, <2>1, <2>2, <2>3
<1>3. 0 .. n \subseteq T
  <2> HIDE DEF T
  <2> QED
    BY <1>1, <1>2, UpToBound
<1> QED
  BY <1>3

LEMMA RowsOnly ==
    ASSUME NEW n \in Nat, NEW a, NEW b, ArePages(a, n), ArePages(b, n), NEW S,
           \A p \in 1 .. n : Live(b[p]) = Only(Live(a[p]), S)
    PROVE  RowsUpTo(b, n) = Only(RowsUpTo(a, n), S)
<1> DEFINE T == {m \in 0 .. n : RowsUpTo(b, m) = Only(RowsUpTo(a, m), S)}
<1>1. 0 \in T
  <2>1. RowsUpTo(a, 0) = <<>>
    BY RowsStep
  <2>2. RowsUpTo(b, 0) = <<>>
    BY RowsStep
  <2>3. Only(<<>>, S) = <<>>
    BY OnlyNothing
  <2> QED
    BY <2>1, <2>2, <2>3
<1>2. ASSUME NEW m \in 0 .. n, m # 0, m - 1 \in T
      PROVE  m \in T
  <2>1. m \in Nat /\ m > 0 /\ m \in 1 .. n /\ ArePages(a, m) /\ ArePages(b, m)
        /\ m - 1 \in Nat /\ ArePages(a, m - 1)
    BY <1>2 DEF ArePages
  <2>2. RowsUpTo(a, m) = RowsUpTo(a, m - 1) \o Live(a[m])
    BY <2>1, RowsStep
  <2>3. RowsUpTo(b, m) = RowsUpTo(b, m - 1) \o Live(b[m])
    BY <2>1, RowsStep
  <2>4. RowsUpTo(a, m - 1) \in Seq(Row)
    BY <2>1, RowsStep
  <2>5. Live(a[m]) \in Seq(Row)
    BY <2>1, LiveRows DEF ArePages
  <2>6. Only(RowsUpTo(a, m - 1) \o Live(a[m]), S) =
            Only(RowsUpTo(a, m - 1), S) \o Only(Live(a[m]), S)
    BY <2>4, <2>5, OnlyConcat
  <2> QED
    BY <1>2, <2>1, <2>2, <2>3, <2>6
<1>3. 0 .. n \subseteq T
  <2> HIDE DEF T
  <2> QED
    BY <1>1, <1>2, UpToBound
<1> QED
  BY <1>3

LEMMA RowsMapped ==
    ASSUME NEW n \in Nat, NEW a, NEW b, ArePages(a, n), ArePages(b, n), NEW f,
           \A p \in 1 .. n : Live(b[p]) = Mapped(f, Live(a[p]))
    PROVE  RowsUpTo(b, n) = Mapped(f, RowsUpTo(a, n))
<1> DEFINE T == {m \in 0 .. n : RowsUpTo(b, m) = Mapped(f, RowsUpTo(a, m))}
<1>1. 0 \in T
  <2>1. RowsUpTo(a, 0) = <<>>
    BY RowsStep
  <2>2. RowsUpTo(b, 0) = <<>>
    BY RowsStep
  <2>3. Mapped(f, <<>>) = <<>>
    BY DEF Mapped
  <2> QED
    BY <2>1, <2>2, <2>3
<1>2. ASSUME NEW m \in 0 .. n, m # 0, m - 1 \in T
      PROVE  m \in T
  <2>1. m \in Nat /\ m > 0 /\ m \in 1 .. n /\ ArePages(a, m) /\ ArePages(b, m)
        /\ m - 1 \in Nat /\ ArePages(a, m - 1)
    BY <1>2 DEF ArePages
  <2>2. RowsUpTo(a, m) = RowsUpTo(a, m - 1) \o Live(a[m])
    BY <2>1, RowsStep
  <2>3. RowsUpTo(b, m) = RowsUpTo(b, m - 1) \o Live(b[m])
    BY <2>1, RowsStep
  <2>4. RowsUpTo(a, m - 1) \in Seq(Row)
    BY <2>1, RowsStep
  <2>5. Live(a[m]) \in Seq(Row)
    BY <2>1, LiveRows DEF ArePages
  <2>6. Mapped(f, RowsUpTo(a, m - 1) \o Live(a[m])) =
            Mapped(f, RowsUpTo(a, m - 1)) \o Mapped(f, Live(a[m]))
    BY <2>4, <2>5, MappedConcat
  <2> QED
    BY <1>2, <2>1, <2>2, <2>3, <2>6
<1>3. 0 .. n \subseteq T
  <2> HIDE DEF T
  <2> QED
    BY <1>1, <1>2, UpToBound
<1> QED
  BY <1>3

LEMMA RowsCopies ==
    ASSUME NEW n \in Nat, NEW a, NEW b, ArePages(a, n), ArePages(b, n), NEW v,
           NEW f, \A r \in Row : f[r] \in Row,
           \A p \in 1 .. n : Copies(v, Live(b[p])) = Copies(v, Mapped(f, Live(a[p])))
    PROVE  Copies(v, RowsUpTo(b, n)) = Copies(v, Mapped(f, RowsUpTo(a, n)))
<1> DEFINE T == {m \in 0 .. n : Copies(v, RowsUpTo(b, m)) =
                                Copies(v, Mapped(f, RowsUpTo(a, m)))}
<1>1. 0 \in T
  <2>1. RowsUpTo(a, 0) = <<>>
    BY RowsStep
  <2>2. RowsUpTo(b, 0) = <<>>
    BY RowsStep
  <2>3. Mapped(f, <<>>) = <<>>
    BY DEF Mapped
  <2> QED
    BY <2>1, <2>2, <2>3
<1>2. ASSUME NEW m \in 0 .. n, m # 0, m - 1 \in T
      PROVE  m \in T
  <2> DEFINE as == RowsUpTo(a, m - 1)
             bs == RowsUpTo(b, m - 1)
  <2>1. m \in Nat /\ m > 0 /\ m \in 1 .. n /\ ArePages(a, m) /\ ArePages(b, m)
        /\ m - 1 \in Nat /\ ArePages(a, m - 1) /\ ArePages(b, m - 1)
    BY <1>2 DEF ArePages
  <2>2. RowsUpTo(a, m) = as \o Live(a[m])
    BY <2>1, RowsStep
  <2>3. RowsUpTo(b, m) = bs \o Live(b[m])
    BY <2>1, RowsStep
  <2>4. as \in Seq(Row)
    BY <2>1, RowsStep
  <2>5. bs \in Seq(Row)
    BY <2>1, RowsStep
  <2>6. Live(a[m]) \in Seq(Row)
    BY <2>1, LiveRows DEF ArePages
  <2>7. Live(b[m]) \in Seq(Row)
    BY <2>1, LiveRows DEF ArePages
  <2>8. Mapped(f, as \o Live(a[m])) = Mapped(f, as) \o Mapped(f, Live(a[m]))
    <3>1. \A x, y \in Seq(Row) : Mapped(f, x \o y) = Mapped(f, x) \o Mapped(f, y)
      BY MappedConcat
    <3> HIDE DEF as
    <3> QED
      BY <2>4, <2>6, <3>1
  <2> HIDE DEF as, bs
  <2>9. Mapped(f, as) \in Seq(Row)
    BY <2>4, MappedIsList
  <2>10. Mapped(f, Live(a[m])) \in Seq(Row)
    BY <2>6, MappedIsList
  <2>11. Copies(v, Mapped(f, as) \o Mapped(f, Live(a[m]))) =
             Copies(v, Mapped(f, as)) + Copies(v, Mapped(f, Live(a[m])))
    BY <2>9, <2>10, CopiesConcat
  <2>12. Copies(v, bs \o Live(b[m])) = Copies(v, bs) + Copies(v, Live(b[m]))
    BY <2>5, <2>7, CopiesConcat
  <2>13. Copies(v, bs) = Copies(v, Mapped(f, as))
    BY <1>2 DEF as, bs
  <2> QED
    BY <2>1, <2>2, <2>3, <2>8, <2>11, <2>12, <2>13
<1>3. 0 .. n \subseteq T
  <2> HIDE DEF T
  <2> QED
    BY <1>1, <1>2, UpToBound
<1> QED
  BY <1>3

(* One table with a row more at the end of a page: as a list, with that    *)
(* row put in somewhere, at the end if the page is the last.               *)
PutIn(more, list, r) ==
    \E A, B \in Seq(Row) : list = A \o B /\ more = Append(A, r) \o B

LEMMA RowsAssociate ==
    \A x, y, z \in Seq(Row) : (x \o y) \o z = x \o (y \o z)
<1> SUFFICES ASSUME NEW x \in Seq(Row), NEW y \in Seq(Row), NEW z \in Seq(Row)
             PROVE  (x \o y) \o z = x \o (y \o z)
  OBVIOUS
<1> QED
  BY ConcatAssociative

LEMMA PutInMore ==
    ASSUME NEW new, NEW old, NEW r \in Row, PutIn(new, old, r),
           NEW page \in Seq(Row)
    PROVE  PutIn(new \o page, old \o page, r)
<1>1. PICK A \in Seq(Row), B \in Seq(Row) :
          old = A \o B /\ new = Append(A, r) \o B
  BY DEF PutIn
<1>2. Append(A, r) \in Seq(Row) /\ B \o page \in Seq(Row)
  OBVIOUS
<1>3. (A \o B) \o page = A \o (B \o page)
  BY RowsAssociate
<1>4. (Append(A, r) \o B) \o page = Append(A, r) \o (B \o page)
  BY <1>2, RowsAssociate
<1> QED
  BY <1>1, <1>2, <1>3, <1>4 DEF PutIn

LEMMA RowsInserted ==
    ASSUME NEW n \in Nat, NEW a, NEW b, ArePages(a, n), ArePages(b, n),
           NEW q \in 1 .. n, NEW r \in Row, Live(b[q]) = Append(Live(a[q]), r),
           \A p \in 1 .. n : p # q => Live(a[p]) = Live(b[p])
    PROVE  /\ PutIn(RowsUpTo(b, n), RowsUpTo(a, n), r)
           /\ q = n => RowsUpTo(b, n) = Append(RowsUpTo(a, n), r)
<1>1. ASSUME NEW m \in 1 .. n
      PROVE  /\ RowsUpTo(a, m) = RowsUpTo(a, m - 1) \o Live(a[m])
             /\ RowsUpTo(b, m) = RowsUpTo(b, m - 1) \o Live(b[m])
             /\ Live(a[m]) \in Seq(Row)
             /\ RowsUpTo(a, m - 1) \in Seq(Row)
  <2>1. m \in Nat /\ m > 0 /\ ArePages(a, m) /\ ArePages(b, m)
        /\ m - 1 \in Nat /\ ArePages(a, m - 1)
    BY DEF ArePages
  <2>2. RowsUpTo(a, m) = RowsUpTo(a, m - 1) \o Live(a[m])
    BY <2>1, RowsStep
  <2>3. RowsUpTo(b, m) = RowsUpTo(b, m - 1) \o Live(b[m])
    BY <2>1, RowsStep
  <2>4. Live(a[m]) \in Seq(Row)
    BY LiveRows DEF ArePages
  <2>5. RowsUpTo(a, m - 1) \in Seq(Row)
    BY <2>1, RowsStep
  <2> QED
    BY <2>2, <2>3, <2>4, <2>5
<1>2. RowsUpTo(a, q - 1) = RowsUpTo(b, q - 1)
  <2>1. q - 1 \in Nat /\ ArePages(a, q - 1) /\ ArePages(b, q - 1)
        /\ \A p \in 1 .. q - 1 : p \in 1 .. n /\ p # q
    BY DEF ArePages
  <2> QED
    BY <2>1, RowsSame
<1>3. /\ RowsUpTo(b, q) = Append(RowsUpTo(a, q), r)
      /\ RowsUpTo(a, q) \in Seq(Row)
  <2> DEFINE old == RowsUpTo(a, q - 1)
             page == Live(a[q])
  <2>1. old \in Seq(Row) /\ page \in Seq(Row) /\ RowsUpTo(a, q) = old \o page
        /\ RowsUpTo(b, q) = old \o Append(page, r)
    BY <1>1, <1>2
  <2> HIDE DEF old, page
  <2>2. old \o Append(page, r) = Append(old \o page, r)
    BY <2>1
  <2> QED
    BY <2>1, <2>2
<1> DEFINE T == {m \in 0 .. n : m >= q => PutIn(RowsUpTo(b, m), RowsUpTo(a, m), r)}
<1>4. 0 \in T
  OBVIOUS
<1>5. ASSUME NEW m \in 0 .. n, m # 0, m - 1 \in T
      PROVE  m \in T
  <2>1. m \in 1 .. n
    BY <1>5
  <2>2. CASE m < q
    BY <2>2
  <2>3. CASE m = q
    <3> DEFINE A == RowsUpTo(a, q)
    <3>1. A \in Seq(Row) /\ <<>> \in Seq(Row) /\ Append(A, r) \in Seq(Row)
      BY <1>3
    <3> HIDE DEF A
    <3>2. A = A \o <<>> /\ Append(A, r) = Append(A, r) \o <<>>
      BY <3>1, ConcatEmptySeq
    <3>3. PutIn(Append(A, r), A, r)
      BY <3>1, <3>2 DEF PutIn
    <3> QED
      BY <1>3, <2>3, <3>3 DEF A
  <2>4. CASE m > q
    <3> DEFINE page == Live(a[m])
    <3>1. PutIn(RowsUpTo(b, m - 1), RowsUpTo(a, m - 1), r)
      BY <1>5, <2>4
    <3>2. /\ RowsUpTo(a, m) = RowsUpTo(a, m - 1) \o page
          /\ RowsUpTo(b, m) = RowsUpTo(b, m - 1) \o Live(b[m])
          /\ page \in Seq(Row)
      BY <1>1, <2>1
    <3>3. Live(b[m]) = page
      BY <2>1, <2>4
    <3> HIDE DEF page
    <3>4. PutIn(RowsUpTo(b, m - 1) \o page, RowsUpTo(a, m - 1) \o page, r)
      BY <3>1, <3>2, PutInMore
    <3> QED
      BY <3>2, <3>3, <3>4
  <2> QED
    BY <2>1, <2>2, <2>3, <2>4
<1>6. 0 .. n \subseteq T
  <2> HIDE DEF T
  <2> QED
    BY <1>4, <1>5, UpToBound
<1>7. PutIn(RowsUpTo(b, n), RowsUpTo(a, n), r)
  BY <1>6
<1> QED
  BY <1>3, <1>7

(* The rows of each page are among those of the table.                     *)
LEMMA RowsHave ==
    ASSUME NEW n \in Nat, NEW pages, ArePages(pages, n), NEW q \in 1 .. n,
           NEW s \in DOMAIN pages[q], pages[q][s] # Gone
    PROVE  \E i \in 1 .. Len(RowsUpTo(pages, n)) : RowsUpTo(pages, n)[i] = pages[q][s]
<1> DEFINE row == pages[q][s]
           Has(list) == \E i \in 1 .. Len(list) : list[i] = row
           T == {m \in 0 .. n : m >= q => Has(RowsUpTo(pages, m))}
<1>1. pages[q] \in Seq(Slot) /\ s \in 1 .. Len(pages[q]) /\ row \in Row
  BY PageIsSeq DEF ArePages, Slot
<1>2. Has(Live(pages[q]))
  <2>1. \E j \in 1 .. Len(Only(pages[q], Row)) : Only(pages[q], Row)[j] = pages[q][s]
    BY <1>1, OnlyFinds
  <2> QED
    BY <2>1 DEF Live
<1> HIDE DEF row
<1>3. ASSUME NEW m \in 0 .. n, m # 0, m - 1 \in T
      PROVE  m \in T
  <2> SUFFICES ASSUME m >= q PROVE Has(RowsUpTo(pages, m))
    OBVIOUS
  <2> DEFINE old == RowsUpTo(pages, m - 1)
             page == Live(pages[m])
  <2>1. m \in Nat /\ m > 0 /\ m \in 1 .. n /\ ArePages(pages, m)
        /\ m - 1 \in Nat /\ ArePages(pages, m - 1)
    BY <1>3 DEF ArePages
  <2>2. RowsUpTo(pages, m) = old \o page
    BY <2>1, RowsStep
  <2>3. old \in Seq(Row)
    BY <2>1, RowsStep
  <2>4. page \in Seq(Row)
    BY <2>1, LiveRows DEF ArePages
  <2>5. Has(old) \/ Has(page)
    <3>1. CASE m = q
      BY <1>2, <3>1
    <3>2. CASE m # q
      BY <1>3, <2>1, <3>2
    <3> QED
      BY <3>1, <3>2
  <2> HIDE DEF old, page
  <2>6. /\ Len(old \o page) = Len(old) + Len(page)
        /\ \A i \in 1 .. Len(old) + Len(page) :
              (old \o page)[i] = IF i <= Len(old) THEN old[i] ELSE page[i - Len(old)]
        /\ Len(old) \in Nat /\ Len(page) \in Nat
    BY <2>3, <2>4, ConcatProperties
  <2>7. ASSUME NEW i \in 1 .. Len(old), old[i] = row
        PROVE  Has(old \o page)
    BY <2>6, <2>7
  <2>8. ASSUME NEW i \in 1 .. Len(page), page[i] = row
        PROVE  Has(old \o page)
    <3> DEFINE j == Len(old) + i
    <3>1. j \in 1 .. Len(old) + Len(page) /\ ~ (j <= Len(old)) /\ j - Len(old) = i
      BY <2>6
    <3> HIDE DEF j
    <3>2. (old \o page)[j] = row
      BY <2>6, <2>8, <3>1
    <3> QED
      BY <2>6, <3>1, <3>2
  <2> QED
    BY <2>2, <2>5, <2>7, <2>8
<1>4. 0 .. n \subseteq T
  <2>1. 0 \in T
    OBVIOUS
  <2> HIDE DEF T
  <2> QED
    BY <1>3, <2>1, UpToBound
<1>5. Has(RowsUpTo(pages, n))
  BY <1>4
<1> QED
  BY <1>5 DEF row

-----------------------------------------------------------------------------
(* The second invariant: what a statement has done to the rows so far.     *)

(* The pages after the last are blank.                                     *)
BlankInv ==
    \A p \in Pages : p >= count => View[p] = <<>> /\ start[p] = <<>>

(* Until a statement raises or the process is killed, the pages before the *)
(* last are full.                                                          *)
IsFull(page) == Len(page) = RowsPerPage
FullInv ==
    ~ upset =>
        /\ raised = 0
        /\ \A p \in 1 .. count - 2 :
              IsFull(View[p]) /\ (pc # "idle" => IsFull(start[p]))

(* An INSERT has found the pages behind it full and put its row on one.    *)
Inserted == pc = "unpin" /\ soFar.count = 1
InsertInv ==
    pc # "idle" /\ stmt.kind = "insert" =>
        /\ \A p \in 1 .. count - 1 :
              Done(p) /\ ~ (Inserted /\ p = at) => IsFull(start[p])
        /\ IF Inserted
           THEN /\ soFar = Answer(1, <<>>)
                /\ Len(start[at]) < RowsPerPage
                /\ View = [start EXCEPT ![at] = Append(start[at], stmt.row)]
           ELSE soFar = NoAnswer /\ View = start

(* A scan has collected the rows of the pages behind it, and a DELETE or   *)
(* an UPDATE has counted those that match.                                 *)
RowsSeen == RowsUpTo(start, IF pc = "unpin" THEN at ELSE at - 1)
SeenInv ==
    pc # "idle" =>
        /\ stmt.kind = "scan" => View = start /\ soFar = Answer(0, RowsSeen)
        /\ stmt.kind \in {"delete", "update"} =>
              soFar = Answer(Len(Only(RowsSeen, Yes(stmt))), <<>>)
        /\ stmt.kind = "update" =>
              \A p \in 1 .. count - 1 : Done(p) => ~ Updated(stmt, start[p]).lost

TableInv == BlankInv /\ FullInv /\ InsertInv /\ SeenInv

LEMMA Bounds ==
    ASSUME HeapInv
    PROVE  /\ count \in 1 .. MaxPages + 1 /\ MaxPages \in Nat
           /\ at \in 1 .. count /\ RowsPerPage \in Nat
           /\ \A p \in 1 .. count - 1 : p \in Pages
           /\ View \in [Pages -> PageContents] /\ start \in [Pages -> PageContents]
           /\ stmt \in Statements
<1>1. /\ count \in 1 .. MaxPages + 1 /\ MaxPages \in Nat
      /\ at \in 1 .. count /\ RowsPerPage \in Nat
      /\ start \in [Pages -> PageContents] /\ stmt \in Statements
  BY HeapAssumption DEF HeapInv, HeapTypes
<1>2. \A p \in 1 .. count - 1 : p \in Pages
  BY <1>1 DEF Pages
<1> QED
  BY <1>1, <1>2, ViewIsPages DEF HeapInv

(* The rows of a page more.                                                *)
LEMMA SeenPage ==
    ASSUME NEW pages \in [Pages -> PageContents], NEW p \in Pages
    PROVE  /\ RowsUpTo(pages, p) = RowsUpTo(pages, p - 1) \o Live(pages[p])
           /\ RowsUpTo(pages, p - 1) \in Seq(Row)
           /\ Live(pages[p]) \in Seq(Row)
<1>1. /\ p \in Nat /\ p > 0 /\ p - 1 \in Nat
      /\ ArePages(pages, p) /\ ArePages(pages, p - 1)
  BY HeapAssumption DEF Pages, ArePages
<1>2. RowsUpTo(pages, p) = RowsUpTo(pages, p - 1) \o Live(pages[p])
  BY <1>1, RowsStep
<1>3. RowsUpTo(pages, p - 1) \in Seq(Row)
  BY <1>1, RowsStep
<1> QED
  BY <1>2, <1>3, LiveRows

LEMMA InitTable == Init => TableInv
<1> SUFFICES ASSUME Init PROVE TableInv
  OBVIOUS
<1>1. \A p \in Pages : View[p] = <<>> /\ start[p] = <<>>
  BY DEF Init, Pool!Init, View, Pool!View, Pool!Cached
<1>2. pc = "idle" /\ count = 1 /\ raised = 0
  BY DEF Init
<1> QED
  BY <1>1, <1>2 DEF TableInv, BlankInv, FullInv, InsertInv, SeenInv

LEMMA BeginTable ==
    ASSUME HeapInv, TableInv, NEW st \in Statements, Begin(st)
    PROVE  TableInv'
<1>1. /\ pc' = "get" /\ at' = 1 /\ start' = View /\ soFar' = NoAnswer
      /\ UNCHANGED <<count, raised, upset>>
  BY DEF Begin, View
<1>2. View' = View
  BY BeginInv
<1>3. BlankInv' /\ FullInv'
  BY <1>1, <1>2 DEF TableInv, BlankInv, FullInv
<1>4. \A p \in 1 .. count - 1 : ~ Done(p)'
  BY <1>1 DEF Done
<1>5. InsertInv'
  BY <1>1, <1>2, <1>4 DEF InsertInv, Inserted
<1>6. RowsSeen' = <<>>
  <2>1. RowsSeen' = RowsUpTo(View, 0)
    BY <1>1 DEF RowsSeen
  <2>2. ArePages(View, 0)
    BY DEF ArePages
  <2> QED
    BY <2>1, <2>2, RowsStep
<1>7. SeenInv'
  <2>1. \A S : Len(Only(<<>>, S)) = 0
    BY OnlyNothing
  <2> QED
    BY <1>1, <1>2, <1>4, <1>6, <2>1 DEF SeenInv, NoAnswer
<1> QED
  BY <1>3, <1>5, <1>7 DEF TableInv

(* A step that neither turns a page nor touches a row.                     *)
LEMMA SameTable ==
    ASSUME TableInv, View' = View,
           UNCHANGED <<count, stmt, at, soFar, start, raised, upset>>,
           pc' = pc \/ (pc = "get" /\ pc' = "work")
    PROVE  TableInv'
<1>1. \A p : Done(p)' <=> Done(p)
  BY DEF Done
<1>2. RowsSeen' = RowsSeen
  BY DEF RowsSeen
<1>3. Inserted' <=> Inserted
  BY DEF Inserted
<1>4. pc' = "idle" <=> pc = "idle"
  OBVIOUS
<1>5. BlankInv' /\ FullInv'
  BY <1>4 DEF TableInv, BlankInv, FullInv
<1>6. InsertInv'
  BY <1>1, <1>3, <1>4 DEF TableInv, InsertInv
<1>7. SeenInv'
  BY <1>1, <1>2, <1>4 DEF TableInv, SeenInv
<1> QED
  BY <1>5, <1>6, <1>7 DEF TableInv

(* A statement ends, however it does.                                      *)
LEMMA EndTable ==
    ASSUME TableInv, Returned, count' = count,
           \A p \in Pages : p >= count => View'[p] = <<>>,
           ~ upset' => raised' = 0 /\ upset' = upset /\ View' = View
    PROVE  TableInv'
<1>1. pc' = "idle" /\ \A p \in Pages : start'[p] = <<>>
  BY DEF Returned
<1>2. BlankInv' /\ FullInv'
  BY <1>1 DEF TableInv, BlankInv, FullInv
<1>3. InsertInv' /\ SeenInv'
  BY <1>1 DEF InsertInv, SeenInv
<1> QED
  BY <1>2, <1>3 DEF TableInv

LEMMA AllocateTable ==
    ASSUME HeapInv, TableInv, AllocatePage
    PROVE  TableInv' /\ View' = View
<1>1. /\ pc = "get" /\ stmt.kind = "insert" /\ at = count /\ count' = count + 1
      /\ UNCHANGED <<stmt, pc, at, soFar, start, raised, upset>>
  BY DEF AllocatePage
<1>2. /\ count \in 1 .. MaxPages + 1 /\ MaxPages \in Nat
      /\ View \in [Pages -> PageContents]
  BY Bounds
<1>3. View' = View
  <2>1. View' = [View EXCEPT ![count] = <<>>]
    BY AllocateInv
  <2>2. count \in Pages => View[count] = <<>>
    BY <1>2 DEF TableInv, BlankInv
  <2> QED
    BY <1>2, <2>1, <2>2
<1>4. View = start /\ soFar = NoAnswer
  BY <1>1 DEF TableInv, InsertInv, Inserted
<1>5. \A p \in 1 .. count - 1 : IsFull(start[p])
  BY <1>1, <1>2 DEF TableInv, InsertInv, Inserted, Done
<1>6. BlankInv'
  BY <1>1, <1>2, <1>3 DEF TableInv, BlankInv, Pages
<1>7. FullInv'
  <2>1. \A p \in 1 .. count' - 2 : p \in 1 .. count - 1
    BY <1>1, <1>2
  <2> QED
    BY <1>1, <1>3, <1>4, <1>5, <2>1 DEF TableInv, FullInv
<1>8. InsertInv'
  <2>1. \A p \in 1 .. count' - 1 : Done(p)' => p \in 1 .. count - 1
    BY <1>1, <1>2 DEF Done
  <2> QED
    BY <1>1, <1>3, <1>4, <1>5, <2>1 DEF InsertInv, Inserted
<1>9. SeenInv'
  BY <1>1 DEF SeenInv
<1> QED
  BY <1>3, <1>6, <1>7, <1>8, <1>9 DEF TableInv

LEMMA UnpinTable ==
    ASSUME HeapInv, TableInv, UnpinPage
    PROVE  TableInv'
<1>1. /\ pc = "unpin" /\ UNCHANGED <<count, raised, upset>>
      /\ IF stmt.kind = "insert" /\ soFar.count = 1
         THEN Returned /\ answer' = soFar ELSE NextPage
  BY DEF UnpinPage
<1>2. View' = View /\ at \in Nat /\ count \in Nat
  BY UnpinInv, Bounds
<1>3. CASE stmt.kind = "insert" /\ soFar.count = 1
  BY <1>1, <1>2, <1>3, EndTable DEF TableInv, FullInv, BlankInv
<1>4. CASE ~ (stmt.kind = "insert" /\ soFar.count = 1)
  <2>1. pc' = "get" /\ at' = at + 1 /\ UNCHANGED <<stmt, soFar, start>>
    BY <1>1, <1>4 DEF NextPage
  <2>2. \A p \in 1 .. count - 1 : Done(p)' <=> Done(p)
    BY <1>1, <1>2, <2>1 DEF Done
  <2>3. RowsSeen' = RowsSeen
    <3>1. RowsSeen = RowsUpTo(start, at)
      BY <1>1 DEF RowsSeen
    <3>2. RowsSeen' = RowsUpTo(start, at' - 1)
      BY <2>1 DEF RowsSeen
    <3>3. at' - 1 = at
      BY <1>2, <2>1
    <3> QED
      BY <3>1, <3>2, <3>3
  <2>4. BlankInv' /\ FullInv'
    BY <1>1, <1>2, <2>1 DEF TableInv, BlankInv, FullInv
  <2>5. InsertInv'
    <3> SUFFICES ASSUME stmt.kind = "insert" PROVE InsertInv'
      BY <2>1 DEF InsertInv
    <3>1. ~ Inserted /\ ~ Inserted'
      BY <1>4, <2>1 DEF Inserted
    <3> QED
      BY <1>1, <1>2, <2>1, <2>2, <3>1 DEF TableInv, InsertInv
  <2>6. SeenInv'
    BY <1>1, <1>2, <2>1, <2>2, <2>3 DEF TableInv, SeenInv
  <2> QED
    BY <2>4, <2>5, <2>6 DEF TableInv
<1> QED
  BY <1>3, <1>4

(* What a statement has done once it has worked on a page.                 *)
LEMMA WorkedBounds ==
    ASSUME HeapInv, TableInv, Work, NEW c \in PageContents, Worked(c)
    PROVE  /\ pc = "work" /\ pc' = "unpin"
           /\ UNCHANGED <<count, stmt, at, start, raised, upset>>
           /\ at \in Pages /\ at \in 1 .. count - 1 /\ Here = View[at]
           /\ View'[at] = c /\ \A p \in Pages : p # at => View'[p] = View[p]
           /\ View' = [View EXCEPT ![at] = c]
           /\ stmt.kind \in {"delete", "update"} => Here = start[at]
<1>1. /\ pc = "work" /\ pc' = "unpin" /\ Holding
      /\ UNCHANGED <<count, stmt, at, start, raised, upset>>
  BY DEF Work, NextStep, Holding
<1>2. at \in Pages /\ Here = View[at]
  BY <1>1, HereIsView
<1>3. at \in 1 .. count - 1
  BY <1>1, Bounds DEF HeapInv, LoopInv
<1>4. View' = [View EXCEPT ![at] = c] /\ View \in [Pages -> PageContents]
  BY Bounds DEF Worked
<1>5. View'[at] = c /\ \A p \in Pages : p # at => View'[p] = View[p]
  BY <1>2, <1>4
<1>6. ~ Done(at)
  BY <1>1, <1>3 DEF Done
<1>7. stmt.kind \in {"delete", "update"} => Here = start[at]
  BY <1>1, <1>2, <1>3, <1>6 DEF HeapInv, ProgressInv
<1> QED
  BY <1>1, <1>2, <1>3, <1>4, <1>5, <1>7

LEMMA WorkFull ==
    ASSUME HeapInv, TableInv, Work, NEW c \in PageContents, Worked(c)
    PROVE  BlankInv' /\ FullInv'
<1>1. /\ pc = "work" /\ pc' = "unpin"
      /\ UNCHANGED <<count, stmt, at, start, raised, upset>>
      /\ at \in Pages /\ at \in 1 .. count - 1 /\ Here = View[at]
      /\ View'[at] = c /\ \A p \in Pages : p # at => View'[p] = View[p]
  BY WorkedBounds
<1>2. /\ count \in 1 .. MaxPages + 1 /\ MaxPages \in Nat /\ RowsPerPage \in Nat
      /\ \A p \in 1 .. count - 1 : p \in Pages
      /\ Here \in PageContents
  BY <1>1, Bounds
<1>3. BlankInv'
  BY <1>1, <1>2 DEF TableInv, BlankInv, Pages
<1>4. IsFull(Here) => IsFull(c)
  <2>1. Len(c) >= Len(Here)
    BY DEF Worked
  <2>2. Len(c) <= RowsPerPage /\ Len(c) \in Nat
    BY PageIsSeq
  <2> QED
    BY <1>2, <2>1, <2>2 DEF IsFull
<1>5. FullInv'
  <2> SUFFICES ASSUME ~ upset, NEW p \in 1 .. count - 2
               PROVE  IsFull(View'[p]) /\ IsFull(start[p])
    BY <1>1 DEF FullInv, TableInv
  <2>1. IsFull(View[p]) /\ IsFull(start[p])
    BY <1>1 DEF TableInv, FullInv
  <2>2. p \in Pages
    BY <1>2
  <2> QED
    BY <1>1, <1>4, <2>1, <2>2
<1> QED
  BY <1>3, <1>5

LEMMA WorkInsert ==
    ASSUME HeapInv, TableInv, Work, NEW c \in PageContents, Worked(c)
    PROVE  InsertInv'
<1>1. /\ pc = "work" /\ pc' = "unpin"
      /\ UNCHANGED <<count, stmt, at, start, raised, upset>>
      /\ at \in Pages /\ at \in 1 .. count - 1 /\ Here = View[at]
      /\ View' = [View EXCEPT ![at] = c]
  BY WorkedBounds
<1> SUFFICES ASSUME stmt.kind = "insert" PROVE InsertInv'
  BY <1>1 DEF InsertInv
<1>2. View = start /\ soFar = NoAnswer /\ Here = start[at]
  BY <1>1 DEF TableInv, InsertInv, Inserted
<1>3. ASSUME NEW p \in 1 .. count - 1, p < at
      PROVE  IsFull(start[p])
  BY <1>1, <1>3 DEF TableInv, InsertInv, Inserted, Done
<1>4. at \in Nat /\ \A p \in 1 .. count - 1 : Done(p)' => p < at \/ p = at
  BY <1>1, Bounds DEF Done
<1>5. CASE HasRoom
  <2>1. c = Append(Here, stmt.row) /\ soFar' = Answer(1, <<>>)
    BY <1>5 DEF Worked
  <2>2. Inserted'
    BY <1>1, <2>1 DEF Inserted, Answer
  <2>3. Len(start[at]) < RowsPerPage
    BY <1>2, <1>5 DEF HasRoom
  <2> QED
    BY <1>1, <1>2, <1>3, <1>4, <2>1, <2>2, <2>3 DEF InsertInv
<1>6. CASE ~ HasRoom
  <2>1. c = Here /\ soFar' = NoAnswer
    BY <1>2, <1>6 DEF Worked
  <2>2. ~ Inserted'
    BY <2>1 DEF Inserted, NoAnswer, Answer
  <2>3. IsFull(start[at])
    <3>1. Len(Here) <= RowsPerPage /\ Len(Here) \in Nat
      BY <1>1, Bounds, PageIsSeq
    <3> QED
      BY <1>2, <1>6, <3>1, Bounds DEF HasRoom, IsFull
  <2>4. View' = start
    BY <1>1, <1>2, <2>1, Bounds
  <2> QED
    BY <1>1, <1>3, <1>4, <2>1, <2>2, <2>3, <2>4 DEF InsertInv
<1> QED
  BY <1>5, <1>6

LEMMA WorkSeen ==
    ASSUME HeapInv, TableInv, Work, NEW c \in PageContents, Worked(c)
    PROVE  SeenInv'
<1>1. /\ pc = "work" /\ pc' = "unpin"
      /\ UNCHANGED <<count, stmt, at, start, raised, upset>>
      /\ at \in Pages /\ at \in 1 .. count - 1 /\ Here = View[at]
      /\ View' = [View EXCEPT ![at] = c]
      /\ stmt.kind \in {"delete", "update"} => Here = start[at]
  BY WorkedBounds
<1> DEFINE seen == RowsUpTo(start, at - 1)
           page == Live(start[at])
<1>2. /\ View \in [Pages -> PageContents] /\ start \in [Pages -> PageContents]
      /\ stmt \in Statements
  BY Bounds
<1>3. RowsSeen = seen
  BY <1>1 DEF RowsSeen
<1>4. RowsSeen' = seen \o page /\ seen \in Seq(Row) /\ page \in Seq(Row)
  <2>1. RowsSeen' = RowsUpTo(start, at)
    BY <1>1 DEF RowsSeen
  <2>2. RowsUpTo(start, at) = seen \o page /\ seen \in Seq(Row) /\ page \in Seq(Row)
    BY <1>1, <1>2, SeenPage
  <2> QED
    BY <2>1, <2>2
<1> HIDE DEF seen
<1>5. ASSUME stmt.kind = "scan"
      PROVE  View' = start /\ soFar' = Answer(0, RowsSeen')
  <2>1. View = start /\ soFar = Answer(0, seen)
    BY <1>1, <1>3, <1>5 DEF TableInv, SeenInv
  <2>2. c = Here /\ soFar' = Answer(0, soFar.rows \o Live(Here))
    BY <1>5 DEF Worked
  <2>3. View' = View /\ soFar.rows = seen /\ Live(Here) = page
    BY <1>1, <1>2, <2>1, <2>2 DEF Answer
  <2> QED
    BY <1>4, <2>1, <2>2, <2>3
<1>6. ASSUME stmt.kind \in {"delete", "update"}
      PROVE  soFar' = Answer(Len(Only(RowsSeen', Yes(stmt))), <<>>)
  <2> DEFINE before == Len(Only(seen, Yes(stmt)))
             matching == Matches(stmt.where, Here)
  <2>1. soFar = Answer(before, <<>>)
    BY <1>1, <1>3, <1>6 DEF TableInv, SeenInv
  <2>2. soFar' = IF matching = {} THEN soFar ELSE Counted
    BY <1>6 DEF Worked
  <2>3. Only(seen \o page, Yes(stmt)) = Only(seen, Yes(stmt)) \o Only(page, Yes(stmt))
    BY <1>4, OnlyConcat
  <2>4. Only(seen, Yes(stmt)) \in Seq(Row \cap Yes(stmt))
    BY <1>4, OnlyMembers
  <2>5. Only(page, Yes(stmt)) \in Seq(Row \cap Yes(stmt))
    BY <1>4, OnlyMembers
  <2>6. Cardinality(matching) = Len(Only(page, Yes(stmt)))
    <3>1. Here \in PageContents /\ Here = start[at]
      BY <1>1, <1>2, <1>6
    <3>2. Cardinality(Matches(stmt.where, Here)) = Len(Only(Live(Here), Yes(stmt)))
      BY <1>2, <1>6, <3>1, MatchesCount
    <3> QED
      BY <3>1, <3>2
  <2>7. matching = {} => Cardinality(matching) = 0
    BY FS_EmptySet
  <2>8. Len(Only(seen \o page, Yes(stmt))) = before + Cardinality(matching)
        /\ before \in Nat
    <3> HIDE DEF matching
    <3>1. Len(Only(seen, Yes(stmt)) \o Only(page, Yes(stmt))) =
              Len(Only(seen, Yes(stmt))) + Len(Only(page, Yes(stmt)))
      BY <2>4, <2>5
    <3>2. before \in Nat
      BY <2>4
    <3> QED
      BY <2>3, <2>6, <3>1, <3>2
  <2>9. Counted = Answer(before + Cardinality(matching), <<>>)
    BY <2>1 DEF Counted, Answer
  <2> HIDE DEF before, matching
  <2>10. soFar' = Answer(before + Cardinality(matching), <<>>)
    <3>1. CASE matching = {}
      <4>1. before + Cardinality(matching) = before
        BY <2>7, <2>8, <3>1
      <4> QED
        BY <2>1, <2>2, <3>1, <4>1
    <3>2. CASE matching # {}
      BY <2>2, <2>9, <3>2
    <3> QED
      BY <3>1, <3>2
  <2> QED
    BY <1>4, <2>8, <2>10
<1>7. ASSUME stmt.kind = "update", NEW p \in 1 .. count - 1, Done(p)'
      PROVE  ~ Updated(stmt, start[p]).lost
  <2>1. CASE p = at
    BY <1>1, <1>7, <2>1 DEF Worked
  <2>2. CASE p # at
    <3>1. Done(p)
      BY <1>1, <1>7, <2>2 DEF Done
    <3> QED
      BY <1>1, <1>7, <3>1 DEF TableInv, SeenInv
  <2> QED
    BY <2>1, <2>2
<1>8. /\ stmt' = stmt /\ start' = start /\ count' = count
  BY <1>1
<1> QED
  BY <1>5, <1>6, <1>7, <1>8 DEF SeenInv

LEMMA WorkTable ==
    ASSUME HeapInv, TableInv, Work
    PROVE  TableInv'
<1>1. PICK c \in PageContents : Worked(c)
  BY WorkedStep
<1> QED
  BY <1>1, WorkFull, WorkInsert, WorkSeen DEF TableInv

(* A failure ends the statement with the pages after the last blank.       *)
LEMMA FailTable ==
    ASSUME HeapInv, TableInv, GetRefused \/ ClauseRaises \/ ScanRaises \/ UpdateFindsNoRoom
    PROVE  TableInv'
<1>1. Returned /\ count' = count /\ upset'
  BY DEF GetRefused, ClauseRaises, ScanRaises, UpdateFindsNoRoom, Abandon
<1>2. \A p \in Pages : p >= count => View'[p] = View[p]
  <2>1. CASE GetRefused \/ ClauseRaises \/ ScanRaises
    BY <2>1, RefusedInv, RaisesInv
  <2>2. CASE UpdateFindsNoRoom
    <3>1. View' = [View EXCEPT ![at] = Outcome(stmt, Here)]
      BY <2>2, NoRoomInv
    <3>2. at < count
      BY <2>2 DEF UpdateFindsNoRoom, HeapInv, LoopInv, Holding
    <3>3. at \in Nat /\ count \in Nat /\ View \in [Pages -> PageContents]
      BY Bounds
    <3> QED
      BY <3>1, <3>2, <3>3 DEF Pages
  <2> QED
    BY <2>1, <2>2
<1> QED
  BY <1>1, <1>2, EndTable DEF TableInv, BlankInv

LEMMA ReturnTable ==
    ASSUME HeapInv, TableInv, Return
    PROVE  TableInv'
<1>1. Returned /\ UNCHANGED <<count, raised, upset>> /\ View' = View
  BY RefusedInv DEF Return
<1> QED
  BY <1>1, EndTable DEF TableInv, BlankInv, FullInv

(* A reopening with nothing pinned finds the table as it was.              *)
LEMMA ReopenView ==
    ASSUME HeapInv, Reopen
    PROVE  /\ \A p \in Pages : p >= count => View'[p] = View[p]
           /\ raised = 0 => View' = View
<1>1. /\ disk' = Pool!WrittenBack(Pool!DirtyPages) /\ pc = "idle"
  BY DEF Reopen
<1>2. CachedPages' = {}
  BY ReopenStep DEF Reopen, HeapInv
<1>3. /\ \A p \in Pages : View[p] = IF p \in CachedPages THEN frame[p].page ELSE disk[p]
      /\ View \in [Pages -> PageContents]
  BY ViewIsPages DEF HeapInv
<1>4. \A p \in Pages :
          disk'[p] = IF p \in CachedPages /\ frame[p].dirty THEN frame[p].page
                     ELSE disk[p]
  BY <1>1 DEF Pool!WrittenBack, Pool!DirtyPages, Pool!Cached, CachedPages
<1>5. View' = [p \in Pages |-> disk'[p]]
  BY <1>2 DEF View, Pool!View, Pool!Cached, CachedPages
<1>6. ASSUME NEW p \in Pages, p >= count
      PROVE  View'[p] = View[p]
  <2>1. p \notin CachedPages
    BY <1>6, Bounds DEF HeapInv, LoopInv, Pages
  <2> QED
    BY <1>3, <1>4, <1>5, <2>1
<1>7. ASSUME raised = 0
      PROVE  View' = View
  <2>1. Pinned = {}
    <3>1. Cardinality(Pinned) = 0
      BY <1>1, <1>7, PinnedFinite DEF HeapInv, PinsInv, Holding
    <3> QED
      BY <3>1, PinnedFinite, FS_EmptySet
  <2>2. \A u \in Users : holds[u] = NoPage
    BY <2>1 DEF Pinned
  <2>3. ASSUME NEW p \in Pages, p \in CachedPages, ~ frame[p].dirty
        PROVE  frame[p].page = disk[p]
    <3>1. Proofs!Holders(p) = {}
      BY <2>2, HeapAssumption DEF Proofs!Holders, Pages
    <3> QED
      BY <2>3, <3>1 DEF HeapInv, Proofs!PoolInv, Proofs!Coherence,
                        Proofs!Cached, CachedPages
  <2>4. \A p \in Pages : disk'[p] = View[p]
    BY <1>3, <1>4, <2>3
  <2> QED
    BY <1>3, <1>5, <2>4
<1> QED
  BY <1>6, <1>7

LEMMA ReopenTable ==
    ASSUME HeapInv, TableInv, Reopen
    PROVE  TableInv'
<1>1. /\ pc = "idle" /\ raised' = 0
      /\ UNCHANGED <<count, stmt, pc, at, soFar, start, upset>>
  BY DEF Reopen
<1>2. BlankInv'
  BY <1>1, ReopenView DEF TableInv, BlankInv
<1>3. FullInv'
  BY <1>1, ReopenView DEF TableInv, FullInv
<1> QED
  BY <1>1, <1>2, <1>3 DEF TableInv, InsertInv, SeenInv

LEMMA KillTable ==
    ASSUME HeapInv, TableInv, Kill
    PROVE  TableInv'
<1>1. Returned /\ count' = count /\ upset' /\ Pool!Restart
  BY DEF Kill
<1>2. disk' = disk
  BY <1>1 DEF Pool!Restart
<1>3. CachedPages' = {}
  BY <1>1, KillStep DEF HeapInv
<1>4. View' = [p \in Pages |-> disk[p]]
  BY <1>2, <1>3 DEF View, Pool!View, Pool!Cached, CachedPages
<1>5. ASSUME NEW p \in Pages, p >= count
      PROVE  View'[p] = <<>>
  <2>1. p \notin CachedPages
    BY <1>5, Bounds DEF HeapInv, LoopInv, Pages
  <2>2. View[p] = disk[p]
    BY <2>1, ViewIsPages DEF HeapInv
  <2> QED
    BY <1>4, <1>5, <2>2 DEF TableInv, BlankInv
<1> QED
  BY <1>1, <1>5, EndTable

LEMMA NextTable == HeapInv /\ TableInv /\ [Next]_vars => TableInv'
<1> SUFFICES ASSUME HeapInv, TableInv, [Next]_vars PROVE TableInv'
  OBVIOUS
<1>1. ASSUME NEW st \in Asked, Begin(st) PROVE TableInv'
  BY <1>1, AskedAssumption, BeginTable
<1>2. CASE GetPage
  BY <1>2, GetPageInv, SameTable DEF GetPage
<1>3. CASE Flush
  BY <1>3, FlushInv, SameTable DEF Flush
<1>4. CASE UNCHANGED vars
  BY <1>4, StutterInv, SameTable DEF vars
<1>5. CASE InsertRefused
  BY <1>5, InsertRefusedInv, SameTable DEF InsertRefused
<1> QED
  BY <1>1, <1>2, <1>3, <1>4, <1>5, AllocateTable, WorkTable, FailTable, ReturnTable,
     UnpinTable, ReopenTable, KillTable DEF Next

(* The pages, in pool and file, and what the statement under way has done  *)
(* to them stay what the table as a list needs.                            *)
THEOREM TableInvariant == Spec => [](HeapInv /\ TableInv)
<1> QED
  BY InitInv, NextInv, InitTable, NextTable, PTL DEF Spec

-----------------------------------------------------------------------------
(* Each step of a statement is one of TableStore, or none at all.          *)
Rows == RowsIn(IF pc = "idle" THEN Pool!View ELSE start)

LEMMA RowsNow ==
    /\ pc = "idle" => Rows = RowsUpTo(View, count - 1)
    /\ pc # "idle" => Rows = RowsUpTo(start, count - 1)
    /\ pc' = "idle" => Rows' = RowsUpTo(View', count' - 1)
    /\ pc' # "idle" => Rows' = RowsUpTo(start', count' - 1)
<1> QED
  BY DEF Rows, RowsIn, View

LEMMA TableWords ==
    /\ Table!NoStatement = Scan /\ Table!NoRows = <<>>
    /\ \A n, list : Table!Answer(n, list) = Answer(n, list)
    /\ \A list, S : Table!Only(list, S) = Only(list, S)
    /\ \A v, list : Table!Copies(v, list) = Copies(v, list)
<1>1. \A list, S : Table!Only(list, S) = Only(list, S)
  BY DEF Table!Only, Only
<1> QED
  BY <1>1 DEF Table!NoStatement, Scan, Table!NoRows, Table!Answer, Answer,
              Table!Copies, Copies

LEMMA InitRefines == Init => Table!Init
<1> SUFFICES ASSUME Init PROVE Table!Init
  OBVIOUS
<1>1. pc = "idle" /\ count = 1 /\ stmt = Scan /\ answer = NoAnswer
      /\ raised = 0 /\ restarts = 0 /\ upset = FALSE
  BY DEF Init, Pool!Init
<1>2. Rows = <<>>
  <2>1. ArePages(View, 0)
    BY DEF ArePages
  <2>2. RowsUpTo(View, 0) = <<>>
    BY <2>1, RowsStep
  <2> QED
    BY <1>1, <2>2, RowsNow
<1> QED
  BY <1>1, <1>2, TableWords DEF Table!Init, Rows, NoAnswer

LEMMA Stutters ==
    ASSUME Rows' = Rows, (pc = "idle") = (pc' = "idle"),
           UNCHANGED <<stmt, answer, raised, restarts, upset>>
    PROVE  UNCHANGED Table!vars
<1> QED
  BY DEF Table!vars, Rows

LEMMA BeginRefines ==
    ASSUME HeapInv, NEW st \in Asked, Begin(st)
    PROVE  Table!Ask(st)
<1>1. /\ pc = "idle" /\ pc' = "get" /\ stmt' = st /\ start' = View
      /\ answer' = NoAnswer
      /\ UNCHANGED <<count, raised, restarts, upset>>
  BY DEF Begin, View, poolVars
<1>2. Rows' = Rows
  BY <1>1, RowsNow
<1> QED
  BY <1>1, <1>2, TableWords DEF Table!Ask, Rows, NoAnswer

LEMMA PutInAt ==
    ASSUME NEW more, NEW list, NEW r \in Row, PutIn(more, list, r)
    PROVE  \E i \in 1 .. Len(list) + 1 : more = Table!InsertAt(list, i, r)
<1>1. PICK A \in Seq(Row), B \in Seq(Row) : list = A \o B /\ more = Append(A, r) \o B
  BY DEF PutIn
<1> DEFINE k == Len(A)
           m == Len(B)
<1>2. /\ k \in Nat /\ m \in Nat /\ Len(list) = k + m /\ list \in Seq(Row)
      /\ \A i \in 1 .. k + m : list[i] = IF i <= k THEN A[i] ELSE B[i - k]
  BY <1>1, ConcatProperties
<1>3. SubSeq(list, 1, k) = A
  <2>1. SubSeq(list, 1, k) = [i \in 1 .. k |-> list[1 + i - 1]]
    BY <1>2
  <2>2. \A i \in 1 .. k : list[1 + i - 1] = A[i]
    BY <1>2
  <2>3. A = [i \in 1 .. k |-> A[i]]
    OBVIOUS
  <2> QED
    BY <2>1, <2>2, <2>3
<1>4. SubSeq(list, k + 1, k + m) = B
  <2>1. SubSeq(list, k + 1, k + m) \in Seq(Row)
        /\ Len(SubSeq(list, k + 1, k + m)) = m
        /\ \A i \in 1 .. m : SubSeq(list, k + 1, k + m)[i] = list[k + i]
    BY <1>2
  <2>2. \A i \in 1 .. m : list[k + i] = B[i]
    BY <1>2
  <2> QED
    BY <2>1, <2>2, SeqEqual
<1>5. Table!InsertAt(list, k + 1, r) = (A \o <<r>>) \o B
  <2>1. Table!InsertAt(list, k + 1, r) =
            SubSeq(list, 1, (k + 1) - 1) \o <<r>> \o SubSeq(list, k + 1, Len(list))
    BY DEF Table!InsertAt
  <2>2. (k + 1) - 1 = k
    BY <1>2
  <2> QED
    BY <1>2, <1>3, <1>4, <2>1, <2>2
<1>6. A \o <<r>> = Append(A, r)
  OBVIOUS
<1>7. k + 1 \in 1 .. Len(list) + 1
  BY <1>2
<1> QED
  BY <1>1, <1>5, <1>6, <1>7

LEMMA Replies ==
    ASSUME pc # "idle", Returned, UNCHANGED <<raised, restarts, upset>>
    PROVE  Table!Reply(stmt.kind)
<1> QED
  BY TableWords DEF Returned, Table!Reply

(* The INSERT that returns has put its row at the end of a page, the last  *)
(* one if no statement has raised.                                         *)
LEMMA InsertRefines ==
    ASSUME HeapInv, TableInv, UnpinPage, stmt.kind = "insert", soFar.count = 1
    PROVE  Table!Insert
<1>1. /\ pc = "unpin" /\ Returned /\ answer' = soFar
      /\ UNCHANGED <<count, raised, upset, restarts>>
  BY DEF UnpinPage, Pool!Unpin, Pool!process
<1>2. /\ count \in 1 .. MaxPages + 1 /\ MaxPages \in Nat
      /\ RowsPerPage \in Nat /\ stmt \in Statements
      /\ \A p \in 1 .. count - 1 : p \in Pages
      /\ View \in [Pages -> PageContents] /\ start \in [Pages -> PageContents]
  BY Bounds
<1>3. at \in 1 .. count - 1 /\ at \in Pages
  <2>1. at \in 1 .. count /\ at < count
    BY <1>1, Bounds DEF HeapInv, LoopInv, Holding
  <2> QED
    BY <1>2, <2>1
<1>4. /\ soFar = Answer(1, <<>>) /\ Len(start[at]) < RowsPerPage
      /\ View = [start EXCEPT ![at] = Append(start[at], stmt.row)]
  BY <1>1 DEF TableInv, InsertInv, Inserted
<1>5. Rows = RowsUpTo(start, count - 1) /\ Rows' = RowsUpTo(View, count - 1)
  <2>1. View' = View /\ pc' = "idle"
    BY <1>1, UnpinInv DEF Returned
  <2> QED
    BY <1>1, <2>1, RowsNow
<1>6. stmt.row \in Row
  BY <1>2, Clauses
<1>7. /\ PutIn(Rows', Rows, stmt.row)
      /\ at = count - 1 => Rows' = Append(Rows, stmt.row)
  <2> DEFINE n == count - 1
  <2>1. n \in Nat /\ at \in 1 .. n /\ ArePages(start, n) /\ ArePages(View, n)
    BY <1>2, <1>3 DEF ArePages
  <2>2. Live(View[at]) = Append(Live(start[at]), stmt.row)
    BY <1>2, <1>3, <1>4, <1>6, LiveAppended
  <2>3. \A p \in 1 .. n : p # at => Live(start[p]) = Live(View[p])
    BY <1>2, <1>4
  <2> HIDE DEF n
  <2>4. PutIn(RowsUpTo(View, n), RowsUpTo(start, n), stmt.row)
    BY <1>6, <2>1, <2>2, <2>3, RowsInserted
  <2>5. at = n => RowsUpTo(View, n) = Append(RowsUpTo(start, n), stmt.row)
    BY <1>6, <2>1, <2>2, <2>3, RowsInserted
  <2> QED
    BY <1>5, <2>4, <2>5 DEF n
<1>8. ~ upset => at = count - 1
  BY <1>1, <1>2, <1>3, <1>4 DEF TableInv, FullInv, IsFull
<1>9. \E i \in 1 .. Len(Rows) + 1 : Rows' = Table!InsertAt(Rows, i, stmt.row)
  BY <1>6, <1>7, PutInAt
<1>10. Table!Reply("insert")
  BY <1>1, Replies
<1>11. answer' = Table!Answer(1, Table!NoRows)
  BY <1>1, <1>4, TableWords
<1> QED
  BY <1>7, <1>8, <1>9, <1>10, <1>11 DEF Table!Insert, Rows

(* What holds when a scan, a DELETE or an UPDATE returns.                  *)
LEMMA Returns ==
    ASSUME HeapInv, TableInv, Return
    PROVE  /\ Table!Reply(stmt.kind)
           /\ stmt.kind \in {"scan", "delete", "update"} /\ stmt \in Statements
           /\ count - 1 \in Nat
           /\ ArePages(start, count - 1) /\ ArePages(View, count - 1)
           /\ Rows = RowsUpTo(start, count - 1) /\ Rows \in Seq(Row)
           /\ Rows' = RowsUpTo(View, count - 1) /\ Rows' \in Seq(Row)
           /\ stmt.kind = "scan" => View = start /\ answer' = Answer(0, Rows)
           /\ stmt.kind \in {"delete", "update"} =>
                 /\ answer' = Answer(Len(Only(Rows, Yes(stmt))), <<>>)
                 /\ \A p \in 1 .. count - 1 : View[p] = Outcome(stmt, start[p])
           /\ stmt.kind = "update" =>
                 \A p \in 1 .. count - 1 : ~ Updated(stmt, start[p]).lost
<1>1. /\ pc = "get" /\ stmt.kind # "insert" /\ at = count /\ answer' = soFar
      /\ Returned /\ UNCHANGED <<count, raised, upset, restarts>>
  BY DEF Return, poolVars
<1>2. /\ count - 1 \in Nat /\ at \in Nat /\ stmt \in Statements
      /\ \A p \in 1 .. count - 1 : p \in Pages
      /\ View \in [Pages -> PageContents] /\ start \in [Pages -> PageContents]
  BY Bounds
<1>3. ArePages(start, count - 1) /\ ArePages(View, count - 1)
  BY <1>2 DEF ArePages
<1>4. Rows = RowsUpTo(start, count - 1) /\ Rows' = RowsUpTo(View, count - 1)
  <2>1. View' = View /\ pc' = "idle"
    BY <1>1, RefusedInv DEF Returned
  <2> QED
    BY <1>1, <2>1, RowsNow
<1>5. Rows \in Seq(Row) /\ Rows' \in Seq(Row)
  <2>1. RowsUpTo(start, count - 1) \in Seq(Row)
    BY <1>2, <1>3, RowsStep
  <2>2. RowsUpTo(View, count - 1) \in Seq(Row)
    BY <1>2, <1>3, RowsStep
  <2> QED
    BY <1>4, <2>1, <2>2
<1>6. RowsSeen = Rows
  BY <1>1, <1>4 DEF RowsSeen
<1>7. Table!Reply(stmt.kind)
  BY <1>1, Replies
<1>8. stmt.kind \in {"scan", "delete", "update"}
  BY <1>1, <1>2, Kinds
<1>9. \A p \in 1 .. count - 1 : Done(p)
  BY <1>1, <1>2 DEF Done
<1>10. stmt.kind = "scan" => View = start /\ answer' = Answer(0, Rows)
  BY <1>1, <1>6 DEF TableInv, SeenInv
<1>11. stmt.kind \in {"delete", "update"} =>
           answer' = Answer(Len(Only(Rows, Yes(stmt))), <<>>)
  BY <1>1, <1>6 DEF TableInv, SeenInv
<1>12. stmt.kind \in {"delete", "update"} =>
           \A p \in 1 .. count - 1 : View[p] = Outcome(stmt, start[p])
  BY <1>1, <1>9 DEF HeapInv, ProgressInv
<1>13. stmt.kind = "update" =>
           \A p \in 1 .. count - 1 : ~ Updated(stmt, start[p]).lost
  BY <1>1, <1>9 DEF TableInv, SeenInv
<1> QED
  BY <1>2, <1>3, <1>4, <1>5, <1>7, <1>8, <1>10, <1>11, <1>12, <1>13

LEMMA ScanRefines ==
    ASSUME HeapInv, TableInv, Return, stmt.kind = "scan"
    PROVE  Table!Scan
<1>1. /\ Table!Reply("scan") /\ Rows' = Rows /\ answer' = Answer(0, Rows)
  BY Returns
<1> QED
  BY <1>1, TableWords DEF Table!Scan, Rows

LEMMA TableSatisfying ==
    ASSUME NEW st \in Statements, stmt = st, st.kind \in {"delete", "update"}
    PROVE  Table!Satisfying = Yes(st) /\ DOMAIN stmt.where = Row
<1> QED
  BY Clauses DEF Table!Satisfying, Yes

LEMMA DeleteRefines ==
    ASSUME HeapInv, TableInv, Return, stmt.kind = "delete"
    PROVE  Table!Delete
<1> DEFINE n == count - 1
           S == Row \ Yes(stmt)
<1>1. /\ Table!Reply("delete") /\ stmt \in Statements
      /\ n \in Nat /\ ArePages(start, n) /\ ArePages(View, n)
      /\ Rows = RowsUpTo(start, n) /\ Rows' = RowsUpTo(View, n)
      /\ answer' = Answer(Len(Only(Rows, Yes(stmt))), <<>>)
      /\ \A p \in 1 .. n : View[p] = Outcome(stmt, start[p])
  BY Returns
<1>2. \A p \in 1 .. n : Live(View[p]) = Only(Live(start[p]), S)
  <2> SUFFICES ASSUME NEW p \in 1 .. n
               PROVE  Live(View[p]) = Only(Live(start[p]), S)
    OBVIOUS
  <2>1. start[p] \in PageContents /\ View[p] = Deleted(stmt, start[p])
    BY <1>1 DEF ArePages, Outcome
  <2> QED
    BY <2>1, DeletedRows
<1>3. Rows' = Only(Rows, S)
  <2> HIDE DEF n, S
  <2>1. RowsUpTo(View, n) = Only(RowsUpTo(start, n), S)
    BY <1>1, <1>2, RowsOnly
  <2> QED
    BY <1>1, <2>1
<1>4. Table!Satisfying = Yes(stmt) /\ DOMAIN stmt.where = Row
  BY <1>1, TableSatisfying
<1>5. /\ Rows' = Table!Only(Rows, DOMAIN stmt.where \ Table!Satisfying)
      /\ Table!Matching = Only(Rows, Yes(stmt))
  BY <1>3, <1>4, TableWords DEF Table!Matching, Rows
<1>6. answer' = Table!Answer(Len(Table!Matching), Table!NoRows)
  BY <1>1, <1>5, TableWords
<1> QED
  BY <1>1, <1>5, <1>6 DEF Table!Delete, Rows

LEMMA UpdateRefines ==
    ASSUME HeapInv, TableInv, Return, stmt.kind = "update"
    PROVE  Table!Update
<1> DEFINE n == count - 1
           new(v) == IF v \in Table!Satisfying THEN stmt.set[v] ELSE v
           list == [i \in DOMAIN Rows |-> new(Rows[i])]
           Keep == \A i \in DOMAIN Rows : SameWidth(Rows[i], list[i])
<1>1. /\ Table!Reply("update") /\ stmt \in Statements
      /\ n \in Nat /\ ArePages(start, n) /\ ArePages(View, n)
      /\ Rows = RowsUpTo(start, n) /\ Rows \in Seq(Row)
      /\ Rows' = RowsUpTo(View, n) /\ Rows' \in Seq(Row)
      /\ answer' = Answer(Len(Only(Rows, Yes(stmt))), <<>>)
      /\ \A p \in 1 .. n : View[p] = Updated(stmt, start[p]).page
      /\ \A p \in 1 .. n : ~ Updated(stmt, start[p]).lost
  BY Returns DEF Outcome
<1>2. /\ stmt.set \in [Row -> Row]
      /\ \A r \in Row : r \notin Yes(stmt) => stmt.set[r] = r
  BY <1>1, Clauses
<1>3. Table!Satisfying = Yes(stmt)
  BY <1>1, TableSatisfying
<1>4. list = Mapped(stmt.set, Rows)
  <2>1. \A i \in DOMAIN Rows : new(Rows[i]) = stmt.set[Rows[i]]
    BY <1>1, <1>2, <1>3
  <2> QED
    BY <2>1 DEF Mapped
<1>5. list \in Seq(Row)
  <2> HIDE DEF list
  <2>1. \A r \in Row : stmt.set[r] \in Row
    BY <1>2
  <2>2. Mapped(stmt.set, Rows) \in Seq(Row)
    BY <1>1, <2>1, MappedIsList
  <2> QED
    BY <1>4, <2>2
<1>6. ASSUME NEW p \in 1 .. n
      PROVE  /\ \A v \in Row : Copies(v, Live(View[p])) =
                               Copies(v, Mapped(stmt.set, Live(start[p])))
             /\ KeepsWidths(stmt, start[p]) =>
                   Live(View[p]) = Mapped(stmt.set, Live(start[p]))
  <2>1. /\ start[p] \in PageContents /\ View[p] = Updated(stmt, start[p]).page
        /\ ~ Updated(stmt, start[p]).lost
    BY <1>1 DEF ArePages
  <2> QED
    BY <1>1, <2>1, UpdatedLive
<1>7. ASSUME NEW v \in Row
      PROVE  Copies(v, Rows') = Copies(v, list)
  <2>1. \A r \in Row : stmt.set[r] \in Row
    BY <1>2
  <2>2. \A p \in 1 .. n : Copies(v, Live(View[p])) =
                          Copies(v, Mapped(stmt.set, Live(start[p])))
    BY <1>6
  <2> HIDE DEF n, list
  <2>3. Copies(v, RowsUpTo(View, n)) = Copies(v, Mapped(stmt.set, RowsUpTo(start, n)))
    BY <1>1, <2>1, <2>2, RowsCopies
  <2> QED
    BY <1>1, <1>4, <2>3
<1>8. ASSUME Keep
      PROVE  Rows' = list
  <2>1. ASSUME NEW p \in 1 .. n
        PROVE  KeepsWidths(stmt, start[p])
    <3> SUFFICES ASSUME NEW s \in DOMAIN start[p], start[p][s] # Gone
                 PROVE  SameWidth(start[p][s], stmt.set[start[p][s]])
      BY DEF KeepsWidths
    <3>1. PICK i \in 1 .. Len(Rows) : Rows[i] = start[p][s]
      <4> HIDE DEF n
      <4>1. \E i \in 1 .. Len(RowsUpTo(start, n)) : RowsUpTo(start, n)[i] = start[p][s]
        BY <1>1, RowsHave
      <4> QED
        BY <1>1, <4>1
    <3>2. i \in DOMAIN Rows /\ Rows[i] \in Row
      BY <1>1
    <3>3. list[i] = stmt.set[Rows[i]]
      <4> HIDE DEF list
      <4> QED
        BY <1>4, <3>2 DEF Mapped
    <3>4. SameWidth(Rows[i], list[i])
      BY <1>8, <3>2
    <3> HIDE DEF list
    <3> QED
      BY <3>1, <3>3, <3>4
  <2>2. \A p \in 1 .. n : Live(View[p]) = Mapped(stmt.set, Live(start[p]))
    BY <1>6, <2>1
  <2> HIDE DEF n, list
  <2>3. RowsUpTo(View, n) = Mapped(stmt.set, RowsUpTo(start, n))
    BY <1>1, <2>2, RowsMapped
  <2> QED
    BY <1>1, <1>4, <2>3
<1>9. \A v \in Table!Range(Rows') \cup Table!Range(list) :
          Table!Copies(v, Rows') = Table!Copies(v, list)
  <2> HIDE DEF list
  <2>1. \A v \in Table!Range(Rows') \cup Table!Range(list) : v \in Row
    BY <1>1, <1>5 DEF Table!Range
  <2> QED
    BY <1>7, <2>1, TableWords
<1>10. answer' = Table!Answer(Len(Table!Matching), Table!NoRows)
  <2>1. Table!Matching = Only(Rows, Yes(stmt))
    BY <1>3, TableWords DEF Table!Matching, Rows
  <2> QED
    BY <1>1, <2>1, TableWords
<1>11. IF Keep THEN Rows' = list
       ELSE \A v \in Table!Range(Rows') \cup Table!Range(list) :
                Table!Copies(v, Rows') = Table!Copies(v, list)
  BY <1>8, <1>9
<1> QED
  BY <1>1, <1>10, <1>11 DEF Table!Update, Rows

LEMMA FailRefines ==
    ASSUME HeapInv, GetRefused \/ ClauseRaises \/ ScanRaises \/ UpdateFindsNoRoom
    PROVE  Table!Fail
<1>1. /\ pc # "idle" /\ Returned /\ answer' = Error /\ upset' = TRUE
      /\ restarts' = restarts /\ raised' \in {raised, raised + 1}
  <2>1. CASE GetRefused
    BY <2>1, SameGet DEF GetRefused, poolVars
  <2>2. CASE ClauseRaises \/ ScanRaises
    BY <2>2 DEF ClauseRaises, ScanRaises, Abandon, poolVars
  <2>3. CASE UpdateFindsNoRoom
    BY <2>3 DEF UpdateFindsNoRoom, Abandon, Pool!Change, Pool!process
  <2> QED
    BY <2>1, <2>2, <2>3
<1> QED
  BY <1>1, TableWords DEF Returned, Error, Table!Fail

LEMMA RefuseRefines ==
    ASSUME HeapInv, InsertRefused
    PROVE  Table!Refuse
<1>1. /\ pc = "idle" /\ pc' = "idle" /\ answer' = Error
      /\ UNCHANGED <<count, stmt, raised, restarts, upset>>
  BY DEF InsertRefused, poolVars
<1>2. Rows' = Rows
  BY <1>1, InsertRefusedInv, RowsNow
<1> QED
  BY <1>1, <1>2 DEF Rows, Error, Table!Refuse

LEMMA ReopenRefines ==
    ASSUME HeapInv, Reopen
    PROVE  Table!Reopen \/ UNCHANGED Table!vars
<1>1. /\ pc = "idle" /\ pc' = "idle" /\ raised' = 0 /\ raised \in Nat
      /\ UNCHANGED <<count, stmt, answer, restarts, upset>>
  BY DEF Reopen, HeapInv, HeapTypes
<1>2. CASE raised > 0
  BY <1>1, <1>2 DEF Table!Reopen
<1>3. CASE raised = 0
  <2>1. View' = View
    BY <1>3, ReopenView
  <2>2. Rows' = Rows
    BY <1>1, <2>1, RowsNow
  <2> QED
    BY <1>1, <1>3, <2>2, Stutters
<1> QED
  BY <1>1, <1>2, <1>3

LEMMA KillRefines ==
    ASSUME Kill
    PROVE  Table!Kill
<1>1. /\ Returned /\ answer' = NoAnswer /\ raised' = 0 /\ upset' = TRUE
      /\ restarts' = restarts + 1
  BY DEF Kill, Pool!Restart
<1> QED
  BY <1>1, TableWords DEF Returned, NoAnswer, Table!Kill

(* A step within a statement, or a flush, changes none of the rows.        *)
LEMMA WithinRefines ==
    ASSUME HeapInv, TableInv,
           \/ GetPage \/ AllocatePage \/ Work \/ Flush \/ UNCHANGED vars
           \/ UnpinPage /\ ~ (stmt.kind = "insert" /\ soFar.count = 1)
    PROVE  UNCHANGED Table!vars
<1>1. CASE GetPage
  <2>1. /\ pc = "get" /\ pc' = "work"
        /\ UNCHANGED <<count, start, stmt, answer, raised, upset>>
    BY <1>1 DEF GetPage
  <2>2. restarts' = restarts
    BY <1>1 DEF GetPage, Pool!GetHit, Pool!GetMiss, Pool!GetEvict, Pool!process
  <2>3. Rows' = Rows
    BY <2>1, RowsNow
  <2> QED
    BY <2>1, <2>2, <2>3, Stutters
<1>2. CASE AllocatePage
  <2>1. /\ pc = "get" /\ pc' = "get" /\ at = count /\ count' = count + 1
        /\ stmt.kind = "insert"
        /\ UNCHANGED <<start, stmt, answer, raised, restarts, upset>>
    BY <1>2 DEF AllocatePage
  <2>2. count \in 1 .. MaxPages + 1 /\ MaxPages \in Nat
        /\ start \in [Pages -> PageContents]
    BY Bounds
  <2>3. count \in Pages
    <3>1. count <= MaxPages
      BY <2>1, <2>2 DEF HeapInv, RoomInv
    <3> QED
      BY <2>2, <3>1 DEF Pages
  <2>4. start[count] = <<>>
    BY <2>2, <2>3 DEF TableInv, BlankInv
  <2>5. /\ RowsUpTo(start, count) = RowsUpTo(start, count - 1) \o Live(start[count])
        /\ RowsUpTo(start, count - 1) \in Seq(Row)
    BY <2>2, <2>3, SeenPage
  <2>6. RowsUpTo(start, count) = RowsUpTo(start, count - 1)
    BY <2>4, <2>5, LiveOfNothing, ConcatEmptySeq
  <2>7. count' - 1 = count
    BY <2>1, <2>2
  <2>8. Rows' = RowsUpTo(start, count) /\ Rows = RowsUpTo(start, count - 1)
    BY <2>1, <2>7, RowsNow
  <2> QED
    BY <2>1, <2>6, <2>8, Stutters
<1>3. CASE Work
  <2>1. /\ pc = "work" /\ pc' = "unpin"
        /\ UNCHANGED <<count, start, stmt, answer, raised, upset>>
    BY <1>3 DEF Work, NextStep
  <2>2. restarts' = restarts
    BY <1>3 DEF Work, InsertRow, PageFull, ScanPage, NothingMatches, DeleteRows,
                UpdateRows, Pool!Change, Pool!process, poolVars
  <2>3. Rows' = Rows
    BY <2>1, RowsNow
  <2> QED
    BY <2>1, <2>2, <2>3, Stutters
<1>4. CASE Flush
  <2>1. /\ pc = "idle" /\ pc' = "idle"
        /\ UNCHANGED <<count, start, stmt, answer, raised, restarts, upset>>
    BY <1>4 DEF Flush, Pool!FlushAll, Pool!process
  <2>2. Rows' = Rows
    BY <1>4, <2>1, FlushInv, RowsNow
  <2> QED
    BY <2>1, <2>2, Stutters
<1>5. CASE UNCHANGED vars
  <2>1. /\ pc' = pc
        /\ UNCHANGED <<count, start, stmt, answer, raised, restarts, upset>>
    BY <1>5 DEF vars, poolVars
  <2>2. Rows' = Rows
    BY <1>5, <2>1, StutterInv, RowsNow
  <2> QED
    BY <2>1, <2>2, Stutters
<1>6. CASE UnpinPage /\ ~ (stmt.kind = "insert" /\ soFar.count = 1)
  <2>1. /\ pc = "unpin" /\ pc' = "get"
        /\ UNCHANGED <<count, start, stmt, answer, raised, restarts, upset>>
    BY <1>6 DEF UnpinPage, NextPage, Pool!Unpin, Pool!process
  <2>2. Rows' = Rows
    BY <2>1, RowsNow
  <2> QED
    BY <2>1, <2>2, Stutters
<1> QED
  BY <1>1, <1>2, <1>3, <1>4, <1>5, <1>6

LEMMA NextRefines ==
    HeapInv /\ TableInv /\ [Next]_vars => [Table!Next]_Table!vars
<1> SUFFICES ASSUME HeapInv, TableInv, [Next]_vars
             PROVE  Table!Next \/ UNCHANGED Table!vars
  OBVIOUS
<1>1. ASSUME NEW st \in Asked, Begin(st)
      PROVE  Table!Next
  BY <1>1, AskedAssumption, BeginRefines DEF Table!Next
<1>2. CASE Return
  <2>1. stmt.kind \in {"scan", "delete", "update"}
    BY <1>2, Returns
  <2> QED
    BY <1>2, <2>1, ScanRefines, DeleteRefines, UpdateRefines DEF Table!Next
<1>3. CASE UnpinPage /\ stmt.kind = "insert" /\ soFar.count = 1
  BY <1>3, InsertRefines DEF Table!Next
<1>4. CASE GetRefused \/ ClauseRaises \/ ScanRaises \/ UpdateFindsNoRoom
  BY <1>4, FailRefines DEF Table!Next
<1>5. CASE Reopen
  BY <1>5, ReopenRefines DEF Table!Next
<1>6. CASE Kill
  BY <1>6, KillRefines DEF Table!Next
<1>7. CASE InsertRefused
  BY <1>7, RefuseRefines DEF Table!Next
<1> QED
  BY <1>1, <1>2, <1>3, <1>4, <1>5, <1>6, <1>7, WithinRefines DEF Next

(* The engine's statements act on a table as TableStore's do on a list of  *)
(* rows, whatever the pool evicts and the file is flushed or reopened in   *)
(* between: they insert, return, remove and change the rows they should,   *)
(* and report how many; only a failure or a kill may leave other rows.     *)
THEOREM TableIsList == Spec => TableIsARowList
<1> QED
  BY InitRefines, TableInvariant, NextRefines, PTL
     DEF Spec, TableIsARowList, Table!Spec
=============================================================================
