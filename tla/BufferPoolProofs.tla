-------------------------- MODULE BufferPoolProofs --------------------------
(***************************************************************************)
(* The buffer pool keeps its types, its pin counts count holders, and a    *)
(* clean frame is equal to its page in the file: for any pages, users,     *)
(* capacity and contents, under both policies, with a file that may raise, *)
(* and over restarts.                                                      *)
(***************************************************************************)
EXTENDS BufferPool, FiniteSetTheorems, TLAPS

(* The order o lists the pages of S, each of them once.                    *)
Lists(o, S) ==
    /\ o \in Seq(Pages)
    /\ \A i \in DOMAIN o : o[i] \in S
    /\ \A p \in S : \E i \in DOMAIN o : o[i] = p
    /\ \A i, j \in DOMAIN o : o[i] = o[j] => i = j

(* The inductive invariant.                                                *)
PoolInv == TypeOK /\ PinsAreHolders /\ Coherence

-----------------------------------------------------------------------------
(* Lemmas on the order of the frames.                                      *)

(* A page that is appended to an order that has not got it.                *)
LEMMA AppendLists ==
    ASSUME NEW o, NEW S, Lists(o, S), NEW p \in Pages, p \notin S
    PROVE  /\ Lists(Append(o, p), S \cup {p})
           /\ Len(Append(o, p)) = Len(o) + 1
<1> DEFINE a == Append(o, p)
<1>1. /\ o \in Seq(Pages)
      /\ Len(o) \in Nat /\ DOMAIN o = 1 .. Len(o)
  BY DEF Lists
<1>2. /\ a \in Seq(Pages)
      /\ Len(a) = Len(o) + 1 /\ DOMAIN a = 1 .. Len(o) + 1
      /\ a[Len(o) + 1] = p
      /\ \A i \in 1 .. Len(o) : a[i] = o[i]
  BY <1>1
<1> HIDE DEF a
<1>3. \A i \in DOMAIN a : a[i] \in S \cup {p}
  BY <1>1, <1>2 DEF Lists
<1>4. \A q \in S \cup {p} : \E i \in DOMAIN a : a[i] = q
  <2> TAKE q \in S \cup {p}
  <2>1. CASE q = p
    <3>1. Len(o) + 1 \in DOMAIN a
      BY <1>1, <1>2
    <3> QED
      BY <2>1, <3>1, <1>2
  <2>2. CASE q \in S
    <3>1. PICK i \in 1 .. Len(o) : o[i] = q
      BY <2>2, <1>1 DEF Lists
    <3>2. i \in DOMAIN a
      BY <1>1, <1>2
    <3> QED
      BY <3>1, <3>2, <1>2
  <2> QED
    BY <2>1, <2>2
<1>5. \A i, j \in DOMAIN a : a[i] = a[j] => i = j
  <2> SUFFICES ASSUME NEW i \in DOMAIN a, NEW j \in DOMAIN a, a[i] = a[j]
               PROVE  i = j
    OBVIOUS
  <2>1. CASE i = Len(o) + 1 \/ j = Len(o) + 1
    BY <2>1, <1>1, <1>2 DEF Lists
  <2>2. CASE i \in 1 .. Len(o) /\ j \in 1 .. Len(o)
    BY <2>2, <1>1, <1>2 DEF Lists
  <2> QED
    BY <2>1, <2>2, <1>1, <1>2
<1> QED
  BY <1>2, <1>3, <1>4, <1>5 DEF Lists, a

(* The order without one of its pages.                                     *)
LEMMA WithoutLists ==
    ASSUME NEW S, Lists(order, S), NEW p \in S
    PROVE  /\ Lists(Without(p), S \ {p})
           /\ Len(Without(p)) = Len(order) - 1
<1> DEFINE n == Len(order)
           k == PositionOf(p)
           w == Without(p)
<1>1. order \in Seq(Pages) /\ n \in Nat /\ DOMAIN order = 1 .. n
  BY DEF Lists
<1>2. k \in 1 .. n /\ order[k] = p
  <2>1. \E i \in DOMAIN order : order[i] = p
    BY DEF Lists
  <2> QED
    BY <2>1, <1>1 DEF PositionOf
<1>3. n - 1 \in Nat
  BY <1>1, <1>2
<1>4. w = [i \in 1 .. n - 1 |-> IF i < k THEN order[i] ELSE order[i + 1]]
  BY DEF Without
<1> HIDE DEF w, k
<1>5. DOMAIN w = 1 .. n - 1
  BY <1>4
<1>6. \A i \in 1 .. n - 1 : order[i] \in Pages /\ order[i + 1] \in Pages
  BY <1>1
<1>7. w \in Seq(Pages)
  <2>1. w \in [1 .. n - 1 -> Pages]
    BY <1>4, <1>6
  <2> QED
    BY <2>1, <1>3
<1>8. Len(w) = n - 1
  BY <1>5, <1>3, <1>7
<1>9. \A i \in DOMAIN w : w[i] \in S \ {p}
  <2> TAKE i \in DOMAIN w
  <2>1. CASE i < k
    <3>1. w[i] = order[i] /\ i \in 1 .. n /\ i # k
      BY <2>1, <1>1, <1>2, <1>4, <1>5
    <3> QED
      BY <3>1, <1>1, <1>2 DEF Lists
  <2>2. CASE ~ (i < k)
    <3>1. w[i] = order[i + 1] /\ i + 1 \in 1 .. n /\ i + 1 # k
      BY <2>2, <1>1, <1>2, <1>4, <1>5
    <3> QED
      BY <3>1, <1>1, <1>2 DEF Lists
  <2> QED
    BY <2>1, <2>2
<1>10. \A q \in S \ {p} : \E i \in DOMAIN w : w[i] = q
  <2> TAKE q \in S \ {p}
  <2>1. PICK i \in 1 .. n : order[i] = q
    BY <1>1 DEF Lists
  <2>2. i # k
    BY <2>1, <1>2
  <2>3. CASE i < k
    <3>1. i \in 1 .. n - 1
      BY <2>3, <1>1, <1>2
    <3> QED
      BY <2>1, <2>3, <3>1, <1>4, <1>5
  <2>4. CASE i > k
    <3>1. i - 1 \in 1 .. n - 1 /\ ~ (i - 1 < k) /\ (i - 1) + 1 = i
      BY <2>4, <1>1, <1>2
    <3>2. w[i - 1] = order[(i - 1) + 1]
      BY <3>1, <1>4
    <3> QED
      BY <2>1, <3>1, <3>2, <1>5
  <2> QED
    BY <2>2, <2>3, <2>4, <1>1, <1>2
<1>11. \A i, j \in DOMAIN w : w[i] = w[j] => i = j
  <2> DEFINE at(i) == IF i < k THEN i ELSE i + 1
  <2>1. \A i \in DOMAIN w : w[i] = order[at(i)] /\ at(i) \in DOMAIN order
    BY <1>1, <1>2, <1>4, <1>5
  <2>2. \A i, j \in DOMAIN w : at(i) = at(j) => i = j
    BY <1>2, <1>5
  <2>3. \A i, j \in DOMAIN order : order[i] = order[j] => i = j
    BY DEF Lists
  <2> HIDE DEF at
  <2> QED
    BY <2>1, <2>2, <2>3
<1> QED
  BY <1>7, <1>8, <1>9, <1>10, <1>11 DEF Lists, w

(* What _touch does to the order of a page it has.                         *)
LEMMA TouchedLists ==
    ASSUME Lists(order, Cached), NEW p \in Cached, Cached \subseteq Pages
    PROVE  /\ Lists(Touched(p), Cached)
           /\ Len(Touched(p)) = Len(order)
<1>1. CASE policy = "LRU"
  <2>1. /\ Lists(Without(p), Cached \ {p})
        /\ Len(Without(p)) = Len(order) - 1
    BY WithoutLists
  <2>2. /\ Lists(Append(Without(p), p), (Cached \ {p}) \cup {p})
        /\ Len(Append(Without(p), p)) = Len(Without(p)) + 1
    BY <2>1, AppendLists
  <2>3. (Cached \ {p}) \cup {p} = Cached
    OBVIOUS
  <2>4. Len(order) \in Nat
    BY DEF Lists
  <2>5. Len(Append(Without(p), p)) = Len(order)
    BY <2>1, <2>2, <2>4
  <2>6. Touched(p) = Append(Without(p), p)
    BY <1>1 DEF Touched
  <2>7. Lists(Append(Without(p), p), Cached)
    BY <2>2, <2>3
  <2> QED
    BY <2>5, <2>6, <2>7
<1>2. CASE policy # "LRU"
  BY <1>2 DEF Touched
<1> QED
  BY <1>1, <1>2

(* The order lists the frames, which is part of TypeOK.                    *)
LEMMA TypeLists ==
    ASSUME TypeOK
    PROVE  Lists(order, Cached) /\ Len(order) \in Nat
<1> QED
  BY DEF TypeOK, Lists, Cached

-----------------------------------------------------------------------------
(* Lemmas on the holders of a page.                                        *)

LEMMA HoldersFinite ==
    \A p \in Pages :
        IsFiniteSet(Holders(p)) /\ Cardinality(Holders(p)) \in Nat
<1> TAKE p \in Pages
<1>1. Holders(p) \subseteq Users
  BY DEF Holders
<1>2. IsFiniteSet(Users)
  BY PoolAssumption
<1>3. IsFiniteSet(Holders(p))
  BY <1>1, <1>2, FS_Subset
<1> QED
  BY <1>3, FS_CardinalityType

(* A page with no pin has no holder.                                       *)
LEMMA UnpinnedUnheld ==
    ASSUME PoolInv, NEW p \in Cached, frame[p].pin = 0
    PROVE  \A u \in Users : holds[u] # p
<1>1. p \in Pages
  BY DEF PoolInv, TypeOK
<1>2. IsFiniteSet(Holders(p)) /\ Cardinality(Holders(p)) = 0
  BY <1>1, HoldersFinite DEF PoolInv, PinsAreHolders
<1>3. Holders(p) = {}
  BY <1>2, FS_EmptySet
<1> QED
  BY <1>3 DEF Holders

(* What a get does to the holders.                                         *)
LEMMA GotHolders ==
    ASSUME PoolInv, NEW u \in Users, NEW p \in Pages,
           holds[u] = NoPage, Got(u, p)
    PROVE  /\ holds' \in [Users -> Pages \cup {NoPage}]
           /\ wrote' \in [Users -> BOOLEAN]
           /\ \A v \in Users : /\ holds'[v] = IF v = u THEN p ELSE holds[v]
                               /\ wrote'[v] = IF v = u THEN FALSE ELSE wrote[v]
           /\ \A q \in Pages : q # p => Holders(q)' = Holders(q)
           /\ Holders(p)' = Holders(p) \cup {u}
           /\ Cardinality(Holders(p)') = Cardinality(Holders(p)) + 1
<1>1. /\ holds \in [Users -> Pages \cup {NoPage}]
      /\ wrote \in [Users -> BOOLEAN]
      /\ NoPage \notin Pages
  BY PoolAssumption DEF PoolInv, TypeOK
<1>2. /\ holds' \in [Users -> Pages \cup {NoPage}]
      /\ wrote' \in [Users -> BOOLEAN]
      /\ \A v \in Users : /\ holds'[v] = IF v = u THEN p ELSE holds[v]
                          /\ wrote'[v] = IF v = u THEN FALSE ELSE wrote[v]
  BY <1>1 DEF Got
<1>3. \A q \in Pages : q # p => Holders(q)' = Holders(q)
  BY <1>1, <1>2 DEF Holders
<1>4. Holders(p)' = Holders(p) \cup {u} /\ u \notin Holders(p)
  BY <1>1, <1>2 DEF Holders
<1>5. Cardinality(Holders(p) \cup {u}) = Cardinality(Holders(p)) + 1
  BY <1>4, HoldersFinite, FS_AddElement
<1> QED
  BY <1>2, <1>3, <1>4, <1>5

(* What an unpin does to them.                                             *)
LEMMA UnpinHolders ==
    ASSUME PoolInv, NEW u \in Users, NEW p \in Pages, holds[u] = p, Unpin(u)
    PROVE  /\ holds' \in [Users -> Pages \cup {NoPage}]
           /\ wrote' \in [Users -> BOOLEAN]
           /\ \A v \in Users :
                 /\ holds'[v] = IF v = u THEN NoPage ELSE holds[v]
                 /\ wrote'[v] = IF v = u THEN FALSE ELSE wrote[v]
           /\ \A q \in Pages : q # p => Holders(q)' = Holders(q)
           /\ Holders(p)' = Holders(p) \ {u}
           /\ u \in Holders(p)
           /\ Cardinality(Holders(p) \ {u})
                 = Cardinality(Holders(p)) - 1
<1>1. /\ holds \in [Users -> Pages \cup {NoPage}]
      /\ wrote \in [Users -> BOOLEAN]
      /\ NoPage \notin Pages
  BY PoolAssumption DEF PoolInv, TypeOK
<1>2. /\ holds' \in [Users -> Pages \cup {NoPage}]
      /\ wrote' \in [Users -> BOOLEAN]
      /\ \A v \in Users :
            /\ holds'[v] = IF v = u THEN NoPage ELSE holds[v]
            /\ wrote'[v] = IF v = u THEN FALSE ELSE wrote[v]
  BY <1>1 DEF Unpin
<1>3. \A q \in Pages : q # p => Holders(q)' = Holders(q)
  BY <1>1, <1>2 DEF Holders
<1>4. Holders(p)' = Holders(p) \ {u}
  BY <1>1, <1>2 DEF Holders
<1>5. u \in Holders(p)
  BY DEF Holders
<1>6. Cardinality(Holders(p) \ {u})
          = Cardinality(Holders(p)) - 1
  BY <1>1, <1>5, HoldersFinite, FS_RemoveElement
<1> QED
  BY <1>2, <1>3, <1>4, <1>5, <1>6

-----------------------------------------------------------------------------
(* The initial states, and one lemma for each action.                      *)

LEMMA InitPoolInv == Init => PoolInv
<1> SUFFICES ASSUME Init PROVE PoolInv
  OBVIOUS
<1> USE PoolAssumption DEF Init
<1>1. Cached = {} /\ \A p \in Pages : Holders(p) = {}
  BY DEF Cached, Holders
<1>2. TypeOK
  BY <1>1 DEF TypeOK, Cached, Frame
<1>3. PinsAreHolders
  BY <1>1 DEF PinsAreHolders
<1>4. Coherence
  BY <1>1 DEF Coherence
<1> QED
  BY <1>2, <1>3, <1>4 DEF PoolInv

LEMMA GetHitPoolInv ==
    ASSUME PoolInv, NEW u \in Users, NEW p \in Pages, GetHit(u, p)
    PROVE  PoolInv'
<1>1. TypeOK /\ PinsAreHolders /\ Coherence /\ Cached \subseteq Pages
  BY DEF PoolInv, TypeOK
<1>2. /\ holds[u] = NoPage /\ p \in Cached /\ order' = Touched(p)
      /\ frame' = [frame EXCEPT ![p].pin = @ + 1]
      /\ Got(u, p)
      /\ disk' = disk /\ policy' = policy /\ restarts' = restarts
  BY DEF GetHit, process
<1>3. /\ Cached' = Cached
      /\ frame' \in [Cached -> Frame]
      /\ \A q \in Cached :
            /\ frame'[q].page = frame[q].page
            /\ frame'[q].dirty = frame[q].dirty
            /\ frame'[q].pin = IF q = p THEN frame[q].pin + 1 ELSE frame[q].pin
  <2>1. frame \in [Cached -> Frame]
    BY <1>1 DEF TypeOK
  <2> QED
    BY <1>2, <2>1 DEF Cached, Frame
<1>4. /\ holds' \in [Users -> Pages \cup {NoPage}]
      /\ wrote' \in [Users -> BOOLEAN]
      /\ \A v \in Users : /\ holds'[v] = IF v = u THEN p ELSE holds[v]
                          /\ wrote'[v] = IF v = u THEN FALSE ELSE wrote[v]
      /\ \A q \in Pages : q # p => Holders(q)' = Holders(q)
      /\ Holders(p)' = Holders(p) \cup {u}
      /\ Cardinality(Holders(p)') = Cardinality(Holders(p)) + 1
  BY <1>2, GotHolders
<1>5. Lists(order', Cached) /\ Len(order') = Len(order)
  <2>1. Lists(order, Cached)
    BY <1>1, TypeLists
  <2> QED
    BY <1>1, <1>2, <2>1, TouchedLists
<1>6. TypeOK'
  BY <1>1, <1>2, <1>3, <1>4, <1>5 DEF TypeOK, Lists
<1>7. PinsAreHolders'
  <2>1. \A v \in Users : holds'[v] # NoPage => holds'[v] \in Cached
    BY <1>1, <1>2, <1>4 DEF PinsAreHolders
  <2>2. \A q \in Cached : frame'[q].pin = Cardinality(Holders(q)')
    BY <1>1, <1>3, <1>4 DEF PinsAreHolders
  <2> QED
    BY <1>3, <2>1, <2>2 DEF PinsAreHolders
<1>8. Coherence'
  <2> SUFFICES ASSUME NEW q \in Cached, ~ frame'[q].dirty,
                      \A v \in Holders(q)' : ~ wrote'[v]
               PROVE  frame'[q].page = disk[q]
    BY <1>2, <1>3 DEF Coherence
  <2>1. \A v \in Holders(q) : ~ wrote[v]
    BY <1>1, <1>2, <1>4, PoolAssumption DEF Holders
  <2> QED
    BY <1>1, <1>3, <2>1 DEF Coherence
<1> QED
  BY <1>6, <1>7, <1>8 DEF PoolInv

(* A page is loaded next to the frames of Kept; those dropped are unpinned *)
(* and the file is as it was at the pages of the new pool.                 *)
LEMMA LoadPoolInv ==
    ASSUME PoolInv, NEW u \in Users, NEW p \in Pages, p \notin Cached,
           holds[u] = NoPage, Got(u, p),
           NEW Kept \in SUBSET Cached,
           \A q \in Cached \ Kept : frame[q].pin = 0,
           frame' = Loaded([q \in Kept |-> frame[q]], p),
           Lists(order', Kept \cup {p}), Len(order') <= Capacity,
           disk' \in [Pages -> Contents],
           \A q \in Kept \cup {p} : disk'[q] = disk[q],
           UNCHANGED process
    PROVE  PoolInv'
<1>1. TypeOK /\ PinsAreHolders /\ Coherence /\ Cached \subseteq Pages
  BY DEF PoolInv, TypeOK
<1>2. /\ frame \in [Cached -> Frame]
      /\ disk \in [Pages -> Contents]
      /\ policy' = policy /\ restarts' = restarts
      /\ policy \in Policies /\ restarts \in Nat
  BY <1>1 DEF TypeOK, process
<1>3. /\ Cached' = Kept \cup {p}
      /\ \A q \in Kept : frame'[q] = frame[q] /\ q # p
      /\ frame'[p] = [page |-> disk[p], pin |-> 1, dirty |-> FALSE]
      /\ frame' = [q \in Kept \cup {p} |-> frame'[q]]
  BY DEF Loaded, Cached
<1>4. frame' \in [Kept \cup {p} -> Frame]
  <2>1. frame'[p] \in Frame
    <3>1. disk[p] \in Contents /\ 1 \in Nat /\ FALSE \in BOOLEAN
      BY <1>2
    <3>2. [page |-> disk[p], pin |-> 1, dirty |-> FALSE] \in Frame
      BY <3>1 DEF Frame
    <3> QED
      BY <1>3, <3>2
  <2>2. \A q \in Kept : frame'[q] \in Frame
    BY <1>2, <1>3
  <2> QED
    BY <1>3, <2>1, <2>2
<1>5. /\ holds' \in [Users -> Pages \cup {NoPage}]
      /\ wrote' \in [Users -> BOOLEAN]
      /\ \A v \in Users : /\ holds'[v] = IF v = u THEN p ELSE holds[v]
                          /\ wrote'[v] = IF v = u THEN FALSE ELSE wrote[v]
      /\ \A q \in Pages : q # p => Holders(q)' = Holders(q)
      /\ Holders(p)' = Holders(p) \cup {u}
      /\ Cardinality(Holders(p)') = Cardinality(Holders(p)) + 1
  BY GotHolders
<1>6. TypeOK'
  BY <1>1, <1>2, <1>3, <1>4, <1>5 DEF TypeOK, Lists
<1>7. Holders(p) = {}
  BY <1>1, PoolAssumption DEF PinsAreHolders, Holders
<1>8. \A v \in Users : holds'[v] # NoPage => holds'[v] \in Kept \cup {p}
  <2> SUFFICES ASSUME NEW v \in Users, v # u, holds[v] # NoPage
               PROVE  holds[v] \in Kept
    BY <1>5
  <2>1. holds[v] \in Cached
    BY <1>1 DEF PinsAreHolders
  <2>2. frame[holds[v]].pin # 0
    BY <2>1, UnpinnedUnheld
  <2> QED
    BY <2>1, <2>2
<1>9. PinsAreHolders'
  <2>1. frame'[p].pin = Cardinality(Holders(p)')
    BY <1>3, <1>5, <1>7, FS_EmptySet
  <2>2. \A q \in Kept : frame'[q].pin = Cardinality(Holders(q)')
    BY <1>1, <1>3, <1>5 DEF PinsAreHolders
  <2> QED
    BY <1>3, <1>8, <2>1, <2>2 DEF PinsAreHolders
<1>10. Coherence'
  <2>1. frame'[p].page = disk'[p]
    BY <1>3
  <2>2. ASSUME NEW q \in Kept, ~ frame'[q].dirty,
               \A v \in Holders(q)' : ~ wrote'[v]
        PROVE  frame'[q].page = disk'[q]
    <3>1. \A v \in Holders(q) : ~ wrote[v]
      BY <1>1, <1>3, <1>5, <2>2, PoolAssumption DEF Holders
    <3> QED
      BY <1>1, <1>3, <2>2, <3>1 DEF Coherence
  <2> QED
    BY <1>3, <2>1, <2>2 DEF Coherence
<1> QED
  BY <1>6, <1>9, <1>10 DEF PoolInv

LEMMA GetMissPoolInv ==
    ASSUME PoolInv, NEW u \in Users, NEW p \in Pages, GetMiss(u, p)
    PROVE  PoolInv'
<1>1. TypeOK /\ Lists(order, Cached) /\ Len(order) \in Nat
  BY TypeLists DEF PoolInv
<1>2. Lists(order', Cached \cup {p}) /\ Len(order') = Len(order) + 1
  BY <1>1, AppendLists DEF GetMiss
<1>3. Len(order') <= Capacity
  BY <1>1, <1>2, PoolAssumption DEF GetMiss, Full
<1>4. frame' = Loaded([q \in Cached |-> frame[q]], p)
  <2>1. frame = [q \in Cached |-> frame[q]]
    BY <1>1 DEF TypeOK
  <2> QED
    BY <2>1 DEF GetMiss
<1>5. disk' = disk /\ disk \in [Pages -> Contents]
  BY <1>1 DEF GetMiss, TypeOK
<1> QED
  BY <1>2, <1>3, <1>4, <1>5, LoadPoolInv DEF GetMiss

(* What an eviction knows of its victim, and writes.                       *)
LEMMA Victims ==
    ASSUME PoolInv, NEW victim \in Cached, IsVictim(victim)
    PROVE  /\ frame[victim].pin = 0
           /\ Lists(Without(victim), Cached \ {victim})
           /\ Len(Without(victim)) = Len(order) - 1
           /\ Len(Without(victim)) \in Nat
<1>1. TypeOK /\ Lists(order, Cached) /\ Len(order) \in Nat
  BY TypeLists DEF PoolInv
<1>2. /\ Lists(Without(victim), Cached \ {victim})
      /\ Len(Without(victim)) = Len(order) - 1
  BY <1>1, WithoutLists
<1>3. Len(Without(victim)) \in Nat
  BY <1>2 DEF Lists
<1> QED
  BY <1>2, <1>3 DEF IsVictim

LEMMA WrittenBackTypes ==
    ASSUME PoolInv, NEW P \in SUBSET Cached
    PROVE  /\ WrittenBack(P) \in [Pages -> Contents]
           /\ \A q \in Pages : WrittenBack(P)[q] =
                 IF q \in P THEN frame[q].page ELSE disk[q]
<1> QED
  BY DEF PoolInv, TypeOK, Frame, WrittenBack

LEMMA GetEvictPoolInv ==
    ASSUME PoolInv, NEW u \in Users, NEW p \in Pages, NEW victim \in Cached,
           GetEvict(u, p, victim)
    PROVE  PoolInv'
<1> DEFINE Kept == Cached \ {victim}
<1>1. TypeOK /\ Len(order) \in Nat /\ Len(order) <= Capacity
             /\ Cached \subseteq Pages
  BY TypeLists DEF PoolInv, TypeOK
<1>2. /\ frame[victim].pin = 0
      /\ Lists(Without(victim), Kept)
      /\ Len(Without(victim)) = Len(order) - 1
  BY Victims DEF GetEvict
<1>3. Lists(order', Kept \cup {p}) /\ Len(order') = Len(Without(victim)) + 1
  BY <1>2, AppendLists DEF GetEvict
<1>4. Len(order') <= Capacity
  BY <1>1, <1>2, <1>3, PoolAssumption
<1>5. /\ disk' \in [Pages -> Contents]
      /\ \A q \in Kept \cup {p} : disk'[q] = disk[q]
  <2>1. {victim} \cap DirtyPages \in SUBSET Cached
    BY DEF DirtyPages
  <2>2. disk' = WrittenBack({victim} \cap DirtyPages) /\ p \notin Cached
    BY DEF GetEvict
  <2> QED
    BY <1>1, <2>1, <2>2, WrittenBackTypes
<1>6. frame' = Loaded([q \in Kept |-> frame[q]], p)
  BY DEF GetEvict, Dropped
<1> HIDE DEF Kept
<1>7. Kept \in SUBSET Cached /\ \A q \in Cached \ Kept : frame[q].pin = 0
  BY <1>2 DEF Kept
<1> QED
  BY <1>3, <1>4, <1>5, <1>6, <1>7, LoadPoolInv DEF GetEvict

(* A frame without a pin is dropped, and the file is as it was at the      *)
(* pages of the others.                                                    *)
LEMMA DropPoolInv ==
    ASSUME PoolInv, NEW victim \in Cached, IsVictim(victim),
           order' = Without(victim),
           frame' = Dropped({victim}),
           disk' \in [Pages -> Contents],
           \A q \in Cached \ {victim} : disk'[q] = disk[q],
           UNCHANGED <<users, process>>
    PROVE  PoolInv'
<1> DEFINE Kept == Cached \ {victim}
<1>1. TypeOK /\ PinsAreHolders /\ Coherence /\ Cached \subseteq Pages
  BY DEF PoolInv, TypeOK
<1>2. /\ holds' = holds /\ wrote' = wrote
      /\ policy' = policy /\ restarts' = restarts
  BY DEF users, process
<1>3. /\ Cached' = Kept
      /\ frame' = [q \in Kept |-> frame[q]]
      /\ \A q \in Pages : Holders(q)' = Holders(q)
  BY <1>2 DEF Dropped, Cached, Holders
<1>4. /\ frame[victim].pin = 0
      /\ Lists(order', Kept)
      /\ Len(order') <= Capacity
  <2>1. Len(order) <= Capacity /\ Len(order) \in Nat
    BY <1>1, TypeLists DEF TypeOK
  <2> QED
    BY <2>1, Victims, PoolAssumption
<1> HIDE DEF Kept
<1>5. Kept \subseteq Cached /\ \A q \in Cached : q \in Kept \/ q = victim
  BY DEF Kept
<1>6. TypeOK'
  <2>1. frame' \in [Kept -> Frame]
    BY <1>1, <1>3, <1>5 DEF TypeOK
  <2> QED
    BY <1>1, <1>2, <1>3, <1>4, <1>5, <2>1 DEF TypeOK, Lists
<1>7. PinsAreHolders'
  <2>1. \A v \in Users : holds[v] # NoPage => holds[v] \in Kept
    BY <1>1, <1>4, <1>5, UnpinnedUnheld DEF PinsAreHolders
  <2>2. \A q \in Kept : frame'[q].pin = Cardinality(Holders(q)')
    BY <1>1, <1>3, <1>5 DEF PinsAreHolders
  <2> QED
    BY <1>2, <1>3, <2>1, <2>2 DEF PinsAreHolders
<1>8. Coherence'
  <2> SUFFICES ASSUME NEW q \in Kept, ~ frame'[q].dirty,
                      \A v \in Holders(q)' : ~ wrote'[v]
               PROVE  frame'[q].page = disk'[q]
    BY <1>3 DEF Coherence
  <2>1. frame'[q] = frame[q] /\ q \in Cached /\ Holders(q)' = Holders(q)
    BY <1>1, <1>3, <1>5
  <2>2. disk'[q] = disk[q]
    BY DEF Kept
  <2> QED
    BY <1>1, <1>2, <2>1, <2>2 DEF Coherence
<1> QED
  BY <1>6, <1>7, <1>8 DEF PoolInv

LEMMA EvictFailsPoolInv ==
    ASSUME PoolInv, NEW u \in Users, NEW p \in Pages, NEW victim \in Cached,
           EvictWriteFails(u, p, victim) \/ EvictReadFails(u, p, victim)
    PROVE  PoolInv'
<1>1. disk \in [Pages -> Contents] /\ Cached \subseteq Pages
  BY DEF PoolInv, TypeOK
<1>2. CASE EvictWriteFails(u, p, victim)
  BY <1>1, <1>2, DropPoolInv DEF EvictWriteFails
<1>3. CASE EvictReadFails(u, p, victim)
  <2>1. {victim} \cap DirtyPages \in SUBSET Cached
    BY DEF DirtyPages
  <2>2. /\ disk' \in [Pages -> Contents]
        /\ \A q \in Cached \ {victim} : disk'[q] = disk[q]
    BY <1>1, <1>3, <2>1, WrittenBackTypes DEF EvictReadFails
  <2> QED
    BY <1>3, <2>2, DropPoolInv DEF EvictReadFails
<1> QED
  BY <1>2, <1>3

LEMMA ChangePoolInv ==
    ASSUME PoolInv, NEW u \in Users, NEW c \in Contents, Change(u, c)
    PROVE  PoolInv'
<1>1. TypeOK /\ PinsAreHolders /\ Coherence /\ Cached \subseteq Pages
  BY DEF PoolInv, TypeOK
<1>2. /\ frame \in [Cached -> Frame] /\ wrote \in [Users -> BOOLEAN]
      /\ holds[u] \in Cached
  BY <1>1 DEF Change, TypeOK, PinsAreHolders
<1>3. /\ order' = order /\ disk' = disk /\ holds' = holds
      /\ policy' = policy /\ restarts' = restarts
      /\ wrote' = [wrote EXCEPT ![u] = TRUE]
      /\ frame' = [frame EXCEPT ![holds[u]].page = c]
  BY DEF Change, process
<1>4. /\ Cached' = Cached
      /\ frame' \in [Cached -> Frame]
      /\ \A q \in Cached :
            /\ frame'[q].pin = frame[q].pin
            /\ frame'[q].dirty = frame[q].dirty
            /\ q # holds[u] => frame'[q].page = frame[q].page
  BY <1>2, <1>3 DEF Cached, Frame
<1>5. \A q \in Pages : Holders(q)' = Holders(q)
  BY <1>3 DEF Holders
<1>6. TypeOK'
  BY <1>1, <1>2, <1>3, <1>4 DEF TypeOK
<1>7. PinsAreHolders'
  BY <1>1, <1>3, <1>4, <1>5 DEF PinsAreHolders
<1>8. Coherence'
  <2> SUFFICES ASSUME NEW q \in Cached, ~ frame'[q].dirty,
                      \A v \in Holders(q)' : ~ wrote'[v]
               PROVE  frame'[q].page = disk[q]
    BY <1>3, <1>4 DEF Coherence
  <2>1. q # holds[u]
    BY <1>2, <1>3 DEF Holders
  <2>2. \A v \in Holders(q) : ~ wrote[v]
    BY <1>2, <1>3, <2>1 DEF Holders
  <2> QED
    BY <1>1, <1>4, <2>1, <2>2 DEF Coherence
<1> QED
  BY <1>6, <1>7, <1>8 DEF PoolInv

LEMMA UnpinPoolInv ==
    ASSUME PoolInv, NEW u \in Users, NEW p \in Pages, holds[u] = p, Unpin(u)
    PROVE  PoolInv'
<1>1. TypeOK /\ PinsAreHolders /\ Coherence /\ Cached \subseteq Pages
  BY DEF PoolInv, TypeOK
<1>2. frame \in [Cached -> Frame] /\ p \in Cached /\ wrote[u] \in BOOLEAN
  BY <1>1, PoolAssumption DEF TypeOK, PinsAreHolders
<1>3. /\ order' = order /\ disk' = disk
      /\ policy' = policy /\ restarts' = restarts
      /\ frame' = [frame EXCEPT ![p] =
                      [page |-> @.page,
                       pin |-> IF @.pin > 0 THEN @.pin - 1 ELSE 0,
                       dirty |-> @.dirty \/ wrote[u]]]
  BY DEF Unpin, process
<1>4. /\ holds' \in [Users -> Pages \cup {NoPage}]
      /\ wrote' \in [Users -> BOOLEAN]
      /\ \A v \in Users :
            /\ holds'[v] = IF v = u THEN NoPage ELSE holds[v]
            /\ wrote'[v] = IF v = u THEN FALSE ELSE wrote[v]
      /\ \A q \in Pages : q # p => Holders(q)' = Holders(q)
      /\ Holders(p)' = Holders(p) \ {u}
      /\ u \in Holders(p)
      /\ Cardinality(Holders(p) \ {u}) = Cardinality(Holders(p)) - 1
  BY UnpinHolders
<1>5. /\ frame[p].pin \in Nat /\ frame[p].pin = Cardinality(Holders(p))
      /\ frame[p].pin > 0
  <2>1. frame[p].pin = Cardinality(Holders(p))
    BY <1>1, <1>2 DEF PinsAreHolders
  <2>2. IsFiniteSet(Holders(p)) /\ Cardinality(Holders(p)) \in Nat
    BY HoldersFinite
  <2>3. Cardinality(Holders(p)) # 0
    BY <1>4, <2>2, FS_EmptySet
  <2> QED
    BY <2>1, <2>2, <2>3
<1>6. /\ Cached' = Cached
      /\ \A q \in Cached : q # p => frame'[q] = frame[q]
      /\ frame'[p] = [page |-> frame[p].page, pin |-> frame[p].pin - 1,
                      dirty |-> frame[p].dirty \/ wrote[u]]
  BY <1>2, <1>3, <1>5 DEF Cached
<1>7. frame' \in [Cached -> Frame]
  <2>1. /\ frame[p].page \in Contents /\ frame[p].pin - 1 \in Nat
        /\ (frame[p].dirty \/ wrote[u]) \in BOOLEAN
    BY <1>2, <1>5 DEF Frame
  <2>2. frame'[p] \in Frame
    BY <1>6, <2>1 DEF Frame
  <2> QED
    BY <1>2, <1>3, <1>6, <2>2
<1>8. TypeOK'
  BY <1>1, <1>3, <1>4, <1>6, <1>7 DEF TypeOK
<1>9. PinsAreHolders'
  <2>1. \A v \in Users : holds'[v] # NoPage => holds'[v] \in Cached
    BY <1>1, <1>4 DEF PinsAreHolders
  <2>2. frame'[p].pin = Cardinality(Holders(p)')
    BY <1>4, <1>5, <1>6
  <2>3. \A q \in Cached : q # p => frame'[q].pin = Cardinality(Holders(q)')
    BY <1>1, <1>4, <1>6 DEF PinsAreHolders
  <2> QED
    BY <1>6, <2>1, <2>2, <2>3 DEF PinsAreHolders
<1>10. Coherence'
  <2> SUFFICES ASSUME NEW q \in Cached, ~ frame'[q].dirty,
                      \A v \in Holders(q)' : ~ wrote'[v]
               PROVE  frame'[q].page = disk[q]
    BY <1>3, <1>6 DEF Coherence
  <2>1. frame'[q].page = frame[q].page
    BY <1>6
  <2>2. \A v \in Holders(q) : v # u => ~ wrote[v]
    BY <1>1, <1>4 DEF Holders
  <2>3. frame'[p].dirty = (frame[p].dirty \/ wrote[u])
    BY <1>6
  <2>4. q = p => ~ frame[p].dirty /\ ~ wrote[u]
    BY <2>3, Zenon
  <2>5. q # p => ~ frame[q].dirty /\ u \notin Holders(q)
    BY <1>6 DEF Holders
  <2>6. ~ frame[q].dirty /\ \A v \in Holders(q) : ~ wrote[v]
    BY <2>2, <2>4, <2>5
  <2> QED
    BY <1>1, <2>1, <2>6 DEF Coherence
<1> QED
  BY <1>8, <1>9, <1>10 DEF PoolInv

(* Some dirty pages are written and marked clean.                          *)
LEMMA CleanedPoolInv ==
    ASSUME PoolInv, NEW P \in SUBSET DirtyPages,
           disk' = WrittenBack(P), frame' = Cleaned(P),
           UNCHANGED <<order, users, process>>
    PROVE  PoolInv'
<1>1. TypeOK /\ PinsAreHolders /\ Coherence /\ Cached \subseteq Pages
  BY DEF PoolInv, TypeOK
<1>2. /\ order' = order /\ holds' = holds /\ wrote' = wrote
      /\ policy' = policy /\ restarts' = restarts
      /\ \A q \in Pages : Holders(q)' = Holders(q)
  BY DEF users, process, Holders
<1>3. /\ disk' \in [Pages -> Contents]
      /\ \A q \in Pages :
            disk'[q] = IF q \in P THEN frame[q].page ELSE disk[q]
  <2>1. P \in SUBSET Cached
    BY DEF DirtyPages
  <2> QED
    BY <2>1, WrittenBackTypes
<1>4. frame \in [Cached -> Frame]
  BY <1>1 DEF TypeOK
<1>5. /\ Cached' = Cached
      /\ \A q \in Cached :
            frame'[q] = IF q \in P THEN [frame[q] EXCEPT !.dirty = FALSE]
                                   ELSE frame[q]
      /\ frame' = [q \in Cached |-> frame'[q]]
  BY DEF Cleaned, Cached
<1>6. \A q \in Cached :
          /\ frame'[q] \in Frame
          /\ frame'[q].page = frame[q].page
          /\ frame'[q].pin = frame[q].pin
          /\ q \notin P => frame'[q].dirty = frame[q].dirty
  BY <1>4, <1>5 DEF Frame
<1>7. TypeOK'
  <2>1. frame' \in [Cached -> Frame]
    BY <1>5, <1>6
  <2> QED
    BY <1>1, <1>2, <1>3, <1>5, <2>1 DEF TypeOK
<1>8. PinsAreHolders'
  BY <1>1, <1>2, <1>5, <1>6 DEF PinsAreHolders
<1>9. Coherence'
  <2> SUFFICES ASSUME NEW q \in Cached, ~ frame'[q].dirty,
                      \A v \in Holders(q) : ~ wrote[v]
               PROVE  frame'[q].page = disk'[q]
    BY <1>1, <1>2, <1>5 DEF Coherence
  <2>1. CASE q \in P
    BY <1>1, <1>3, <1>6, <2>1
  <2>2. CASE q \notin P
    BY <1>1, <1>3, <1>6, <2>2 DEF Coherence
  <2> QED
    BY <2>1, <2>2
<1> QED
  BY <1>7, <1>8, <1>9 DEF PoolInv

LEMMA RestartPoolInv ==
    ASSUME PoolInv, Restart
    PROVE  PoolInv'
<1> USE PoolAssumption
<1>1. /\ order' = <<>> /\ disk' = disk /\ policy' = policy
      /\ frame' = [p \in {} |-> Blank]
      /\ holds' = [u \in Users |-> NoPage]
      /\ wrote' = [u \in Users |-> FALSE]
      /\ restarts' = restarts + 1
  BY DEF Restart
<1>2. Cached' = {}
  BY <1>1 DEF Cached
<1>3. TypeOK'
  BY <1>1, <1>2 DEF PoolInv, TypeOK
<1>4. PinsAreHolders' /\ Coherence'
  BY <1>1, <1>2 DEF PinsAreHolders, Coherence
<1> QED
  BY <1>3, <1>4 DEF PoolInv

-----------------------------------------------------------------------------
LEMMA NextPoolInv == PoolInv /\ [Next]_vars => PoolInv'
<1> SUFFICES ASSUME PoolInv, [Next]_vars PROVE PoolInv'
  OBVIOUS
<1>1. ASSUME NEW u \in Users, NEW p \in Pages, GetHit(u, p)
      PROVE  PoolInv'
  BY <1>1, GetHitPoolInv
<1>2. ASSUME NEW u \in Users, NEW p \in Pages, GetMiss(u, p)
      PROVE  PoolInv'
  BY <1>2, GetMissPoolInv
<1>3. ASSUME NEW u \in Users, NEW p \in Pages, NEW victim \in Cached,
             GetEvict(u, p, victim)
      PROVE  PoolInv'
  BY <1>3, GetEvictPoolInv
<1>4. ASSUME NEW u \in Users, NEW p \in Pages, NEW victim \in Cached,
             EvictWriteFails(u, p, victim) \/ EvictReadFails(u, p, victim)
      PROVE  PoolInv'
  BY <1>4, EvictFailsPoolInv
<1>5. ASSUME NEW u \in Users, NEW c \in Contents, Change(u, c)
      PROVE  PoolInv'
  BY <1>5, ChangePoolInv
<1>6. ASSUME NEW u \in Users, Unpin(u)
      PROVE  PoolInv'
  <2>1. holds[u] \in Pages
    BY <1>6 DEF PoolInv, TypeOK, Unpin
  <2> QED
    BY <1>6, <2>1, UnpinPoolInv
<1>7. ASSUME NEW p \in Pages, FlushPage(p)
      PROVE  PoolInv'
  BY <1>7, CleanedPoolInv DEF FlushPage
<1>8. CASE FlushAll
  BY <1>8, CleanedPoolInv DEF FlushAll
<1>9. ASSUME NEW p \in Pages, FlushAllFails(p)
      PROVE  PoolInv'
  <2> DEFINE done == {q \in DirtyPages : PositionOf(q) < PositionOf(p)}
  <2>1. /\ done \in SUBSET DirtyPages
        /\ disk' = WrittenBack(done) /\ frame' = Cleaned(done)
        /\ UNCHANGED <<order, users, process>>
    BY <1>9 DEF FlushAllFails
  <2> HIDE DEF done
  <2> QED
    BY <2>1, CleanedPoolInv
<1>10. CASE Restart
  BY <1>10, RestartPoolInv
<1>11. CASE UNCHANGED vars
  <2>1. TypeOK'
    BY <1>11 DEF PoolInv, TypeOK, vars, Cached
  <2>2. PinsAreHolders'
    BY <1>11 DEF PoolInv, PinsAreHolders, vars, Cached, Holders
  <2>3. Coherence'
    BY <1>11 DEF PoolInv, Coherence, vars, Cached, Holders
  <2> QED
    BY <2>1, <2>2, <2>3 DEF PoolInv
<1>12. ASSUME NEW u \in Users, NEW p \in Pages, GetRefused(u, p)
       PROVE  PoolInv'
  BY <1>11, <1>12 DEF GetRefused
<1> QED
  BY <1>1, <1>2, <1>3, <1>4, <1>5, <1>6, <1>7, <1>8, <1>9, <1>10, <1>11,
     <1>12 DEF Next

(* The inductive invariant of the pool holds whatever its users do and     *)
(* whatever read or write fails.                                           *)
THEOREM PoolInvariant == Spec => []PoolInv
<1> QED
  BY InitPoolInv, NextPoolInv, PTL DEF Spec

(* Types: the order lists the frames, each once, at most Capacity of them. *)
THEOREM PoolTypes == Spec => []TypeOK
<1>1. PoolInv => TypeOK
  BY DEF PoolInv
<1> QED
  BY PoolInvariant, <1>1, PTL

(* No page is evicted under a user that has pinned it (buffer.py:38-50),   *)
(* and pin counts count the users, however many get and unpin a page.      *)
THEOREM PoolPins == Spec => []PinsAreHolders
<1>1. PoolInv => PinsAreHolders
  BY DEF PoolInv
<1> QED
  BY PoolInvariant, <1>1, PTL

(* A frame the pool would drop without writing it back (buffer.py:43) is   *)
(* equal to the page in the file.                                          *)
THEOREM PoolCoherence == Spec => []Coherence
<1>1. PoolInv => Coherence
  BY DEF PoolInv
<1> QED
  BY PoolInvariant, <1>1, PTL

-----------------------------------------------------------------------------
(* Who leaves, and in which order the others stay.                         *)

(* The steps of EvictionOrder that are no restarts.                        *)
Orderly ==
    /\ \A p \in Cached \ DOMAIN frame' :
          /\ frame[p].pin = 0
          /\ \A q \in Cached : Precedes(order, q, p) => frame[q].pin > 0
    /\ \A p \in DOMAIN frame' :
          IsGot(p) /\ (policy = "LRU" \/ p \notin Cached) => order'[Len(order')] = p
    /\ \A p, q \in Cached \cap DOMAIN frame' :
          Precedes(order, p, q) /\ ~ (IsGot(p) /\ policy = "LRU") => Precedes(order', p, q)

(* Leaving one page out, the others keep their order.                      *)
LEMMA WithoutPrecedes ==
    ASSUME NEW S, Lists(order, S), NEW p \in S, NEW q, NEW r, q # p, r # p,
           Precedes(order, q, r)
    PROVE  Precedes(Without(p), q, r)
<1> DEFINE n == Len(order)
           k == PositionOf(p)
           w == Without(p)
<1>1. n \in Nat /\ DOMAIN order = 1 .. n
  BY DEF Lists
<1>2. k \in 1 .. n /\ order[k] = p
  <2>1. \E i \in DOMAIN order : order[i] = p
    BY DEF Lists
  <2> QED
    BY <2>1, <1>1 DEF PositionOf
<1>3. PICK i \in 1 .. n, j \in 1 .. n : i < j /\ order[i] = q /\ order[j] = r
  BY <1>1 DEF Precedes
<1>4. i # k /\ j # k
  BY <1>2, <1>3
<1>5. w = [m \in 1 .. n - 1 |-> IF m < k THEN order[m] ELSE order[m + 1]]
  BY DEF Without
<1> HIDE DEF w, k, n
<1>6. \A m \in 1 .. n : m # k =>
          LET m1 == IF m < k THEN m ELSE m - 1
          IN  m1 \in DOMAIN w /\ w[m1] = order[m]
  <2> SUFFICES ASSUME NEW m \in 1 .. n, m # k
               PROVE  LET m1 == IF m < k THEN m ELSE m - 1
                      IN  m1 \in DOMAIN w /\ w[m1] = order[m]
    OBVIOUS
  <2>1. CASE m < k
    <3>1. m \in 1 .. n - 1
      BY <1>1, <1>2, <2>1
    <3> QED
      BY <1>5, <2>1, <3>1
  <2>2. CASE ~ (m < k)
    <3>1. m - 1 \in 1 .. n - 1 /\ ~ (m - 1 < k) /\ (m - 1) + 1 = m
      BY <1>1, <1>2, <2>2
    <3> QED
      BY <1>5, <2>2, <3>1
  <2> QED
    BY <2>1, <2>2
<1>7. (IF i < k THEN i ELSE i - 1) < (IF j < k THEN j ELSE j - 1)
  BY <1>1, <1>2, <1>3, <1>4
<1> QED
  BY <1>3, <1>4, <1>6, <1>7 DEF Precedes, w

(* At the end, a page comes after all others, and disturbs none.           *)
LEMMA AppendPrecedes ==
    ASSUME NEW o, NEW S, Lists(o, S), NEW p \in Pages
    PROVE  /\ Append(o, p)[Len(Append(o, p))] = p
           /\ \A q \in S : Precedes(Append(o, p), q, p)
           /\ \A q, r : Precedes(o, q, r) => Precedes(Append(o, p), q, r)
<1> DEFINE a == Append(o, p)
<1>1. o \in Seq(Pages) /\ Len(o) \in Nat /\ DOMAIN o = 1 .. Len(o)
  BY DEF Lists
<1>2. /\ Len(a) = Len(o) + 1 /\ DOMAIN a = 1 .. Len(o) + 1
      /\ a[Len(o) + 1] = p
      /\ \A i \in 1 .. Len(o) : a[i] = o[i]
  BY <1>1
<1> HIDE DEF a
<1>3. ASSUME NEW q \in S
      PROVE  Precedes(a, q, p)
  <2>1. PICK i \in 1 .. Len(o) : o[i] = q
    BY <1>1 DEF Lists
  <2>2. i \in DOMAIN a /\ Len(o) + 1 \in DOMAIN a /\ i < Len(o) + 1
    BY <1>1, <1>2
  <2> QED
    BY <1>2, <2>1, <2>2 DEF Precedes
<1>4. ASSUME NEW q, NEW r, Precedes(o, q, r)
      PROVE  Precedes(a, q, r)
  <2>1. PICK i \in 1 .. Len(o), j \in 1 .. Len(o) : i < j /\ o[i] = q /\ o[j] = r
    BY <1>1, <1>4 DEF Precedes
  <2>2. i \in DOMAIN a /\ j \in DOMAIN a /\ a[i] = q /\ a[j] = r
    BY <1>1, <1>2, <2>1
  <2> QED
    BY <2>1, <2>2 DEF Precedes
<1> QED
  BY <1>2, <1>3, <1>4 DEF a

(* The first page without a pin has only pinned pages before it.           *)
LEMMA VictimIsFirst ==
    ASSUME PoolInv, NEW victim \in Cached, IsVictim(victim)
    PROVE  /\ frame[victim].pin = 0
           /\ \A q \in Cached : Precedes(order, q, victim) => frame[q].pin > 0
<1>1. Lists(order, Cached) /\ Len(order) \in Nat /\ DOMAIN order = 1 .. Len(order)
  BY TypeLists DEF PoolInv, Lists
<1>2. PICK k \in DOMAIN order :
          /\ order[k] = victim /\ frame[victim].pin = 0
          /\ \A j \in 1 .. k - 1 : frame[order[j]].pin > 0
  BY DEF IsVictim
<1>3. ASSUME NEW q \in Cached, Precedes(order, q, victim)
      PROVE  frame[q].pin > 0
  <2>1. PICK i \in DOMAIN order, j \in DOMAIN order :
            i < j /\ order[i] = q /\ order[j] = victim
    BY <1>3 DEF Precedes
  <2>2. j = k
    BY <1>1, <1>2, <2>1 DEF Lists
  <2>3. i \in 1 .. k - 1
    BY <1>1, <2>1, <2>2
  <2> QED
    BY <1>2, <2>1, <2>3
<1> QED
  BY <1>2, <1>3

(* A get gets one page; nothing else gets any.                             *)
LEMMA GotIsGot ==
    ASSUME PoolInv, NEW u \in Users, NEW p \in Pages, holds[u] = NoPage, Got(u, p)
    PROVE  \A q \in Pages : IsGot(q) <=> q = p
<1>1. holds \in [Users -> Pages \cup {NoPage}]
  BY DEF PoolInv, TypeOK
<1>2. \A v \in Users : holds'[v] = IF v = u THEN p ELSE holds[v]
  BY <1>1 DEF Got
<1> QED
  BY <1>2, PoolAssumption DEF IsGot

LEMMA NothingGot ==
    ASSUME \A u \in Users : holds'[u] \in {holds[u], NoPage}
    PROVE  \A q \in Pages : ~ IsGot(q)
<1> QED
  BY PoolAssumption DEF IsGot

(* The steps that neither load nor drop a page nor move one.               *)
LEMMA UnmovedOrderly ==
    ASSUME PoolInv, order' = order, DOMAIN frame' = Cached,
           \A q \in Pages : ~ IsGot(q)
    PROVE  Orderly
<1>1. Cached \subseteq Pages
  BY DEF PoolInv, TypeOK
<1> QED
  BY <1>1 DEF Orderly

LEMMA GetHitOrderly ==
    ASSUME PoolInv, NEW u \in Users, NEW p \in Pages, GetHit(u, p)
    PROVE  Orderly
<1>1. /\ Lists(order, Cached) /\ Cached \subseteq Pages
      /\ p \in Cached /\ order' = Touched(p) /\ DOMAIN frame' = Cached
  BY TypeLists DEF PoolInv, TypeOK, GetHit, Cached
<1>2. \A q \in Pages : IsGot(q) <=> q = p
  BY GotIsGot DEF GetHit
<1>3. CASE policy # "LRU"
  <2>1. order' = order
    BY <1>1, <1>3 DEF Touched
  <2> QED
    BY <1>1, <1>2, <1>3, <2>1 DEF Orderly
<1>4. CASE policy = "LRU"
  <2> DEFINE w == Without(p)
  <2>1. order' = Append(w, p)
    BY <1>1, <1>4 DEF Touched
  <2>2. Lists(w, Cached \ {p})
    BY <1>1, WithoutLists
  <2>3. \A q, r : q # p /\ r # p /\ Precedes(order, q, r) => Precedes(w, q, r)
    BY <1>1, WithoutPrecedes
  <2> HIDE DEF w
  <2>4. /\ order'[Len(order')] = p
        /\ \A q \in Cached \ {p} : Precedes(order', q, p)
        /\ \A q, r : Precedes(w, q, r) => Precedes(order', q, r)
    BY <2>1, <2>2, AppendPrecedes
  <2> QED
    BY <1>1, <1>2, <1>4, <2>3, <2>4 DEF Orderly
<1> QED
  BY <1>3, <1>4

LEMMA GetMissOrderly ==
    ASSUME PoolInv, NEW u \in Users, NEW p \in Pages, GetMiss(u, p)
    PROVE  Orderly
<1>1. /\ Lists(order, Cached) /\ Cached \subseteq Pages
      /\ p \notin Cached /\ order' = Append(order, p)
  BY TypeLists DEF PoolInv, TypeOK, GetMiss
<1>2. DOMAIN frame' = Cached \cup {p}
  BY DEF GetMiss, Loaded, Cached
<1>3. \A q \in Pages : IsGot(q) <=> q = p
  BY GotIsGot DEF GetMiss
<1>4. /\ order'[Len(order')] = p
      /\ \A q, r : Precedes(order, q, r) => Precedes(order', q, r)
  BY <1>1, AppendPrecedes
<1> QED
  BY <1>1, <1>2, <1>3, <1>4 DEF Orderly

LEMMA GetEvictOrderly ==
    ASSUME PoolInv, NEW u \in Users, NEW p \in Pages, NEW victim \in Cached,
           GetEvict(u, p, victim)
    PROVE  Orderly
<1> DEFINE w == Without(victim)
           Kept == Cached \ {victim}
<1>1. /\ Lists(order, Cached) /\ Cached \subseteq Pages
      /\ p \notin Cached /\ order' = Append(w, p) /\ IsVictim(victim)
  BY TypeLists DEF PoolInv, TypeOK, GetEvict
<1>2. DOMAIN frame' = Kept \cup {p}
  BY DEF GetEvict, Loaded, Dropped
<1>3. \A q \in Pages : IsGot(q) <=> q = p
  BY GotIsGot DEF GetEvict
<1>4. Lists(w, Kept)
  BY <1>1, WithoutLists
<1>5. \A q, r : q # victim /\ r # victim /\ Precedes(order, q, r) => Precedes(w, q, r)
  BY <1>1, WithoutPrecedes
<1>6. /\ frame[victim].pin = 0
      /\ \A q \in Cached : Precedes(order, q, victim) => frame[q].pin > 0
  BY <1>1, VictimIsFirst
<1> HIDE DEF w
<1>7. /\ order'[Len(order')] = p
      /\ \A q, r : Precedes(w, q, r) => Precedes(order', q, r)
  BY <1>1, <1>4, AppendPrecedes
<1> QED
  BY <1>1, <1>2, <1>3, <1>5, <1>6, <1>7 DEF Orderly

LEMMA EvictFailsOrderly ==
    ASSUME PoolInv, NEW u \in Users, NEW p \in Pages, NEW victim \in Cached,
           EvictWriteFails(u, p, victim) \/ EvictReadFails(u, p, victim)
    PROVE  Orderly
<1> DEFINE w == Without(victim)
<1>1. /\ Lists(order, Cached) /\ Cached \subseteq Pages
      /\ order' = w /\ IsVictim(victim) /\ holds' = holds
      /\ frame' = Dropped({victim})
  BY TypeLists DEF PoolInv, TypeOK, EvictWriteFails, EvictReadFails, users
<1>2. DOMAIN frame' = Cached \ {victim}
  BY <1>1 DEF Dropped
<1>3. \A q \in Pages : ~ IsGot(q)
  BY <1>1, NothingGot
<1>4. \A q, r : q # victim /\ r # victim /\ Precedes(order, q, r) => Precedes(w, q, r)
  BY <1>1, WithoutPrecedes
<1>5. /\ frame[victim].pin = 0
      /\ \A q \in Cached : Precedes(order, q, victim) => frame[q].pin > 0
  BY <1>1, VictimIsFirst
<1> HIDE DEF w
<1> QED
  BY <1>1, <1>2, <1>3, <1>4, <1>5 DEF Orderly

(* The page that leaves for another is the first in the order that nobody  *)
(* has pinned, and pages keep their order, except that a page got goes to  *)
(* the end: always under LRU, when it is loaded under FIFO (buffer.py,     *)
(* _touch and _evict_one).                                                 *)
THEOREM PoolEvictsInOrder == Spec => EvictionOrder
<1>1. PoolInv /\ [Next]_vars =>
          [restarts' = restarts => Orderly]_vars
  <2> SUFFICES ASSUME PoolInv, Next, restarts' = restarts
               PROVE  Orderly \/ UNCHANGED vars
    OBVIOUS
  <2>1. ASSUME NEW u \in Users, NEW p \in Pages, GetHit(u, p) PROVE Orderly
    BY <2>1, GetHitOrderly
  <2>2. ASSUME NEW u \in Users, NEW p \in Pages, GetMiss(u, p) PROVE Orderly
    BY <2>2, GetMissOrderly
  <2>3. ASSUME NEW u \in Users, NEW p \in Pages, NEW victim \in Cached,
               GetEvict(u, p, victim)
        PROVE  Orderly
    BY <2>3, GetEvictOrderly
  <2>4. ASSUME NEW u \in Users, NEW p \in Pages, NEW victim \in Cached,
               EvictWriteFails(u, p, victim) \/ EvictReadFails(u, p, victim)
        PROVE  Orderly
    BY <2>4, EvictFailsOrderly
  <2>5. ASSUME NEW u \in Users, NEW p \in Pages, GetRefused(u, p) PROVE UNCHANGED vars
    BY <2>5 DEF GetRefused
  <2>6. ASSUME NEW u \in Users, NEW c \in Contents, Change(u, c) PROVE Orderly
    <3>1. order' = order /\ holds' = holds /\ DOMAIN frame' = Cached
      BY <2>6 DEF Change, Cached
    <3> QED
      BY <3>1, NothingGot, UnmovedOrderly
  <2>7. ASSUME NEW u \in Users, Unpin(u) PROVE Orderly
    <3>1. order' = order /\ DOMAIN frame' = Cached
      BY <2>7 DEF Unpin, Cached
    <3>2. \A v \in Users : holds'[v] \in {holds[v], NoPage}
      BY <2>7 DEF Unpin, PoolInv, TypeOK
    <3> QED
      BY <3>1, <3>2, NothingGot, UnmovedOrderly
  <2>8. ASSUME NEW P, frame' = Cleaned(P), UNCHANGED <<order, users, process>>
        PROVE  Orderly
    <3>1. order' = order /\ holds' = holds /\ DOMAIN frame' = Cached
      BY <2>8 DEF Cleaned, users
    <3> QED
      BY <3>1, NothingGot, UnmovedOrderly
  <2>9. ASSUME NEW p \in Pages, FlushPage(p) \/ FlushAllFails(p) PROVE Orderly
    BY <2>8, <2>9 DEF FlushPage, FlushAllFails
  <2>10. CASE FlushAll
    BY <2>8, <2>10 DEF FlushAll
  <2>11. ~ Restart
    BY DEF Restart, PoolInv, TypeOK
  <2> QED
    BY <2>1, <2>2, <2>3, <2>4, <2>5, <2>6, <2>7, <2>9, <2>10, <2>11 DEF Next
<1>2. [restarts' = restarts => Orderly]_vars =>
          [ restarts' = restarts =>
              /\ \A p \in Cached \ DOMAIN frame' :
                    /\ frame[p].pin = 0
                    /\ \A q \in Cached : Precedes(order, q, p) => frame[q].pin > 0
              /\ \A p \in DOMAIN frame' :
                    IsGot(p) /\ (policy = "LRU" \/ p \notin Cached)
                        => order'[Len(order')] = p
              /\ \A p, q \in Cached \cap DOMAIN frame' :
                    Precedes(order, p, q) /\ ~ (IsGot(p) /\ policy = "LRU")
                        => Precedes(order', p, q) ]_vars
  BY DEF Orderly
<1> QED
  BY <1>1, <1>2, PoolInvariant, PTL DEF Spec, EvictionOrder

-----------------------------------------------------------------------------
(* The pool implements the page store: one lemma for each kind of step.    *)

LEMMA ViewTypes ==
    ASSUME PoolInv
    PROVE  /\ View \in [Pages -> Contents]
           /\ \A q \in Pages :
                 View[q] = IF q \in Cached THEN frame[q].page ELSE disk[q]
<1> QED
  BY DEF PoolInv, TypeOK, Frame, View

(* A set of pages is persisted when the file holds what the view shows.    *)
LEMMA PersistView ==
    ASSUME PoolInv, NEW P \in SUBSET Cached, disk' = WrittenBack(P)
    PROVE  Store!Persist(P)
<1>1. \A q \in Pages : q \in P => View[q] = frame[q].page
  BY ViewTypes
<1> QED
  BY <1>1 DEF WrittenBack, Store!Persist

LEMMA PersistNothing ==
    ASSUME PoolInv, disk' = disk
    PROVE  Store!Persist({})
<1>1. disk = [q \in Pages |-> disk[q]]
  BY DEF PoolInv, TypeOK
<1> QED
  BY <1>1 DEF Store!Persist

(* A victim that is not dirty is in the file as it is in the pool.         *)
LEMMA CleanVictim ==
    ASSUME PoolInv, NEW victim \in Cached, IsVictim(victim),
           ~ frame[victim].dirty
    PROVE  frame[victim].page = disk[victim]
<1>1. frame[victim].pin = 0
  BY Victims
<1>2. \A u \in Users : holds[u] # victim
  BY <1>1, UnpinnedUnheld
<1> QED
  BY <1>2 DEF PoolInv, Coherence, Holders

(* So evicting it, with the write-back a dirty one gets, changes no view.  *)
LEMMA EvictionKeepsView ==
    ASSUME PoolInv, NEW victim \in Cached, IsVictim(victim),
           NEW q \in Pages
    PROVE  View[q] = IF q \in Cached \ {victim} THEN frame[q].page
                     ELSE WrittenBack({victim} \cap DirtyPages)[q]
<1>1. {victim} \cap DirtyPages \in SUBSET Cached
  BY DEF DirtyPages
<1>2. WrittenBack({victim} \cap DirtyPages)[q] =
          IF q \in {victim} \cap DirtyPages THEN frame[q].page ELSE disk[q]
  BY <1>1, WrittenBackTypes
<1>3. View[q] = IF q \in Cached THEN frame[q].page ELSE disk[q]
  BY ViewTypes
<1>4. CASE q # victim
  BY <1>2, <1>3, <1>4
<1>5. CASE q = victim
  <2>1. CASE frame[victim].dirty
    BY <1>2, <1>3, <1>5, <2>1 DEF DirtyPages
  <2>2. CASE ~ frame[victim].dirty
    BY <1>2, <1>3, <1>5, <2>2, CleanVictim DEF DirtyPages
  <2> QED
    BY <2>1, <2>2
<1> QED
  BY <1>4, <1>5

LEMMA GetHitRefines ==
    ASSUME PoolInv, NEW u \in Users, NEW p \in Pages, GetHit(u, p)
    PROVE  Store!Get(u, p)
<1>1. /\ Cached' = Cached /\ disk' = disk
      /\ \A q \in Cached : frame'[q].page = frame[q].page
  BY DEF GetHit, Cached, PoolInv, TypeOK, Frame
<1>2. View' = View
  BY <1>1 DEF View
<1>3. Store!Persist({})
  BY <1>1, PersistNothing
<1> QED
  BY <1>2, <1>3 DEF GetHit, Got, process, Store!Get

LEMMA GetMissRefines ==
    ASSUME PoolInv, NEW u \in Users, NEW p \in Pages, GetMiss(u, p)
    PROVE  Store!Get(u, p)
<1>1. /\ Cached' = Cached \cup {p} /\ disk' = disk /\ p \notin Cached
      /\ \A q \in Cached : frame'[q] = frame[q]
      /\ frame'[p].page = disk[p]
  BY DEF GetMiss, Loaded, Cached
<1>2. View' = View
  BY <1>1 DEF View
<1>3. Store!Persist({})
  BY <1>1, PersistNothing
<1> QED
  BY <1>2, <1>3 DEF GetMiss, Got, process, Store!Get

LEMMA GetEvictRefines ==
    ASSUME PoolInv, NEW u \in Users, NEW p \in Pages, NEW victim \in Cached,
           GetEvict(u, p, victim)
    PROVE  Store!Get(u, p)
<1> DEFINE P == {victim} \cap DirtyPages
<1>1. P \in SUBSET Cached
  BY DEF DirtyPages
<1>2. /\ IsVictim(victim) /\ p \notin Cached /\ disk' = WrittenBack(P)
      /\ frame' = Loaded(Dropped({victim}), p)
  BY DEF GetEvict
<1> HIDE DEF P
<1>3. /\ Cached' = (Cached \ {victim}) \cup {p}
      /\ \A q \in Cached \ {victim} : frame'[q] = frame[q]
      /\ frame'[p].page = disk[p]
  BY <1>2 DEF Loaded, Dropped, Cached
<1>4. disk'[p] = disk[p]
  BY <1>1, <1>2, WrittenBackTypes
<1>5. View' = View
  <2>1. \A q \in Pages : View[q] = IF q \in Cached \ {victim}
                                   THEN frame[q].page ELSE disk'[q]
    BY <1>2, EvictionKeepsView DEF P
  <2>2. \A q \in Pages : View'[q] = IF q \in Cached \ {victim}
                                    THEN frame[q].page ELSE disk'[q]
    BY <1>3, <1>4 DEF View
  <2> QED
    BY <2>1, <2>2 DEF View
<1>6. Store!Persist(P) /\ P \in SUBSET Pages
  BY <1>1, <1>2, PersistView DEF PoolInv, TypeOK
<1> QED
  BY <1>5, <1>6 DEF GetEvict, Got, process, Store!Get

(* A victim whose write raises falls back to the page in the file.         *)
LEMMA EvictWriteFailsRefines ==
    ASSUME PoolInv, NEW u \in Users, NEW p \in Pages, NEW victim \in Cached,
           EvictWriteFails(u, p, victim)
    PROVE  Store!Lose(victim)
<1>1. /\ Cached' = Cached \ {victim} /\ disk' = disk
      /\ \A q \in Cached \ {victim} : frame'[q] = frame[q]
      /\ holds' = holds /\ restarts' = restarts
      /\ IOErrors /\ IsVictim(victim)
  BY DEF EvictWriteFails, Dropped, Cached, users, process
<1>2. \A v \in Users : holds[v] # victim
  BY <1>1, Victims, UnpinnedUnheld
<1>3. victim \in Pages
  BY DEF PoolInv, TypeOK
<1>4. View' = [View EXCEPT ![victim] = disk[victim]]
  BY <1>1, <1>3 DEF View
<1> QED
  BY <1>1, <1>2, <1>4 DEF Store!Lose

LEMMA EvictReadFailsRefines ==
    ASSUME PoolInv, NEW u \in Users, NEW p \in Pages, NEW victim \in Cached,
           EvictReadFails(u, p, victim)
    PROVE  Store!Flush
<1> DEFINE P == {victim} \cap DirtyPages
<1>1. P \in SUBSET Cached
  BY DEF DirtyPages
<1>2. /\ IsVictim(victim) /\ disk' = WrittenBack(P)
      /\ frame' = Dropped({victim})
      /\ holds' = holds /\ restarts' = restarts
  BY DEF EvictReadFails, users, process
<1> HIDE DEF P
<1>3. /\ Cached' = Cached \ {victim}
      /\ \A q \in Cached \ {victim} : frame'[q] = frame[q]
  BY <1>2 DEF Dropped, Cached
<1>4. View' = View
  <2>1. \A q \in Pages : View[q] = IF q \in Cached \ {victim}
                                   THEN frame[q].page ELSE disk'[q]
    BY <1>2, EvictionKeepsView DEF P
  <2> QED
    BY <1>3, <2>1 DEF View
<1>5. Store!Persist(P) /\ P \in SUBSET Pages
  BY <1>1, <1>2, PersistView DEF PoolInv, TypeOK
<1> QED
  BY <1>2, <1>4, <1>5 DEF Store!Flush

LEMMA ChangeRefines ==
    ASSUME PoolInv, NEW u \in Users, NEW c \in Contents, Change(u, c)
    PROVE  Store!Write(u, c)
<1>1. /\ frame \in [Cached -> Frame] /\ Cached \subseteq Pages
      /\ holds[u] \in Cached
  BY DEF PoolInv, TypeOK, PinsAreHolders, Change
<1>2. /\ frame' = [frame EXCEPT ![holds[u]].page = c]
      /\ disk' = disk /\ holds' = holds /\ restarts' = restarts
      /\ holds[u] # NoPage
  BY DEF Change, process
<1>3. /\ Cached' = Cached
      /\ \A q \in Cached :
            frame'[q].page = IF q = holds[u] THEN c ELSE frame[q].page
  BY <1>1, <1>2 DEF Cached, Frame
<1>4. View' = [View EXCEPT ![holds[u]] = c]
  BY <1>1, <1>2, <1>3 DEF View
<1> QED
  BY <1>2, <1>4 DEF Store!Write

LEMMA UnpinRefines ==
    ASSUME PoolInv, NEW u \in Users, Unpin(u)
    PROVE  Store!Release(u)
<1>1. frame \in [Cached -> Frame] /\ holds[u] \in Cached
  BY DEF PoolInv, TypeOK, PinsAreHolders, Unpin
<1>2. /\ frame' = [frame EXCEPT ![holds[u]] =
                      [page |-> @.page,
                       pin |-> IF @.pin > 0 THEN @.pin - 1 ELSE 0,
                       dirty |-> @.dirty \/ wrote[u]]]
      /\ holds' = [holds EXCEPT ![u] = NoPage] /\ holds[u] # NoPage
      /\ disk' = disk /\ restarts' = restarts
  BY DEF Unpin, process
<1>3. /\ Cached' = Cached
      /\ \A q \in Cached : frame'[q].page = frame[q].page
  BY <1>1, <1>2 DEF Cached
<1>4. View' = View
  BY <1>2, <1>3 DEF View
<1> QED
  BY <1>2, <1>4 DEF Store!Release

LEMMA CleanedRefines ==
    ASSUME PoolInv, NEW P \in SUBSET DirtyPages,
           disk' = WrittenBack(P), frame' = Cleaned(P),
           UNCHANGED <<order, users, process>>
    PROVE  Store!Flush
<1>1. P \in SUBSET Cached /\ Cached \subseteq Pages
  BY DEF DirtyPages, PoolInv, TypeOK
<1>2. frame \in [Cached -> Frame]
  BY DEF PoolInv, TypeOK
<1>3. /\ Cached' = Cached
      /\ \A q \in Cached : frame'[q].page = frame[q].page
  BY <1>2 DEF Cleaned, Cached, Frame
<1>4. \A q \in Pages : q \notin Cached => disk'[q] = disk[q]
  BY <1>1, WrittenBackTypes
<1>5. View' = View
  BY <1>3, <1>4 DEF View
<1>6. Store!Persist(P)
  BY <1>1, PersistView
<1> QED
  BY <1>1, <1>5, <1>6 DEF Store!Flush, users, process

LEMMA RestartRefines ==
    ASSUME PoolInv, Restart
    PROVE  Store!Restart
<1>1. Cached' = {} /\ disk' = disk /\ disk \in [Pages -> Contents]
  BY DEF Restart, Cached, PoolInv, TypeOK
<1>2. View' = disk
  BY <1>1 DEF View
<1> QED
  BY <1>1, <1>2 DEF Restart, Store!Restart

LEMMA InitRefines == Init => Store!Init
<1> SUFFICES ASSUME Init PROVE Store!Init
  OBVIOUS
<1>1. Cached = {} /\ disk = [p \in Pages |-> Blank]
  BY DEF Init, Cached
<1>2. View = disk
  BY <1>1 DEF View
<1> QED
  BY <1>1, <1>2 DEF Init, Store!Init

LEMMA NextRefines == PoolInv /\ [Next]_vars => [Store!Next]_(Store!vars)
<1> SUFFICES ASSUME PoolInv, [Next]_vars PROVE [Store!Next]_(Store!vars)
  OBVIOUS
<1>1. ASSUME NEW u \in Users, NEW p \in Pages,
             \/ GetHit(u, p) \/ GetMiss(u, p)
             \/ \E victim \in Cached : GetEvict(u, p, victim)
      PROVE  Store!Next
  <2>1. Store!Get(u, p)
    BY <1>1, GetHitRefines, GetMissRefines, GetEvictRefines
  <2> QED
    BY <2>1 DEF Store!Next
<1>2. ASSUME NEW u \in Users, NEW p \in Pages, NEW victim \in Cached,
             EvictWriteFails(u, p, victim)
      PROVE  Store!Next
  <2>1. Store!Lose(victim) /\ victim \in Pages
    BY <1>2, EvictWriteFailsRefines DEF PoolInv, TypeOK
  <2> QED
    BY <2>1 DEF Store!Next
<1>3. ASSUME NEW u \in Users, NEW p \in Pages, NEW victim \in Cached,
             EvictReadFails(u, p, victim)
      PROVE  Store!Next
  BY <1>3, EvictReadFailsRefines DEF Store!Next
<1>4. ASSUME NEW u \in Users, NEW c \in Contents, Change(u, c)
      PROVE  Store!Next
  BY <1>4, ChangeRefines DEF Store!Next
<1>5. ASSUME NEW u \in Users, Unpin(u)
      PROVE  Store!Next
  BY <1>5, UnpinRefines DEF Store!Next
<1>6. ASSUME NEW P \in SUBSET DirtyPages,
             disk' = WrittenBack(P), frame' = Cleaned(P),
             UNCHANGED <<order, users, process>>
      PROVE  Store!Next
  BY <1>6, CleanedRefines DEF Store!Next
<1>7. ASSUME NEW p \in Pages, FlushPage(p)
      PROVE  Store!Next
  BY <1>6, <1>7 DEF FlushPage
<1>8. CASE FlushAll
  BY <1>6, <1>8 DEF FlushAll
<1>9. ASSUME NEW p \in Pages, FlushAllFails(p)
      PROVE  Store!Next
  <2> DEFINE done == {q \in DirtyPages : PositionOf(q) < PositionOf(p)}
  <2>1. /\ done \in SUBSET DirtyPages
        /\ disk' = WrittenBack(done) /\ frame' = Cleaned(done)
        /\ UNCHANGED <<order, users, process>>
    BY <1>9 DEF FlushAllFails
  <2> HIDE DEF done
  <2> QED
    BY <1>6, <2>1
<1>10. CASE Restart
  BY <1>10, RestartRefines DEF Store!Next
<1>11. CASE UNCHANGED vars
  BY <1>11 DEF vars, Store!vars, View, Cached
<1>12. ASSUME NEW u \in Users, NEW p \in Pages, GetRefused(u, p)
       PROVE  UNCHANGED vars
  BY <1>12 DEF GetRefused
<1> QED
  BY <1>1, <1>2, <1>3, <1>4, <1>5, <1>7, <1>8, <1>9, <1>10, <1>11, <1>12
     DEF Next

(* The pool is a page store (buffer.py as a whole): a user reads what was  *)
(* last written to a page, and only a restart or a failed write-back takes *)
(* a change back.                                                          *)
THEOREM PoolRefinesPageStore == Spec => PoolIsAPageStore
<1> QED
  BY InitRefines, NextRefines, PoolInvariant, PTL
     DEF Spec, PoolIsAPageStore, Store!Spec
=============================================================================
