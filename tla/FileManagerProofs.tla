-------------------------- MODULE FileManagerProofs --------------------------
(***************************************************************************)
(* The file manager keeps its pages intact and gives every page one place, *)
(* for any number of pages and of kills: a file that has not met both a    *)
(* free and a kill, as the model says.                                     *)
(***************************************************************************)
EXTENDS FileManager, WellFoundedInduction, FiniteSetTheorems, TLAPS

(* With links w, the list that starts at h runs through the pages of S,    *)
(* each of them once, and ends: f lists them, f[n] is the 0 at its end.    *)
IsChain(f, n, w, h, S) ==
    /\ f[0] = h
    /\ f[n] = 0
    /\ \A k \in 0 .. n - 1 : f[k] \in S /\ w[f[k]] = f[k + 1]
    /\ \A p \in S : \E k \in 0 .. n - 1 : f[k] = p
    /\ \A i, j \in 0 .. n : f[i] = f[j] => i = j

Chain(w, h, S) ==
    \E n \in 0 .. MaxPages : \E f \in [0 .. n -> 0 .. MaxPages] :
        IsChain(f, n, w, h, S)

(* The inductive invariant: types, then for an undisturbed file how far it *)
(* is on disk, where each of its pages is, and what the owned ones hold.   *)
TypeOK ==
    /\ pc \in {"closed", "truncated", "zeroed", "idle", "format",
               "allocated", "linked"}
    /\ file \in {"none", "empty", "unformatted", "ready"}
    /\ diskCount \in 0 .. MaxPages + 1 /\ diskHead \in 0 .. MaxPages
    /\ count \in 0 .. MaxPages + 1 /\ head \in 0 .. MaxPages
    /\ word \in [Page -> 0 .. MaxPages]
    /\ body \in [Page -> {"zero", "blank", "data"}]
    /\ pid \in 0 .. MaxPages
    /\ file = "ready" => diskCount # 0
    /\ pc # "closed" => count # 0
    /\ pc \in {"format", "allocated", "linked"} => pid # 0
    /\ owned \subseteq Page
    /\ content \in [Page -> {"blank", "data"}]
    /\ frees \in BOOLEAN
    /\ crashes \in 0 .. MaxCrashes

HeaderInv ==
    /\ file = "ready" => pc \notin {"truncated", "zeroed"}
    /\ file # "ready" =>
        /\ diskCount = 0 /\ diskHead = 0
        /\ pc \in {"closed", "truncated", "zeroed"}
    /\ pc \in {"truncated", "zeroed"} => count = 1 /\ head = 0
    /\ pc \in {"idle", "linked"} => count = diskCount /\ head = diskHead

(* Between operations every page is owned or on the list in the file; in   *)
(* the midst of one, pid is neither.                                       *)
PlacesInv ==
    /\ owned \subseteq 1 .. diskCount - 1
    /\ pc \in {"closed", "truncated", "zeroed", "idle"} =>
        Chain(word, diskHead, (1 .. diskCount - 1) \ owned)
    /\ pc \in {"format", "allocated", "linked"} =>
        /\ pid \in 1 .. count - 1 /\ pid \notin owned
        /\ diskCount <= count
        /\ Chain(word, head, (1 .. count - 1) \ (owned \cup {pid}))
    /\ pc = "linked" => frees /\ word[pid] = head

(* A caller that never frees has every page, and the list stays empty.     *)
NoFreeInv ==
    ~ frees =>
        /\ head = 0 /\ diskHead = 0
        /\ owned = 1 .. diskCount - 1
        /\ pc \in {"format", "allocated"} => pid = diskCount /\ count = pid + 1

ContentsInv ==
    /\ \A p \in owned : word[p] = p /\ body[p] = content[p]
    /\ pc = "allocated" => word[pid] = pid /\ body[pid] = "blank"

SpaceInv == HeaderInv /\ PlacesInv /\ NoFreeInv /\ ContentsInv
FileInv == TypeOK /\ (Undisturbed => SpaceInv)

-----------------------------------------------------------------------------
(* Lemmas on the free list.                                                *)

(* The empty list, and a list that starts at 0, which is empty.            *)
LEMMA EmptyChain ==
    ASSUME FileAssumption, NEW w
    PROVE  /\ Chain(w, 0, {})
           /\ \A S : Chain(w, 0, S) => S = {}
<1>1. Chain(w, 0, {})
  <2> DEFINE f == [k \in 0 .. 0 |-> 0]
  <2>1. f \in [0 .. 0 -> 0 .. MaxPages] /\ 0 \in 0 .. MaxPages
    BY DEF FileAssumption
  <2>2. IsChain(f, 0, w, 0, {})
    BY DEF IsChain
  <2> HIDE DEF f
  <2> QED
    BY <2>1, <2>2 DEF Chain
<1>2. ASSUME NEW S, Chain(w, 0, S)
      PROVE  S = {}
  <2>1. PICK n \in 0 .. MaxPages :
            \E f \in [0 .. n -> 0 .. MaxPages] : IsChain(f, n, w, 0, S)
    BY <1>2 DEF Chain
  <2>2. PICK f \in [0 .. n -> 0 .. MaxPages] : IsChain(f, n, w, 0, S)
    BY <2>1
  <2>3. 0 \in 0 .. n /\ n \in 0 .. n /\ f[0] = f[n]
    BY <2>2 DEF IsChain, FileAssumption
  <2>4. n = 0
    BY <2>2, <2>3 DEF IsChain
  <2> QED
    BY <2>2, <2>4 DEF IsChain
<1> QED
  BY <1>1, <1>2

(* Links of other pages do not matter to a list.                           *)
LEMMA ChainFrame ==
    ASSUME NEW w, NEW v, NEW h, NEW S, Chain(w, h, S),
           \A p \in S : v[p] = w[p]
    PROVE  Chain(v, h, S)
<1>1. PICK n \in 0 .. MaxPages :
          \E f \in [0 .. n -> 0 .. MaxPages] : IsChain(f, n, w, h, S)
  BY DEF Chain
<1>2. PICK f \in [0 .. n -> 0 .. MaxPages] : IsChain(f, n, w, h, S)
  BY <1>1
<1>3. IsChain(f, n, v, h, S)
  BY <1>2 DEF IsChain
<1> QED
  BY <1>3 DEF Chain

(* A list that does not start at 0 starts with a page of it, and without   *)
(* that page it is a list that starts at its link.                         *)
LEMMA ChainPop ==
    ASSUME FileAssumption, NEW w, NEW h, h # 0, NEW S, Chain(w, h, S)
    PROVE  /\ h \in S
           /\ Chain(w, w[h], S \ {h})
<1>1. PICK n \in 0 .. MaxPages :
          \E f \in [0 .. n -> 0 .. MaxPages] : IsChain(f, n, w, h, S)
  BY DEF Chain
<1>2. PICK f \in [0 .. n -> 0 .. MaxPages] : IsChain(f, n, w, h, S)
  BY <1>1
<1>3. MaxPages \in Nat /\ n \in Nat /\ n # 0 /\ n <= MaxPages
  BY <1>2 DEF IsChain, FileAssumption
<1>4. 0 \in 0 .. n - 1 /\ 0 \in 0 .. n /\ n - 1 \in 0 .. MaxPages
  BY <1>3
<1>5. f[0] = h /\ h \in S
  BY <1>2, <1>4 DEF IsChain
<1> DEFINE g == [k \in 0 .. n - 1 |-> f[k + 1]]
<1>6. g \in [0 .. n - 1 -> 0 .. MaxPages]
  BY <1>2, <1>3
<1>7. IsChain(g, n - 1, w, w[h], S \ {h})
  <2>1. g[0] = w[h]
    BY <1>2, <1>4, <1>5 DEF IsChain
  <2>2. g[n - 1] = 0
    BY <1>2, <1>3 DEF IsChain
  <2>3. ASSUME NEW k \in 0 .. (n - 1) - 1
        PROVE  g[k] \in S \ {h} /\ w[g[k]] = g[k + 1]
    <3>1. k + 1 \in 0 .. n - 1 /\ k + 1 \in 0 .. n /\ k + 1 # 0
          /\ k \in 0 .. n - 1 /\ (k + 1) + 1 \in 0 .. n
      BY <1>3
    <3>2. g[k] = f[k + 1] /\ g[k + 1] = f[(k + 1) + 1]
      BY <3>1
    <3>3. f[k + 1] \in S /\ w[f[k + 1]] = f[(k + 1) + 1]
      BY <1>2, <3>1 DEF IsChain
    <3>4. f[k + 1] # h
      BY <1>2, <1>4, <1>5, <3>1 DEF IsChain
    <3> QED
      BY <3>2, <3>3, <3>4
  <2>4. ASSUME NEW p \in S \ {h}
        PROVE  \E k \in 0 .. (n - 1) - 1 : g[k] = p
    <3>1. PICK j \in 0 .. n - 1 : f[j] = p
      BY <1>2 DEF IsChain
    <3>2. j # 0
      BY <1>5, <3>1
    <3>3. j - 1 \in 0 .. (n - 1) - 1 /\ j - 1 \in 0 .. n - 1
      BY <1>3, <3>2
    <3>4. g[j - 1] = f[j]
      BY <3>3
    <3> QED
      BY <3>1, <3>3, <3>4
  <2>5. ASSUME NEW i \in 0 .. n - 1, NEW j \in 0 .. n - 1, g[i] = g[j]
        PROVE  i = j
    <3>1. i + 1 \in 0 .. n /\ j + 1 \in 0 .. n /\ f[i + 1] = f[j + 1]
      BY <1>3, <2>5
    <3> QED
      BY <1>2, <3>1 DEF IsChain
  <2> QED
    BY <2>1, <2>2, <2>3, <2>4, <2>5 DEF IsChain
<1> HIDE DEF g
<1> QED
  BY <1>4, <1>5, <1>6, <1>7 DEF Chain

(* A list of n pages out of Page is no longer than Page, and shorter when  *)
(* a page is not on it.                                                    *)
LEMMA ChainLength ==
    ASSUME FileAssumption, NEW n \in 0 .. MaxPages, NEW w, NEW h, NEW S,
           NEW f \in [0 .. n -> 0 .. MaxPages], IsChain(f, n, w, h, S),
           S \subseteq Page, NEW p \in Page \ S
    PROVE  n < MaxPages
<1>1. MaxPages \in Nat /\ n \in Nat
  BY DEF FileAssumption
<1> DEFINE g == [k \in 0 .. n |-> IF k = n THEN p ELSE f[k]]
<1>2. g \in [0 .. n -> Page]
  BY <1>1 DEF IsChain
<1>3. \A i, j \in 0 .. n : g[i] = g[j] => i = j
  <2>1. \A k \in 0 .. n : k # n => g[k] = f[k] /\ f[k] \in S
    BY <1>1 DEF IsChain
  <2>2. g[n] = p
    BY <1>1
  <2> HIDE DEF g
  <2>3. \A k \in 0 .. n : g[k] = p => k = n
    BY <2>1
  <2> QED
    BY <2>1, <2>2, <2>3 DEF IsChain
<1>4. g \in Injection(0 .. n, Page)
  BY <1>2, <1>3 DEF Injection, IsInjective
<1>5. IsFiniteSet(Page) /\ Cardinality(Page) = MaxPages
  BY <1>1, FS_Interval DEF Page, FileAssumption
<1>6. Cardinality(0 .. n) = n + 1
  BY <1>1, FS_Interval
<1> HIDE DEF g
<1>7. Cardinality(0 .. n) <= Cardinality(Page)
  BY <1>4, <1>5, FS_Injection
<1> QED
  BY <1>1, <1>5, <1>6, <1>7

(* A page put in front of a list it is not on.                             *)
LEMMA ChainPush ==
    ASSUME FileAssumption, NEW w \in [Page -> 0 .. MaxPages],
           NEW h \in 0 .. MaxPages, NEW S, S \subseteq Page, Chain(w, h, S),
           NEW p \in Page \ S
    PROVE  Chain([w EXCEPT ![p] = h], p, S \cup {p})
<1> DEFINE v == [w EXCEPT ![p] = h]
<1>1. v[p] = h /\ \A q \in S : v[q] = w[q]
  OBVIOUS
<1> HIDE DEF v
<1>2. PICK n \in 0 .. MaxPages :
          \E f \in [0 .. n -> 0 .. MaxPages] : IsChain(f, n, w, h, S)
  BY DEF Chain
<1>3. PICK f \in [0 .. n -> 0 .. MaxPages] : IsChain(f, n, w, h, S)
  BY <1>2
<1>4. MaxPages \in Nat /\ n \in Nat /\ n < MaxPages
  BY <1>3, ChainLength DEF FileAssumption
<1> DEFINE g == [k \in 0 .. n + 1 |-> IF k = 0 THEN p ELSE f[k - 1]]
<1>5. /\ n + 1 \in 0 .. MaxPages
      /\ g \in [0 .. n + 1 -> 0 .. MaxPages]
  BY <1>4 DEF Page
<1>6. g[0] = p /\ \A k \in 0 .. n : g[k + 1] = f[k]
  BY <1>4
<1>7. \A k \in 1 .. n + 1 : k - 1 \in 0 .. n /\ g[k] = f[k - 1]
  BY <1>4
<1> HIDE DEF g
<1>8. IsChain(g, n + 1, v, p, S \cup {p})
  <2>1. g[0] = p
    BY <1>6
  <2>2. g[n + 1] = 0
    BY <1>3, <1>4, <1>6 DEF IsChain
  <2>3. ASSUME NEW k \in 0 .. (n + 1) - 1
        PROVE  g[k] \in S \cup {p} /\ v[g[k]] = g[k + 1]
    <3>1. CASE k = 0
      <4>1. g[0 + 1] = f[0] /\ f[0] = h
        BY <1>3, <1>4, <1>6 DEF IsChain
      <4> QED
        BY <1>1, <1>6, <3>1, <4>1
    <3>2. CASE k # 0
      <4>1. k - 1 \in 0 .. n - 1 /\ k \in 0 .. n /\ k \in 1 .. n + 1
            /\ (k - 1) + 1 = k
        BY <1>4, <3>2
      <4>2. g[k] = f[k - 1] /\ g[k + 1] = f[k]
        BY <1>6, <1>7, <4>1
      <4>3. f[k - 1] \in S /\ w[f[k - 1]] = f[k]
        BY <1>3, <4>1 DEF IsChain
      <4> QED
        BY <1>1, <4>2, <4>3
    <3> QED
      BY <3>1, <3>2
  <2>4. ASSUME NEW q \in S \cup {p}
        PROVE  \E k \in 0 .. (n + 1) - 1 : g[k] = q
    <3>1. CASE q = p
      BY <1>4, <1>6, <3>1
    <3>2. CASE q \in S
      <4>1. PICK j \in 0 .. n - 1 : f[j] = q
        BY <1>3, <3>2 DEF IsChain
      <4>2. j \in 0 .. n /\ j + 1 \in 0 .. (n + 1) - 1
        BY <1>4
      <4> QED
        BY <1>6, <4>1, <4>2
    <3> QED
      BY <3>1, <3>2
  <2>5. ASSUME NEW i \in 0 .. n + 1, NEW j \in 0 .. n + 1, g[i] = g[j]
        PROVE  i = j
    <3>1. \A k \in 1 .. n + 1 : g[k] # p
      <4> TAKE k \in 1 .. n + 1
      <4>1. g[k] = f[k - 1] /\ k - 1 \in 0 .. n
        BY <1>7
      <4>2. f[k - 1] \in S \/ f[k - 1] = 0
        BY <1>3, <1>4, <4>1 DEF IsChain
      <4> QED
        BY <4>1, <4>2 DEF Page
    <3>2. CASE i = 0 \/ j = 0
      BY <1>4, <1>6, <2>5, <3>1, <3>2
    <3>3. CASE i # 0 /\ j # 0
      <4>1. i \in 1 .. n + 1 /\ j \in 1 .. n + 1
        BY <1>4, <3>3
      <4>2. i - 1 \in 0 .. n /\ j - 1 \in 0 .. n /\ f[i - 1] = f[j - 1]
        BY <1>7, <2>5, <4>1
      <4>3. i - 1 = j - 1
        BY <1>3, <4>2 DEF IsChain
      <4> QED
        BY <1>4, <4>1, <4>3
    <3> QED
      BY <3>2, <3>3
  <2> QED
    BY <1>4, <2>1, <2>2, <2>3, <2>4, <2>5 DEF IsChain
<1>9. Chain(v, p, S \cup {p})
  BY <1>5, <1>8 DEF Chain
<1> QED
  BY <1>9 DEF v

(* What the recursive FreeList computes for a list: its pages, then 0.     *)
LEMMA FreeListIsChain ==
    ASSUME FileAssumption, NEW h, NEW S, Chain(word, h, S), 0 \notin S
    PROVE  /\ FreeList(h)[MaxPages] = 0
           /\ Listed(h) = S
<1> DEFINE Step(l) == [k \in 0 .. MaxPages |->
                          IF k = 0 THEN h
                          ELSE IF l[k - 1] = 0 THEN 0 ELSE word[l[k - 1]]]
           fl == FreeList(h)
<1>1. PICK n \in 0 .. MaxPages :
          \E f \in [0 .. n -> 0 .. MaxPages] : IsChain(f, n, word, h, S)
  BY DEF Chain
<1>2. PICK f \in [0 .. n -> 0 .. MaxPages] : IsChain(f, n, word, h, S)
  BY <1>1
<1>3. MaxPages \in Nat /\ n \in Nat /\ n <= MaxPages
  BY DEF FileAssumption
<1> DEFINE g == [k \in 0 .. MaxPages |-> IF k <= n THEN f[k] ELSE 0]
<1>4. g = Step(g)
  <2>1. ASSUME NEW k \in 0 .. MaxPages
        PROVE  g[k] = Step(g)[k]
    <3>1. CASE k = 0
      BY <1>2, <1>3, <3>1 DEF IsChain
    <3>2. CASE k \in 1 .. n
      <4>1. k - 1 \in 0 .. n - 1 /\ k - 1 \in 0 .. MaxPages /\ k # 0
            /\ g[k - 1] = f[k - 1] /\ g[k] = f[k] /\ (k - 1) + 1 = k
        BY <1>3, <3>2
      <4>2. f[k - 1] \in S /\ word[f[k - 1]] = f[k]
        BY <1>2, <4>1 DEF IsChain
      <4> QED
        BY <4>1, <4>2
    <3>3. CASE k > n
      <4>1. k - 1 \in 0 .. MaxPages /\ k # 0 /\ g[k] = 0
        BY <1>3, <3>3
      <4>2. g[k - 1] = 0
        BY <1>2, <1>3, <3>3, <4>1 DEF IsChain
      <4> QED
        BY <4>1, <4>2
    <3> QED
      BY <1>3, <3>1, <3>2, <3>3
  <2> QED
    BY <2>1
<1>5. fl = Step(fl)
  <2>1. fl = CHOOSE link : link = Step(link)
    BY DEF FreeList
  <2> HIDE DEF Step, fl, g
  <2> QED
    BY <1>4, <2>1
<1>6. \A k \in 0 .. MaxPages : fl[k] = g[k]
  <2> DEFINE other == {k \in 0 .. MaxPages : fl[k] # g[k]}
             below == OpToRel(<, Nat)
  <2>1. \A k \in 0 .. MaxPages : fl[k] = Step(fl)[k] /\ g[k] = Step(g)[k]
    BY <1>4, <1>5
  <2> HIDE DEF fl, g
  <2> SUFFICES ASSUME other # {}
               PROVE  FALSE
    OBVIOUS
  <2>2. PICK k \in other : \A m \in other : <<m, k>> \notin below
    <3>1. other \subseteq Nat
      BY <1>3
    <3>2. IsWellFoundedOn(below, Nat)
      BY NatLessThanWellFounded, Zenon
    <3> HIDE DEF other, below
    <3> QED
      BY <3>1, <3>2, WFMin, Zenon
  <2>3. CASE k = 0
    BY <2>1, <2>2, <2>3
  <2>4. CASE k # 0
    <3>0. k \in 0 .. MaxPages /\ fl[k] # g[k]
      BY <2>2
    <3>1. k - 1 \in 0 .. MaxPages /\ k - 1 \in Nat /\ k \in Nat /\ k - 1 < k
      BY <1>3, <2>4, <3>0
    <3>2. <<k - 1, k>> \in below
      BY <3>1 DEF OpToRel
    <3>3. fl[k - 1] = g[k - 1]
      <4>1. k - 1 \notin other
        <5> HIDE DEF other, below
        <5> QED
          BY <2>2, <3>2
      <4> QED
        BY <3>1, <4>1
    <3>4. Step(fl)[k] = Step(g)[k]
      BY <2>4, <3>1, <3>3
    <3> HIDE DEF Step
    <3> QED
      BY <2>1, <3>0, <3>4
  <2> QED
    BY <2>3, <2>4
<1>7. FreeList(h)[MaxPages] = 0
  <2>1. MaxPages \in 0 .. MaxPages /\ g[MaxPages] = 0
    BY <1>2, <1>3 DEF IsChain
  <2> QED
    BY <1>6, <2>1
<1>8. Listed(h) = {g[k] : k \in 0 .. MaxPages} \ {0}
  <2> HIDE DEF g
  <2> QED
    BY <1>6 DEF Listed
<1>9. {g[k] : k \in 0 .. MaxPages} \ {0} = S
  <2>1. ASSUME NEW k \in 0 .. MaxPages, g[k] # 0
        PROVE  g[k] \in S
    <3>1. k \in 0 .. n - 1 /\ g[k] = f[k]
      BY <1>2, <1>3, <2>1 DEF IsChain
    <3> QED
      BY <1>2, <3>1 DEF IsChain
  <2>2. ASSUME NEW p \in S
        PROVE  p # 0 /\ \E k \in 0 .. MaxPages : g[k] = p
    <3>1. PICK k \in 0 .. n - 1 : f[k] = p
      BY <1>2 DEF IsChain
    <3>2. k \in 0 .. MaxPages /\ g[k] = f[k]
      BY <1>3
    <3> QED
      BY <3>1, <3>2
  <2> HIDE DEF g
  <2> QED
    BY <2>1, <2>2
<1> QED
  BY <1>7, <1>8, <1>9

-----------------------------------------------------------------------------
(* Every action keeps the invariant.                                       *)

LEMMA InitInv == FileAssumption /\ Init => FileInv
<1> SUFFICES ASSUME FileAssumption, Init
             PROVE  FileInv
  OBVIOUS
<1>1. TypeOK
  BY DEF Init, TypeOK, Page, FileAssumption
<1>2. (1 .. diskCount - 1) \ owned = {}
  BY DEF Init
<1>3. SpaceInv
  BY <1>2, EmptyChain DEF Init, SpaceInv, HeaderInv, PlacesInv, NoFreeInv, ContentsInv
<1> QED
  BY <1>1, <1>3 DEF FileInv

LEMMA TypeStep == FileAssumption /\ TypeOK /\ [Next]_vars => TypeOK'
<1> SUFFICES ASSUME FileAssumption, TypeOK, [Next]_vars
             PROVE  TypeOK'
  OBVIOUS
<1> USE DEF TypeOK, FileAssumption, Page, header, memory, pages, caller, vars
<1>1. CASE Open
  BY <1>1 DEF Open
<1>2. CASE OpenRejected
  BY <1>2 DEF OpenRejected
<1>3. CASE Truncate
  BY <1>3 DEF Truncate
<1>4. CASE WriteZeros
  BY <1>4 DEF WriteZeros
<1>5. CASE FormatFile
  BY <1>5 DEF FormatFile, FlushHeader
<1>6. CASE Reuse
  BY <1>6 DEF Reuse
<1>7. CASE Extend
  BY <1>7 DEF Extend
<1>8. CASE FormatPage
  BY <1>8 DEF FormatPage
<1>9. CASE ReturnPage
  BY <1>9 DEF ReturnPage, FlushHeader
<1>10. ASSUME NEW p \in Page, LinkPage(p)
      PROVE  TypeOK'
  BY <1>10 DEF LinkPage
<1>11. CASE MoveHead
  BY <1>11 DEF MoveHead
<1>12. ASSUME NEW p \in Page, WritePage(p)
      PROVE  TypeOK'
  BY <1>12 DEF WritePage
<1>13. CASE Close
  BY <1>13 DEF Close
<1>14. CASE Crash
  BY <1>14 DEF Crash
<1>15. CASE UNCHANGED vars
  BY <1>15
<1> QED
  BY <1>1, <1>2, <1>3, <1>4, <1>5, <1>6, <1>7, <1>8, <1>9, <1>10, <1>11, <1>12, <1>13, <1>14, <1>15 DEF Next

LEMMA SpaceStep ==
    FileAssumption /\ TypeOK /\ SpaceInv /\ [Next]_vars /\ Undisturbed'
        => SpaceInv'
<1> SUFFICES ASSUME FileAssumption, TypeOK, SpaceInv, [Next]_vars, Undisturbed'
             PROVE  SpaceInv'
  OBVIOUS
<1> USE DEF SpaceInv, header, memory, pages, caller, vars
<1> DEFINE Free == (1 .. diskCount - 1) \ owned
           Rest == (1 .. count - 1) \ (owned \cup {pid})
<1>0. /\ MaxPages \in Nat /\ diskCount \in Nat /\ count \in Nat
      /\ count <= MaxPages + 1 /\ diskCount <= MaxPages + 1
  BY DEF TypeOK, FileAssumption
<1>1. CASE Open
  <2>1. diskCount' = diskCount /\ diskHead' = diskHead /\ word' = word
        /\ owned' = owned /\ pc = "closed" /\ pc' = "idle" /\ file = "ready"
    BY <1>1 DEF Open
  <2>2. HeaderInv' /\ NoFreeInv' /\ ContentsInv'
    BY <1>1 DEF Open, HeaderInv, NoFreeInv, ContentsInv
  <2>3. PlacesInv'
    BY <2>1 DEF PlacesInv
  <2> QED
    BY <2>2, <2>3
<1>2. CASE Truncate \/ WriteZeros
  <2>1. /\ diskCount' = diskCount /\ diskHead' = diskHead /\ word' = word
        /\ owned' = owned /\ pc \in {"closed", "truncated"}
        /\ pc' \in {"truncated", "zeroed"}
    BY <1>2 DEF Truncate, WriteZeros
  <2>2. HeaderInv' /\ NoFreeInv' /\ ContentsInv'
    BY <1>2 DEF Truncate, WriteZeros, HeaderInv, NoFreeInv, ContentsInv
  <2>3. PlacesInv'
    BY <2>1 DEF PlacesInv
  <2> QED
    BY <2>2, <2>3
<1>3. CASE FormatFile
  <2>1. /\ diskCount = 0 /\ owned = {} /\ owned' = {} /\ diskCount' = 1
        /\ diskHead' = 0 /\ pc' = "idle"
    BY <1>3, <1>0 DEF FormatFile, FlushHeader, HeaderInv, PlacesInv
  <2>2. HeaderInv' /\ NoFreeInv' /\ ContentsInv'
    BY <1>3, <2>1 DEF FormatFile, FlushHeader, HeaderInv, NoFreeInv, ContentsInv
  <2>3. (1 .. diskCount' - 1) \ owned' = {}
    BY <2>1
  <2>4. Chain(word', diskHead', (1 .. diskCount' - 1) \ owned')
    BY <2>1, <2>3, EmptyChain
  <2>5. PlacesInv'
    BY <2>1, <2>4 DEF PlacesInv
  <2> QED
    BY <2>2, <2>5
<1>4. CASE Reuse
  <2>1. /\ pc = "idle" /\ head # 0 /\ pid' = head /\ head' = word[head]
        /\ pc' = "format" /\ diskCount' = diskCount /\ count' = count
        /\ word' = word /\ owned' = owned /\ diskHead' = diskHead
        /\ count = diskCount /\ head = diskHead
    BY <1>4 DEF Reuse, HeaderInv
  <2>2. Chain(word, head, Free)
    BY <2>1 DEF PlacesInv
  <2>3. head \in Free /\ Chain(word, word[head], Free \ {head})
    <3> HIDE DEF Free
    <3> QED
      BY <2>1, <2>2, ChainPop
  <2>4. Free \ {head} = (1 .. count' - 1) \ (owned' \cup {pid'})
    BY <2>1
  <2>5. HeaderInv' /\ ContentsInv'
    BY <1>4 DEF Reuse, HeaderInv, ContentsInv
  <2>6. NoFreeInv'
    BY <1>4, <2>1 DEF Reuse, NoFreeInv
  <2>7. PlacesInv'
    <3>1. Chain(word', head', (1 .. count' - 1) \ (owned' \cup {pid'}))
      BY <2>1, <2>3, <2>4
    <3>2. pid' \in 1 .. count' - 1 /\ pid' \notin owned'
      BY <2>1, <2>3
    <3>3. owned' \subseteq 1 .. diskCount' - 1 /\ diskCount' <= count'
      BY <1>0, <2>1 DEF PlacesInv
    <3> QED
      BY <2>1, <3>1, <3>2, <3>3 DEF PlacesInv
  <2> QED
    BY <2>5, <2>6, <2>7
<1>5. CASE Extend
  <2>1. /\ pc = "idle" /\ head = 0 /\ pid' = count /\ head' = head
        /\ pc' = "format" /\ diskCount' = diskCount /\ count' = count + 1
        /\ word' = word /\ owned' = owned /\ diskHead' = diskHead
        /\ count = diskCount /\ head = diskHead /\ count # 0
    BY <1>5 DEF Extend, HeaderInv, TypeOK
  <2>2. owned \subseteq 1 .. diskCount - 1 /\ Chain(word, head, Free)
    BY <2>1 DEF PlacesInv
  <2>3. Free = (1 .. count' - 1) \ (owned' \cup {pid'})
    BY <1>0, <2>1
  <2>4. HeaderInv' /\ ContentsInv' /\ NoFreeInv'
    BY <1>5, <2>1 DEF Extend, HeaderInv, ContentsInv, NoFreeInv
  <2>5. PlacesInv'
    <3>1. Chain(word', head', (1 .. count' - 1) \ (owned' \cup {pid'}))
      BY <2>1, <2>2, <2>3
    <3>2. pid' \in 1 .. count' - 1 /\ pid' \notin owned'
      BY <1>0, <2>1, <2>2
    <3>3. owned' \subseteq 1 .. diskCount' - 1 /\ diskCount' <= count'
      BY <1>0, <2>1, <2>2
    <3> QED
      BY <2>1, <3>1, <3>2, <3>3 DEF PlacesInv
  <2> QED
    BY <2>4, <2>5
<1>6. CASE FormatPage
  <2>1. /\ pc = "format" /\ pc' = "allocated"
        /\ word' = [word EXCEPT ![pid] = pid]
        /\ body' = [body EXCEPT ![pid] = "blank"]
        /\ pid' = pid /\ head' = head /\ owned' = owned
        /\ diskCount' = diskCount /\ count' = count
    BY <1>6 DEF FormatPage
  <2>2. pid \in 1 .. count - 1 /\ pid \notin owned /\ pid \in Page
    BY <2>1, <1>0 DEF PlacesInv, Page
  <2>3. /\ \A p \in owned \cup Rest : word'[p] = word[p] /\ body'[p] = body[p]
        /\ word'[pid] = pid /\ body'[pid] = "blank"
    <3>1. word \in [Page -> 0 .. MaxPages] /\ owned \subseteq Page
          /\ body \in [Page -> {"zero", "blank", "data"}] /\ Rest \subseteq Page
      BY <1>0 DEF TypeOK, Page
    <3> QED
      BY <2>1, <2>2, <3>1
  <2>4. Chain(word, head, Rest)
    BY <2>1 DEF PlacesInv
  <2>5. Chain(word', head, Rest)
    <3> HIDE DEF Rest
    <3> QED
      BY <2>3, <2>4, ChainFrame
  <2>6. HeaderInv' /\ NoFreeInv'
    BY <1>6 DEF FormatPage, HeaderInv, NoFreeInv
  <2>7. ContentsInv'
    BY <1>6, <2>3 DEF FormatPage, ContentsInv
  <2>8. PlacesInv'
    BY <2>1, <2>5 DEF PlacesInv
  <2> QED
    BY <2>6, <2>7, <2>8
<1>7. CASE ReturnPage
  <2>1. /\ pc = "allocated" /\ pc' = "idle" /\ diskCount' = count
        /\ diskHead' = head /\ head' = head /\ count' = count
        /\ owned' = owned \cup {pid} /\ word' = word
    BY <1>7 DEF ReturnPage, FlushHeader
  <2>2. /\ pid \in 1 .. count - 1 /\ owned \subseteq 1 .. diskCount - 1
        /\ diskCount <= count /\ Chain(word, head, Rest)
    BY <2>1 DEF PlacesInv
  <2>3. PlacesInv'
    <3>1. owned' \subseteq 1 .. diskCount' - 1
      BY <1>0, <2>1, <2>2
    <3> QED
      BY <2>1, <2>2, <3>1 DEF PlacesInv
  <2>4. HeaderInv'
    BY <1>7 DEF ReturnPage, FlushHeader, HeaderInv
  <2>5. NoFreeInv'
    <3>1. ASSUME ~ frees
          PROVE  owned' = 1 .. diskCount' - 1
      <4>1. /\ owned = 1 .. diskCount - 1 /\ pid = diskCount
            /\ diskCount' = diskCount + 1
        BY <2>1, <3>1 DEF NoFreeInv
      <4>2. 1 .. (diskCount + 1) - 1 = (1 .. diskCount - 1) \cup {diskCount}
        BY <1>0, <2>2, <4>1
      <4> QED
        BY <2>1, <4>1, <4>2
    <3> QED
      BY <1>7, <2>1, <3>1 DEF ReturnPage, FlushHeader, NoFreeInv
  <2>6. ContentsInv'
    <3>1. content' = [content EXCEPT ![pid] = "blank"] /\ body' = body
          /\ content \in [Page -> {"blank", "data"}] /\ owned \subseteq Page
          /\ pid \in Page
      BY <1>0, <1>7, <2>2 DEF ReturnPage, TypeOK, Page
    <3> QED
      BY <2>1, <3>1 DEF ContentsInv
  <2> QED
    BY <2>3, <2>4, <2>5, <2>6
<1>8. ASSUME NEW p \in Page, LinkPage(p)
      PROVE  SpaceInv'
  <2>1. /\ pc = "idle" /\ frees /\ frees' = frees /\ p \in owned
        /\ owned' = owned \ {p} /\ word' = [word EXCEPT ![p] = head]
        /\ pid' = p /\ pc' = "linked" /\ count' = count /\ head' = head
        /\ diskCount' = diskCount /\ diskHead' = diskHead
        /\ body' = body /\ content' = content /\ file' = file
        /\ count = diskCount /\ head = diskHead
    BY <1>8 DEF LinkPage, HeaderInv
  <2>2. owned \subseteq 1 .. diskCount - 1 /\ Chain(word, head, Free)
    BY <2>1 DEF PlacesInv
  <2>3. /\ \A q \in Page \ {p} : word'[q] = word[q]
        /\ word'[p] = head
    BY <2>1 DEF TypeOK
  <2>4. Chain(word', head, Free)
    <3>1. \A q \in Free : word'[q] = word[q]
      BY <1>0, <2>1, <2>3 DEF Page
    <3> HIDE DEF Free
    <3> QED
      BY <2>2, <3>1, ChainFrame
  <2>5. Free = (1 .. count' - 1) \ (owned' \cup {pid'})
    BY <2>1, <2>2
  <2>6. PlacesInv'
    <3>1. pid' \in 1 .. count' - 1 /\ pid' \notin owned' /\ word'[pid'] = head'
          /\ owned' \subseteq 1 .. diskCount' - 1 /\ diskCount' <= count'
      BY <1>0, <2>1, <2>2, <2>3
    <3>2. Chain(word', head', (1 .. count' - 1) \ (owned' \cup {pid'}))
      BY <2>1, <2>4, <2>5
    <3> QED
      BY <2>1, <3>1, <3>2 DEF PlacesInv
  <2>7. HeaderInv' /\ NoFreeInv'
    BY <2>1 DEF HeaderInv, NoFreeInv
  <2>8. ContentsInv'
    <3>1. owned \subseteq Page
      BY DEF TypeOK
    <3> QED
      BY <2>1, <2>3, <3>1 DEF ContentsInv
  <2> QED
    BY <2>6, <2>7, <2>8
<1>9. CASE MoveHead
  <2>1. /\ pc = "linked" /\ pc' = "idle" /\ head' = pid /\ diskHead' = pid
        /\ diskCount' = count /\ count' = count /\ count = diskCount
        /\ word' = word /\ owned' = owned
    BY <1>9 DEF MoveHead, HeaderInv
  <2>2. /\ frees /\ word[pid] = head /\ pid \in 1 .. count - 1
        /\ pid \notin owned /\ owned \subseteq 1 .. diskCount - 1
        /\ Chain(word, head, Rest)
    BY <2>1 DEF PlacesInv
  <2>3. pid \in Page \ Rest /\ Rest \subseteq Page
    BY <1>0, <2>2 DEF Page
  <2>4. word \in [Page -> 0 .. MaxPages] /\ head \in 0 .. MaxPages
    BY DEF TypeOK
  <2>5. [word EXCEPT ![pid] = head] = word
    BY <2>2, <2>3, <2>4
  <2>6. Chain(word, pid, Rest \cup {pid})
    <3> HIDE DEF Rest
    <3>1. Chain([word EXCEPT ![pid] = head], pid, Rest \cup {pid})
      BY <2>2, <2>3, <2>4, ChainPush
    <3> QED
      BY <2>5, <3>1
  <2>7. Rest \cup {pid} = (1 .. diskCount' - 1) \ owned'
    BY <2>1, <2>2
  <2>8. PlacesInv'
    <3>1. Chain(word', diskHead', (1 .. diskCount' - 1) \ owned')
      BY <2>1, <2>6, <2>7
    <3> QED
      BY <2>1, <2>2, <3>1 DEF PlacesInv
  <2>9. HeaderInv' /\ NoFreeInv' /\ ContentsInv'
    BY <1>9, <2>1, <2>2 DEF MoveHead, HeaderInv, NoFreeInv, ContentsInv
  <2> QED
    BY <2>8, <2>9
<1>10. ASSUME NEW p \in Page, WritePage(p)
       PROVE  SpaceInv'
  <2>1. /\ pc = "idle" /\ pc' = pc /\ p \in owned /\ owned' = owned
        /\ word' = [word EXCEPT ![p] = p] /\ body' = [body EXCEPT ![p] = "data"]
        /\ content' = [content EXCEPT ![p] = "data"]
        /\ diskCount' = diskCount /\ diskHead' = diskHead
    BY <1>10 DEF WritePage
  <2>2. /\ word'[p] = p /\ body'[p] = content'[p]
        /\ \A q \in Page \ {p} : /\ word'[q] = word[q]
                                  /\ body'[q] = body[q]
                                  /\ content'[q] = content[q]
    BY <2>1 DEF TypeOK
  <2>3. Chain(word', diskHead, Free)
    <3>1. \A q \in Free : word'[q] = word[q]
      BY <1>0, <2>1, <2>2 DEF Page
    <3>2. Chain(word, diskHead, Free)
      BY <2>1 DEF PlacesInv
    <3> HIDE DEF Free
    <3> QED
      BY <3>1, <3>2, ChainFrame
  <2>4. PlacesInv'
    BY <2>1, <2>3 DEF PlacesInv
  <2>5. HeaderInv' /\ NoFreeInv'
    BY <1>10 DEF WritePage, HeaderInv, NoFreeInv
  <2>6. ContentsInv'
    BY <2>1, <2>2 DEF ContentsInv, TypeOK
  <2> QED
    BY <2>4, <2>5, <2>6
<1>11. CASE Close
  <2>1. /\ pc = "idle" /\ pc' = "closed" /\ diskCount' = diskCount
        /\ diskHead' = diskHead /\ word' = word /\ owned' = owned
    BY <1>11 DEF Close
  <2>2. HeaderInv' /\ NoFreeInv' /\ ContentsInv'
    BY <1>11 DEF Close, HeaderInv, NoFreeInv, ContentsInv
  <2>3. PlacesInv'
    BY <2>1 DEF PlacesInv
  <2> QED
    BY <2>2, <2>3
<1>12. CASE Crash
  <2>1. /\ pc' = "closed" /\ diskCount' = diskCount /\ head' = 0
        /\ diskHead' = diskHead /\ word' = word /\ owned' = owned
    BY <1>12 DEF Crash
  <2>2. ~ frees
    BY <1>12 DEF Crash, Undisturbed, TypeOK
  <2>3. HeaderInv' /\ NoFreeInv' /\ ContentsInv'
    BY <1>12, <2>2 DEF Crash, HeaderInv, NoFreeInv, ContentsInv
  <2>4. diskHead = 0 /\ Free = {} /\ owned \subseteq 1 .. diskCount - 1
    BY <2>2 DEF NoFreeInv
  <2>5. PlacesInv'
    BY <2>1, <2>4, EmptyChain DEF PlacesInv
  <2> QED
    BY <2>3, <2>5
<1>13. CASE UNCHANGED vars
  BY <1>13 DEF HeaderInv, PlacesInv, NoFreeInv, ContentsInv
<1>14. CASE OpenRejected
  BY <1>13, <1>14 DEF OpenRejected
<1> QED
  BY <1>1, <1>2, <1>3, <1>4, <1>5, <1>6, <1>7, <1>8, <1>9, <1>10, <1>11,
     <1>12, <1>13, <1>14 DEF Next

-----------------------------------------------------------------------------
(* FileInvariant: the inductive invariant, of every file the manager keeps. *)
THEOREM FileInvariant == Spec => []FileInv
<1>1. Init => FileInv
  BY FileAssumption, InitInv
<1>2. FileInv /\ [Next]_vars => FileInv'
  <2> SUFFICES ASSUME FileInv, [Next]_vars
               PROVE  FileInv'
    OBVIOUS
  <2>1. Undisturbed' => Undisturbed
    <3>1. frees' = frees /\ (crashes' = crashes \/ crashes' = crashes + 1)
      BY DEF Next, vars, header, memory, pages, caller, FlushHeader, Open, OpenRejected,
             Truncate, WriteZeros, FormatFile, Reuse, Extend, FormatPage,
             ReturnPage, LinkPage, MoveHead, WritePage, Close, Crash
    <3>2. crashes \in Nat
      BY FileAssumption DEF FileInv, TypeOK
    <3> QED
      BY <3>1, <3>2 DEF Undisturbed
  <2> QED
    BY <2>1, FileAssumption, TypeStep, SpaceStep DEF FileInv
<1> QED
  BY <1>1, <1>2, PTL DEF Spec

(* PagesStayIntact: a page the caller owns holds what it last wrote there, *)
(* carries its own number and is counted by the header in the file.        *)
THEOREM PagesStayIntact == Spec => []PagesIntact
<1>1. FileInv => PagesIntact
  <2> SUFFICES ASSUME TypeOK, SpaceInv, NEW p \in owned
               PROVE  word[p] = p /\ body[p] = content[p] /\ p < diskCount
    BY DEF FileInv, PagesIntact
  <2>1. word[p] = p /\ body[p] = content[p]
    BY DEF SpaceInv, ContentsInv
  <2>2. p \in 1 .. diskCount - 1 /\ diskCount \in Nat
    BY FileAssumption DEF SpaceInv, PlacesInv, TypeOK
  <2> QED
    BY <2>1, <2>2
<1> QED
  BY <1>1, FileInvariant, PTL

(* EveryPageHasOnePlace: the page that is being allocated belongs to       *)
(* nobody; between operations the list in the file ends, and the listed    *)
(* and the owned pages share nothing and are all the pages there are.      *)
THEOREM EveryPageHasOnePlace == Spec => []PagesHaveOnePlace
<1>1. FileInv => PagesHaveOnePlace
  <2> SUFFICES ASSUME SpaceInv
               PROVE  FreshPage /\ FreeListSane
    BY DEF FileInv, PagesHaveOnePlace
  <2>1. FreshPage
    BY DEF FreshPage, SpaceInv, PlacesInv
  <2>2. ASSUME pc = "idle"
        PROVE  /\ FreeList(diskHead)[MaxPages] = 0
               /\ Listed(diskHead) \cap owned = {}
               /\ Listed(diskHead) \cup owned = 1 .. diskCount - 1
    <3> DEFINE S == (1 .. diskCount - 1) \ owned
    <3>1. Chain(word, diskHead, S) /\ owned \subseteq 1 .. diskCount - 1
      BY <2>2 DEF SpaceInv, PlacesInv
    <3>2. 0 \notin S
      OBVIOUS
    <3>3. FreeList(diskHead)[MaxPages] = 0 /\ Listed(diskHead) = S
      <4> HIDE DEF S
      <4> QED
        BY <3>1, <3>2, FileAssumption, FreeListIsChain
    <3> QED
      BY <3>1, <3>3
  <2> QED
    BY <2>1, <2>2 DEF FreeListSane
<1> QED
  BY <1>1, FileInvariant, PTL
=============================================================================
