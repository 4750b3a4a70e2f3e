----------------------------- MODULE PageProofs -----------------------------
(***************************************************************************)
(* From a row to the page that stores it.                                  *)
(*                                                                         *)
(* RowCodec: rows come back from their bytes as they were meant, and are   *)
(* as wide as their table, apart from the copies that were too long; for   *)
(* any columns, literals and numbers of rows, over any statements.         *)
(*                                                                         *)
(* SlottedPage: the page's types, its layout, and that it implements       *)
(* RowStore; for every page size, header size, slot size and set of rows.  *)
(***************************************************************************)
EXTENDS SlottedPage, RowCodec, SequenceTheorems, WellFoundedInduction, TLAPS

-----------------------------------------------------------------------------
(* RowCodec.                                                               *)

ByteSeq == Seq(Nat)

(* Induction up to a bound: a set with 0 and the successor of each of its  *)
(* members below the bound has every number up to it.                      *)
LEMMA UpTo ==
    ASSUME NEW b \in Nat, NEW T, 0 \in T,
           \A k \in 0 .. b : k # 0 /\ k - 1 \in T => k \in T
    PROVE  0 .. b \subseteq T
<1> DEFINE out == (0 .. b) \ T
           below == OpToRel(<, Nat)
<1>1. SUFFICES ASSUME out # {}
               PROVE  FALSE
  OBVIOUS
<1>2. PICK n \in out : \A m \in out : <<m, n>> \notin below
  <2>1. out \subseteq Nat
    OBVIOUS
  <2>2. IsWellFoundedOn(below, Nat)
    BY NatLessThanWellFounded, Zenon
  <2> HIDE DEF out, below
  <2> QED
    BY <1>1, <2>1, <2>2, WFMin, Zenon
<1>3. FALSE
  <2>1. n \in 0 .. b /\ n # 0
    BY <1>2
  <2>2. ASSUME n - 1 \notin T
        PROVE  n - 1 \in out
    BY <2>1, <2>2
  <2>3. n - 1 \in Nat /\ n \in Nat /\ n - 1 < n
    BY <2>1
  <2>4. <<n - 1, n>> \in below
    BY <2>3 DEF OpToRel
  <2>5. n - 1 \in T
    <3> HIDE DEF out, below
    <3> QED
      BY <1>2, <2>2, <2>4
  <2>6. n \in T
    BY <2>1, <2>5
  <2>7. n \notin T
    BY <1>2
  <2> QED
    BY <2>6, <2>7
<1> QED
  BY <1>3

-----------------------------------------------------------------------------
(* Joining, as FlattenSeq does: f[k] is what the first k lists make.       *)

Joins(f, list) ==
    f[0] = <<>> /\ \A k \in 1 .. Len(list) : f[k] = f[k - 1] \o list[k]

(* A list of lists has a join that is built up front to back.              *)
LEMMA JoinExists ==
    ASSUME NEW list \in Seq(ByteSeq)
    PROVE  \E f \in [0 .. Len(list) -> ByteSeq] : Joins(f, list)
<1> DEFINE n == Len(list)
           J(f, m) == f[0] = <<>> /\ \A k \in 1 .. m : f[k] = f[k - 1] \o list[k]
           T == {m \in 0 .. n : \E f \in [0 .. m -> ByteSeq] : J(f, m)}
<1>1. n \in Nat
  OBVIOUS
<1>2. 0 \in T
  <2> DEFINE f == [k \in 0 .. 0 |-> <<>>]
  <2>1. f \in [0 .. 0 -> ByteSeq] /\ J(f, 0)
    BY DEF ByteSeq
  <2> HIDE DEF f, n, J
  <2>2. \E e \in [0 .. 0 -> ByteSeq] : J(e, 0)
    BY <2>1
  <2>3. 0 \in 0 .. n
    BY <1>1
  <2> QED
    BY <2>2, <2>3
<1>3. ASSUME NEW m \in 0 .. n, m # 0, m - 1 \in T
      PROVE  m \in T
  <2>1. PICK f \in [0 .. m - 1 -> ByteSeq] : J(f, m - 1)
    BY <1>3
  <2>2. m \in 1 .. n /\ m - 1 \in 0 .. m - 1 /\ m \in Nat
    BY <1>1, <1>3
  <2> DEFINE w == f[m - 1] \o list[m]
             g == [k \in 0 .. m |-> IF k = m THEN w ELSE f[k]]
  <2>3. w \in ByteSeq
    BY <2>1, <2>2 DEF ByteSeq
  <2>4. g \in [0 .. m -> ByteSeq] /\ g[m] = w /\ \A k \in 0 .. m - 1 : g[k] = f[k]
    <3> HIDE DEF w
    <3> QED
      BY <2>1, <2>2, <2>3
  <2>5. ASSUME NEW k \in 1 .. m
        PROVE  g[k] = g[k - 1] \o list[k]
    <3>1. k - 1 \in 0 .. m - 1 /\ g[k - 1] = f[k - 1]
      BY <2>2, <2>4
    <3>2. CASE k = m
      BY <2>4, <3>1, <3>2
    <3>3. CASE k # m
      <4>1. k \in 1 .. m - 1 /\ k \in 0 .. m - 1
        BY <2>2, <3>3
      <4> HIDE DEF g
      <4> QED
        BY <2>1, <2>4, <3>1, <4>1
    <3> QED
      BY <3>2, <3>3
  <2>6. g[0] = <<>>
    BY <2>1, <2>2, <2>4
  <2> HIDE DEF g
  <2> QED
    BY <2>4, <2>5, <2>6
<1>4. 0 .. n \subseteq T
  <2> HIDE DEF T, n
  <2> QED
    BY <1>1, <1>2, <1>3, UpTo
<1>5. n \in T
  <2> HIDE DEF T, n
  <2> QED
    BY <1>1, <1>4
<1> QED
  BY <1>5 DEF Joins

(* FlattenSeq is that join.                                                *)
LEMMA FlattenIsJoin ==
    ASSUME NEW list \in Seq(ByteSeq), NEW f \in [0 .. Len(list) -> ByteSeq],
           Joins(f, list)
    PROVE  FlattenSeq(list) = f[Len(list)]
<1> DEFINE n == Len(list)
           Rec(g) == [i \in 1 .. n |-> IF i = 1 THEN list[i] ELSE g[i - 1] \o list[i]]
           found == CHOOSE g : g = Rec(g)
           less == [i \in 1 .. n |-> f[i]]
<1>1. CASE n = 0
  <2>1. list = <<>> /\ FlattenSeq(list) = list /\ f[n] = <<>>
    BY <1>1 DEF FlattenSeq, Joins
  <2> QED
    BY <2>1
<1>2. CASE n # 0
  <2>1. n \in Nat /\ n > 0
    BY <1>2
  <2>2. f[1] = list[1]
    <3>1. list[1] \in ByteSeq /\ f[1] = <<>> \o list[1]
      BY <2>1 DEF Joins
    <3> QED
      BY <3>1, ConcatEmptySeq DEF ByteSeq
  <2>3. less = Rec(less)
    <3>1. ASSUME NEW i \in 1 .. n
          PROVE  less[i] = Rec(less)[i]
      <4>1. CASE i = 1
        BY <2>2, <4>1
      <4>2. CASE i # 1
        <5>1. i - 1 \in 1 .. n
          BY <2>1, <4>2
        <5> QED
          BY <4>2, <5>1 DEF Joins
      <4> QED
        BY <4>1, <4>2
    <3> QED
      BY <3>1
  <2>4. found = Rec(found)
    <3> HIDE DEF Rec, less
    <3> QED
      BY <2>3
  <2>5. FlattenSeq(list) = found[n]
    BY <1>2 DEF FlattenSeq
  <2>6. \A i \in 1 .. n : found[i] = Rec(found)[i]
    BY <2>4
  <2> HIDE DEF found
  <2> DEFINE N == {k \in 0 .. n : k = 0 \/ found[k] = f[k]}
  <2>7. 0 \in N
    BY <2>1
  <2>8. ASSUME NEW k \in 0 .. n, k # 0, k - 1 \in N
        PROVE  k \in N
    <3>1. k \in 1 .. n
      BY <2>1, <2>8
    <3>2. CASE k = 1
      BY <2>2, <2>6, <3>1, <3>2
    <3>3. CASE k # 1
      <4>1. found[k - 1] = f[k - 1]
        BY <2>1, <2>8, <3>3
      <4>2. found[k] = found[k - 1] \o list[k]
        BY <2>6, <3>1, <3>3
      <4> QED
        BY <3>1, <4>1, <4>2 DEF Joins
    <3> QED
      BY <3>2, <3>3
  <2>9. 0 .. n \subseteq N
    <3> HIDE DEF N, n
    <3> QED
      BY <2>1, <2>7, <2>8, UpTo
  <2> QED
    BY <2>1, <2>5, <2>9
<1> QED
  BY <1>1, <1>2

(* What the first lists make, of the same lists made a function.           *)
LEMMA FlattenPrefix ==
    ASSUME NEW n \in Nat, NEW list \in [1 .. n -> ByteSeq],
           NEW f \in [0 .. n -> ByteSeq], Joins(f, list), NEW m \in 0 .. n
    PROVE  FlattenSeq([k \in 1 .. m |-> list[k]]) = f[m]
<1> DEFINE part == [k \in 1 .. m |-> list[k]]
           less == [k \in 0 .. m |-> f[k]]
<1>1. m \in Nat /\ part \in [1 .. m -> ByteSeq] /\ less \in [0 .. m -> ByteSeq]
  OBVIOUS
<1>2. part \in Seq(ByteSeq) /\ Len(part) = m
  <2> HIDE DEF part
  <2> QED
    BY <1>1
<1>3. Len(list) = n
  OBVIOUS
<1>4. Joins(less, part)
  <2>1. less[0] = <<>>
    BY <1>1 DEF Joins
  <2>2. ASSUME NEW k \in 1 .. m
        PROVE  less[k] = less[k - 1] \o part[k]
    <3>1. k \in 1 .. n /\ less[k] = f[k] /\ less[k - 1] = f[k - 1] /\ part[k] = list[k]
      OBVIOUS
    <3> HIDE DEF less, part
    <3> QED
      BY <1>3, <3>1 DEF Joins
  <2> HIDE DEF less, part
  <2> QED
    BY <1>2, <2>1, <2>2 DEF Joins
<1>5. less[m] = f[m]
  OBVIOUS
<1> HIDE DEF less, part
<1>6. FlattenSeq(part) = less[m]
  BY <1>1, <1>2, <1>4, FlattenIsJoin
<1> QED
  BY <1>5, <1>6 DEF part

-----------------------------------------------------------------------------
(* Padding and stripping.                                                  *)

(* What ljust does: the bytes, then zero bytes up to the width; bytes that *)
(* are longer than it stay as they are.                                    *)
LEMMA Padded ==
    ASSUME NEW bytes \in ByteSeq, NEW width \in Nat
    PROVE  /\ Pad(bytes, width) \in ByteSeq
           /\ Len(Pad(bytes, width)) = IF Len(bytes) > width THEN Len(bytes) ELSE width
           /\ \A i \in 1 .. Len(bytes) : Pad(bytes, width)[i] = bytes[i]
           /\ \A i \in Len(bytes) + 1 .. Len(Pad(bytes, width)) :
                  Pad(bytes, width)[i] = NUL
<1> DEFINE room == IF Len(bytes) > width THEN 0 ELSE width - Len(bytes)
           fill == [k \in 1 .. width - Len(bytes) |-> NUL]
<1>1. Len(bytes) \in Nat /\ room \in Nat /\ bytes \in Seq(Nat)
  BY DEF ByteSeq
<1>2. 1 .. width - Len(bytes) = 1 .. room
  BY <1>1
<1>3. fill \in [1 .. room -> Nat] /\ \A k \in 1 .. room : fill[k] = NUL
  BY <1>2 DEF NUL
<1>4. Pad(bytes, width) = bytes \o fill
  BY DEF Pad
<1>5. fill \in Seq(Nat) /\ Len(fill) = room
  <2> HIDE DEF fill, room
  <2> QED
    BY <1>1, <1>3
<1>6. Len(bytes) + room = IF Len(bytes) > width THEN Len(bytes) ELSE width
  BY <1>1
<1> HIDE DEF fill, room
<1>7. /\ bytes \o fill \in Seq(Nat) /\ Len(bytes \o fill) = Len(bytes) + room
      /\ \A i \in 1 .. Len(bytes) + room : (bytes \o fill)[i] =
            IF i <= Len(bytes) THEN bytes[i] ELSE fill[i - Len(bytes)]
  BY <1>1, <1>5, ConcatProperties
<1> QED
  BY <1>1, <1>3, <1>4, <1>6, <1>7 DEF ByteSeq

(* Where the zero bytes at the end begin.                                  *)
EndsAt(bytes, m) ==
    /\ m \in 0 .. Len(bytes)
    /\ m = 0 \/ bytes[m] # NUL
    /\ \A i \in m + 1 .. Len(bytes) : bytes[i] = NUL

(* There is one such place in every value.                                 *)
LEMMA EndExists ==
    ASSUME NEW bytes \in ByteSeq
    PROVE  \E m \in 0 .. Len(bytes) : EndsAt(bytes, m)
<1> DEFINE n == Len(bytes)
           T == {k \in 0 .. n : \E m \in 0 .. k :
                    /\ m = 0 \/ bytes[m] # NUL
                    /\ \A i \in m + 1 .. k : bytes[i] = NUL}
<1>1. n \in Nat
  BY DEF ByteSeq
<1>2. 0 \in T
  BY <1>1
<1>3. ASSUME NEW k \in 0 .. n, k # 0, k - 1 \in T
      PROVE  k \in T
  <2>1. k \in Nat /\ k > 0
    BY <1>1, <1>3
  <2>2. CASE bytes[k] # NUL
    <3>1. \A i \in k + 1 .. k : FALSE
      BY <2>1
    <3> QED
      BY <2>1, <2>2, <3>1
  <2>3. CASE bytes[k] = NUL
    <3>1. PICK m \in 0 .. k - 1 :
              /\ m = 0 \/ bytes[m] # NUL
              /\ \A i \in m + 1 .. k - 1 : bytes[i] = NUL
      BY <1>3
    <3>2. \A i \in m + 1 .. k : bytes[i] = NUL
      BY <2>1, <2>3, <3>1
    <3>3. m \in 0 .. k
      BY <2>1
    <3> QED
      BY <3>1, <3>2, <3>3
  <2> QED
    BY <2>2, <2>3
<1>4. 0 .. n \subseteq T
  <2> HIDE DEF T, n
  <2> QED
    BY <1>1, <1>2, <1>3, UpTo
<1>5. n \in T
  <2> HIDE DEF T, n
  <2> QED
    BY <1>1, <1>4
<1> QED
  BY <1>5 DEF EndsAt

(* Strip cuts there.                                                       *)
LEMMA StripIs ==
    ASSUME NEW bytes \in ByteSeq, NEW m, EndsAt(bytes, m)
    PROVE  Strip(bytes) = SubSeq(bytes, 1, m)
<1> DEFINE S == {0} \cup {i \in DOMAIN bytes : bytes[i] # NUL}
<1>1. DOMAIN bytes = 1 .. Len(bytes) /\ Len(bytes) \in Nat
  BY LenProperties DEF ByteSeq
<1>2. m \in S /\ S \subseteq Nat /\ m \in Nat
  BY <1>1 DEF EndsAt
<1>3. \A i \in S : m >= i
  BY <1>1 DEF EndsAt
<1>4. Strip(bytes) = SubSeq(bytes, 1, Max(S))
  BY DEF Strip
<1> HIDE DEF S
<1>5. Max(S) \in S /\ \A i \in S : Max(S) >= i
  BY <1>2, <1>3 DEF Max
<1> DEFINE top == Max(S)
<1>6. top \in Nat /\ m >= top /\ top >= m
  BY <1>2, <1>3, <1>5
<1> HIDE DEF top
<1>7. top = m
  BY <1>2, <1>6
<1> QED
  BY <1>4, <1>7 DEF top

LEMMA Beginning ==
    ASSUME NEW bytes \in ByteSeq, NEW m \in 0 .. Len(bytes)
    PROVE  /\ SubSeq(bytes, 1, m) \in ByteSeq
           /\ Len(SubSeq(bytes, 1, m)) = m
           /\ \A i \in 1 .. m : SubSeq(bytes, 1, m)[i] = bytes[i]
<1>1. Len(bytes) \in Nat /\ m \in Int /\ 1 \in Int /\ \A i \in 1 .. m : bytes[i] \in Nat
  BY DEF ByteSeq
<1> QED
  BY <1>1, SubSeqProperties DEF ByteSeq

(* Zero bytes added at the end are stripped again, and what is left of a   *)
(* text is a text.                                                         *)
LEMMA Stripped ==
    ASSUME NEW bytes \in ByteSeq
    PROVE  /\ Strip(bytes) \in ByteSeq
           /\ Len(Strip(bytes)) <= Len(bytes)
           /\ Strip(Strip(bytes)) = Strip(bytes)
           /\ IsText(bytes) => IsText(Strip(bytes))
           /\ \A width \in Nat :
                  Len(bytes) <= width => Strip(Pad(bytes, width)) = Strip(bytes)
<1>1. PICK m \in 0 .. Len(bytes) : EndsAt(bytes, m)
  BY EndExists
<1>2. Len(bytes) \in Nat /\ m \in Nat
  BY DEF ByteSeq
<1>3. Strip(bytes) = SubSeq(bytes, 1, m)
  BY <1>1, StripIs
<1> DEFINE s == Strip(bytes)
<1>4. s \in ByteSeq /\ Len(s) = m /\ \A i \in 1 .. m : s[i] = bytes[i]
  BY <1>3, Beginning
<1>5. Len(s) <= Len(bytes)
  BY <1>2, <1>4
<1> HIDE DEF s
<1>6. Strip(s) = s
  <2>1. EndsAt(s, m)
    BY <1>1, <1>2, <1>4 DEF EndsAt
  <2>2. SubSeq(s, 1, m) = s
    BY <1>4, SubSeqFull DEF ByteSeq
  <2> QED
    BY <1>4, <2>1, <2>2, StripIs
<1>7. ASSUME IsText(bytes)
      PROVE  IsText(s)
  <2>1. DOMAIN s = 1 .. m /\ DOMAIN bytes = 1 .. Len(bytes)
    BY <1>4, LenProperties DEF ByteSeq
  <2>2. ASSUME NEW i \in 1 .. m, s[i] = Lead
        PROVE  i < m /\ s[i + 1] = Trail
    <3>1. i \in 1 .. Len(bytes) /\ bytes[i] = Lead
      BY <1>2, <1>4, <2>2
    <3>2. i < Len(bytes) /\ bytes[i + 1] = Trail
      BY <1>7, <2>1, <3>1 DEF IsText
    <3>3. i # m
      <4>1. m + 1 \in m + 1 .. Len(bytes) => bytes[m + 1] = NUL
        BY <1>1 DEF EndsAt
      <4> QED
        BY <1>2, <3>2, <4>1 DEF NUL, Trail
    <3> QED
      BY <1>2, <1>4, <3>2, <3>3
  <2>3. ASSUME NEW i \in 1 .. m, s[i] = Trail
        PROVE  i > 1 /\ s[i - 1] = Lead
    <3>1. i \in 1 .. Len(bytes) /\ bytes[i] = Trail
      BY <1>2, <1>4, <2>3
    <3>2. i > 1 /\ bytes[i - 1] = Lead
      BY <1>7, <2>1, <3>1 DEF IsText
    <3> QED
      BY <1>2, <1>4, <3>2
  <2> QED
    BY <1>4, <2>1, <2>2, <2>3 DEF IsText
<1>8. ASSUME NEW width \in Nat, Len(bytes) <= width
      PROVE  Strip(Pad(bytes, width)) = s
  <2> DEFINE p == Pad(bytes, width)
  <2>1. /\ p \in ByteSeq /\ Len(p) = width
        /\ \A i \in 1 .. Len(bytes) : p[i] = bytes[i]
        /\ \A i \in Len(bytes) + 1 .. width : p[i] = NUL
    BY <1>2, <1>8, Padded
  <2> HIDE DEF p
  <2>2. EndsAt(p, m)
    <3>1. m \in 0 .. Len(p) /\ (m = 0 \/ p[m] # NUL)
      BY <1>1, <1>2, <1>8, <2>1 DEF EndsAt
    <3>2. \A i \in m + 1 .. Len(p) : p[i] = NUL
      BY <1>1, <1>2, <1>8, <2>1 DEF EndsAt
    <3> QED
      BY <3>1, <3>2 DEF EndsAt
  <2>3. Strip(p) = SubSeq(p, 1, m) /\ m \in 0 .. Len(p)
    BY <2>1, <2>2, StripIs DEF EndsAt
  <2>4. SubSeq(p, 1, m) = s
    <3>1. /\ SubSeq(p, 1, m) \in ByteSeq /\ Len(SubSeq(p, 1, m)) = m
          /\ \A i \in 1 .. m : SubSeq(p, 1, m)[i] = p[i]
      BY <2>1, <2>3, Beginning
    <3>2. \A i \in 1 .. m : p[i] = s[i]
      BY <1>2, <1>4, <2>1
    <3> QED
      BY <1>4, <3>1, <3>2, SeqEqual DEF ByteSeq
  <2> QED
    BY <2>3, <2>4 DEF p
<1> QED
  BY <1>4, <1>5, <1>6, <1>7, <1>8 DEF s

(* A part within the first of two joined lists is a part of that list.     *)
LEMMA FrontOfConcat ==
    ASSUME NEW s \in Seq(Nat), NEW t \in Seq(Nat), NEW a \in Nat, NEW w \in Nat,
           a + w <= Len(s)
    PROVE  SubSeq(s \o t, a + 1, a + w) = SubSeq(s, a + 1, a + w)
<1>1. CASE w = 0
  <2>1. SubSeq(s \o t, a + 1, a + w) = <<>>
    BY <1>1, SubSeqEmpty
  <2>2. SubSeq(s, a + 1, a + w) = <<>>
    BY <1>1, SubSeqEmpty
  <2> QED
    BY <2>1, <2>2
<1>2. CASE w # 0
  <2>1. a + 1 \in 1 .. Len(s) /\ a + w \in 1 .. Len(s)
    BY <1>2
  <2> QED
    BY <2>1, SubSeqOfConcat1
<1> QED
  BY <1>1, <1>2

(* The end of two joined lists is the second.                              *)
LEMMA BackOfConcat ==
    ASSUME NEW s \in Seq(Nat), NEW t \in Seq(Nat)
    PROVE  SubSeq(s \o t, Len(s) + 1, Len(s) + Len(t)) = t
<1>1. Len(s) \in Nat /\ Len(t) \in Nat
  OBVIOUS
<1>2. CASE Len(t) = 0
  <2>1. SubSeq(s \o t, Len(s) + 1, Len(s) + Len(t)) = <<>>
    BY <1>1, <1>2, SubSeqEmpty
  <2>2. t = <<>>
    BY <1>2
  <2> QED
    BY <2>1, <2>2
<1>3. CASE Len(t) # 0
  <2>1. /\ Len(s) + 1 \in Len(s) + 1 .. Len(s) + Len(t)
        /\ Len(s) + Len(t) \in Len(s) + 1 .. Len(s) + Len(t)
        /\ (Len(s) + 1) - Len(s) = 1 /\ (Len(s) + Len(t)) - Len(s) = Len(t)
    BY <1>1, <1>3
  <2>2. SubSeq(s \o t, Len(s) + 1, Len(s) + Len(t)) = SubSeq(t, 1, Len(t))
    BY <2>1, SubSeqOfConcat2
  <2> QED
    BY <2>2, SubSeqFull
<1> QED
  BY <1>2, <1>3

-----------------------------------------------------------------------------
(* The columns of a row.                                                   *)

LastColumn == Len(Columns)
Row == [DOMAIN Columns -> ByteSeq]

LEMMA ColumnTypes ==
    /\ LastColumn \in Nat /\ DOMAIN Columns = 1 .. LastColumn
    /\ \A c \in 1 .. LastColumn :
          /\ Width(c) \in Nat
          /\ IsInt(c) => Width(c) = 1
<1>1. /\ Columns \in Seq([kind : {"INT", "VARCHAR"}, width : Nat])
      /\ \A c \in DOMAIN Columns : Columns[c].kind = "INT" => Columns[c].width = 1
  BY CodecAssumption
<1>2. LastColumn \in Nat /\ DOMAIN Columns = 1 .. LastColumn
  BY <1>1, LenProperties DEF LastColumn
<1>3. \A c \in 1 .. LastColumn : Columns[c] \in [kind : {"INT", "VARCHAR"}, width : Nat]
  BY <1>1, <1>2, ElementOfSeq DEF LastColumn
<1> QED
  BY <1>1, <1>2, <1>3 DEF Width, IsInt

(* Each column begins where the one before it ends, and the row ends with  *)
(* the last.                                                               *)
LEMMA Offsets ==
    /\ Offset(1) = 0 /\ RowWidth = Offset(LastColumn + 1) /\ RowWidth \in Nat
    /\ \A c \in 1 .. LastColumn :
          /\ Offset(c) \in Nat
          /\ Offset(c + 1) = Offset(c) + Width(c)
          /\ \A d \in c + 1 .. LastColumn + 1 : Offset(c) + Width(c) <= Offset(d)
<1> DEFINE blank == [k \in 1 .. LastColumn |-> Pad(<<>>, Width(k))]
<1>1. LastColumn \in Nat /\ <<>> \in ByteSeq /\ Len(<<>>) = 0
  BY ColumnTypes DEF ByteSeq
<1>2. \A k \in 1 .. LastColumn : Pad(<<>>, Width(k)) \in ByteSeq
                           /\ Len(Pad(<<>>, Width(k))) = Width(k)
  <2> SUFFICES ASSUME NEW k \in 1 .. LastColumn
               PROVE  Pad(<<>>, Width(k)) \in ByteSeq
                      /\ Len(Pad(<<>>, Width(k))) = Width(k)
    OBVIOUS
  <2> DEFINE w == Width(k)
  <2>1. w \in Nat
    BY ColumnTypes
  <2> HIDE DEF w
  <2>2. /\ Pad(<<>>, w) \in ByteSeq
        /\ Len(Pad(<<>>, w)) = IF Len(<<>>) > w THEN Len(<<>>) ELSE w
    BY <1>1, <2>1, Padded
  <2> QED
    BY <1>1, <2>1, <2>2 DEF w
<1>3. blank \in [1 .. LastColumn -> ByteSeq] /\ blank \in Seq(ByteSeq) /\ Len(blank) = LastColumn
  <2>1. blank \in [1 .. LastColumn -> ByteSeq]
    BY <1>2
  <2> HIDE DEF blank
  <2> QED
    BY <1>1, <2>1
<1>4. PICK f \in [0 .. LastColumn -> ByteSeq] : Joins(f, blank)
  <2> HIDE DEF blank
  <2> QED
    BY <1>3, JoinExists
<1>5. ASSUME NEW c \in 1 .. LastColumn + 1
      PROVE  Offset(c) = Len(f[c - 1])
  <2> DEFINE m == c - 1
  <2>1. m \in 0 .. LastColumn
    BY <1>1
  <2>2. [k \in 1 .. m |-> blank[k]] = [k \in 1 .. c - 1 |-> Pad(<<>>, Width(k))]
    BY <1>1
  <2>3. FlattenSeq([k \in 1 .. m |-> blank[k]]) = f[m]
    <3> HIDE DEF blank, m
    <3> QED
      BY <1>1, <1>3, <1>4, <2>1, FlattenPrefix
  <2> QED
    BY <2>2, <2>3 DEF Offset
<1>6. Offset(1) = 0
  BY <1>1, <1>4, <1>5 DEF Joins
<1>7. \A c \in 1 .. LastColumn + 1 : Offset(c) \in Nat
  <2>1. \A c \in 1 .. LastColumn + 1 : f[c - 1] \in ByteSeq
    BY <1>1
  <2> QED
    BY <1>5, <2>1 DEF ByteSeq
<1>8. ASSUME NEW c \in 1 .. LastColumn
      PROVE  Offset(c + 1) = Offset(c) + Width(c)
  <2>1. f[c] = f[c - 1] \o blank[c]
    BY <1>3, <1>4 DEF Joins
  <2>2. f[c - 1] \in Seq(Nat) /\ blank[c] \in Seq(Nat) /\ Len(blank[c]) = Width(c)
    <3>1. blank[c] = Pad(<<>>, Width(c)) /\ c - 1 \in 0 .. LastColumn
      BY <1>1
    <3> HIDE DEF blank
    <3> QED
      BY <1>2, <3>1 DEF ByteSeq
  <2>3. Len(f[c]) = Len(f[c - 1]) + Width(c)
    <3> DEFINE s == f[c - 1]
               t == blank[c]
    <3>1. s \in Seq(Nat) /\ t \in Seq(Nat) /\ f[c] = s \o t /\ Len(t) = Width(c)
      BY <2>1, <2>2
    <3> HIDE DEF s, t
    <3>2. Len(s \o t) = Len(s) + Len(t)
      BY <3>1, ConcatProperties
    <3> QED
      BY <3>1, <3>2 DEF s
  <2>4. c \in 1 .. LastColumn + 1 /\ c + 1 \in 1 .. LastColumn + 1 /\ (c + 1) - 1 = c
    BY <1>1
  <2> QED
    BY <1>5, <2>3, <2>4
<1>9. RowWidth = Offset(LastColumn + 1) /\ RowWidth \in Nat
  BY <1>1, <1>7 DEF RowWidth, LastColumn
<1>10. ASSUME NEW e \in 1 .. LastColumn + 1, NEW d \in e .. LastColumn + 1
       PROVE  Offset(e) <= Offset(d)
  <2> DEFINE n == d - e
             T == {k \in 0 .. n : Offset(e) <= Offset(e + k)}
  <2>1. n \in Nat /\ e + n = d /\ e + 0 = e
    BY <1>1
  <2>2. 0 \in T
    BY <1>7, <2>1
  <2>3. ASSUME NEW k \in 0 .. n, k # 0, k - 1 \in T
        PROVE  k \in T
    <3> DEFINE c == e + (k - 1)
    <3>1. c \in 1 .. LastColumn /\ c \in 1 .. LastColumn + 1 /\ c + 1 = e + k
          /\ c + 1 \in 1 .. LastColumn + 1
      BY <1>1, <2>3
    <3>2. Offset(e) <= Offset(c)
      BY <2>3
    <3> HIDE DEF c
    <3>3. Offset(c + 1) = Offset(c) + Width(c) /\ Width(c) \in Nat /\ Offset(c) \in Nat
      BY <1>7, <1>8, <3>1, ColumnTypes
    <3>4. Offset(e) <= Offset(c + 1)
      BY <1>7, <3>2, <3>3
    <3> QED
      BY <3>1, <3>4
  <2>4. 0 .. n \subseteq T
    <3> HIDE DEF T, n
    <3> QED
      BY <2>1, <2>2, <2>3, UpTo
  <2>5. n \in T
    <3> HIDE DEF T, n
    <3> QED
      BY <2>1, <2>4
  <2> QED
    BY <2>1, <2>5
<1> HIDE DEF blank
<1>11. ASSUME NEW c \in 1 .. LastColumn
       PROVE  /\ Offset(c) \in Nat
              /\ \A d \in c + 1 .. LastColumn + 1 : Offset(c) + Width(c) <= Offset(d)
  <2>1. c \in 1 .. LastColumn + 1 /\ c + 1 \in 1 .. LastColumn + 1
    BY <1>1
  <2> QED
    BY <1>7, <1>8, <1>10, <2>1
<1> QED
  BY <1>6, <1>8, <1>9, <1>11

(* The bytes of a row: how many, and which of them are a column's.         *)
FitsAll(row) == \A c \in 1 .. LastColumn : Len(row[c]) <= Width(c)

(* The bytes of a row: if all values fit they have each at the offset of   *)
(* its column and are as many as the table says; if one does not they are  *)
(* more.                                                                   *)
LEMMA Encoded ==
    ASSUME NEW row \in Row
    PROVE  /\ Encode(row) \in ByteSeq
           /\ Len(Encode(row)) >= RowWidth
           /\ Len(Encode(row)) = RowWidth <=> FitsAll(row)
           /\ FitsAll(row) =>
                \A c \in 1 .. LastColumn : Chunk(Encode(row), c) = Pad(row[c], Width(c))
<1> DEFINE parts == [c \in 1 .. LastColumn |-> Pad(row[c], Width(c))]
<1>1. /\ LastColumn \in Nat /\ DOMAIN Columns = 1 .. LastColumn
      /\ \A c \in 1 .. LastColumn : Width(c) \in Nat /\ row[c] \in ByteSeq
                              /\ Len(row[c]) \in Nat
  BY ColumnTypes DEF Row, ByteSeq
<1>2. ASSUME NEW c \in 1 .. LastColumn
      PROVE  /\ Pad(row[c], Width(c)) \in ByteSeq
             /\ Len(parts[c]) \in Nat /\ Len(parts[c]) >= Width(c)
             /\ Len(parts[c]) = Width(c) <=> Len(row[c]) <= Width(c)
  <2> DEFINE w == Width(c)
             b == row[c]
  <2>1. w \in Nat /\ b \in ByteSeq /\ Len(b) \in Nat
    BY <1>1
  <2>2. parts[c] = Pad(b, w)
    OBVIOUS
  <2> HIDE DEF w, b, parts
  <2>3. /\ Pad(b, w) \in ByteSeq
        /\ Len(Pad(b, w)) = IF Len(b) > w THEN Len(b) ELSE w
    BY <2>1, Padded
  <2> QED
    BY <2>1, <2>2, <2>3 DEF w, b
<1>3. parts \in [1 .. LastColumn -> ByteSeq] /\ parts \in Seq(ByteSeq) /\ Len(parts) = LastColumn
  <2>1. parts \in [1 .. LastColumn -> ByteSeq]
    BY <1>2
  <2> HIDE DEF parts
  <2> QED
    BY <1>1, <2>1
<1>4. PICK f \in [0 .. LastColumn -> ByteSeq] : Joins(f, parts)
  <2> HIDE DEF parts
  <2> QED
    BY <1>3, JoinExists
<1>5. Encode(row) = f[LastColumn]
  <2>1. Encode(row) = FlattenSeq(parts)
    BY <1>1 DEF Encode
  <2> HIDE DEF parts
  <2> QED
    BY <1>3, <1>4, <2>1, FlattenIsJoin
<1> DEFINE Fit(k) == \A c \in 1 .. k : Len(row[c]) <= Width(c)
           Own(k, c) == SubSeq(f[k], Offset(c) + 1, Offset(c) + Width(c))
           Good(k) == /\ Len(f[k]) >= Offset(k + 1)
                      /\ Len(f[k]) = Offset(k + 1) <=> Fit(k)
                      /\ Fit(k) => \A c \in 1 .. k : Own(k, c) = parts[c]
           T == {k \in 0 .. LastColumn : Good(k)}
<1>6. 0 \in T
  <2>1. f[0] = <<>> /\ Len(f[0]) = 0 /\ Offset(0 + 1) = 0
    BY <1>4, Offsets DEF Joins
  <2> QED
    BY <1>1, <2>1
<1>7. ASSUME NEW k \in 0 .. LastColumn, k # 0, k - 1 \in T
      PROVE  k \in T
  <2>1. k \in 1 .. LastColumn /\ k \in Nat /\ (k - 1) + 1 = k /\ k - 1 \in 0 .. LastColumn
    BY <1>1, <1>7
  <2>2. Good(k - 1)
    BY <1>7
  <2> DEFINE s == f[k - 1]
             t == parts[k]
  <2>3. f[k] = s \o t
    BY <1>3, <1>4, <2>1 DEF Joins
  <2>4. s \in Seq(Nat) /\ t \in Seq(Nat) /\ Len(s) \in Nat /\ Len(t) \in Nat
    BY <1>2, <2>1 DEF ByteSeq
  <2>5. Len(f[k]) = Len(s) + Len(t)
    <3> HIDE DEF s, t
    <3> QED
      BY <2>3, <2>4, ConcatProperties
  <2>6. /\ Len(t) >= Width(k) /\ (Len(t) = Width(k) <=> Len(row[k]) <= Width(k))
        /\ Width(k) \in Nat /\ Offset(k) \in Nat
        /\ Offset(k + 1) = Offset(k) + Width(k)
    BY <1>1, <1>2, <2>1, Offsets
  <2>7. Len(s) >= Offset(k) /\ (Len(s) = Offset(k) <=> Fit(k - 1))
    BY <2>1, <2>2
  <2>8. Fit(k) <=> Fit(k - 1) /\ Len(row[k]) <= Width(k)
    <3>1. \A c \in 1 .. k : c \in 1 .. k - 1 \/ c = k
      BY <2>1
    <3>2. \A c \in 1 .. k - 1 : c \in 1 .. k
      BY <2>1
    <3> QED
      BY <2>1, <3>1, <3>2
  <2>9. ASSUME Fit(k), NEW c \in 1 .. k
        PROVE  Own(k, c) = parts[c]
    <3>1. Len(s) = Offset(k) /\ Len(t) = Width(k)
      BY <2>6, <2>7, <2>8, <2>9
    <3>2. CASE c = k
      BY <2>3, <2>4, <3>1, <3>2, BackOfConcat
    <3>3. CASE c # k
      <4>1. c \in 1 .. k - 1 /\ c \in 1 .. LastColumn
        BY <1>1, <2>1, <3>3
      <4>2. Own(k - 1, c) = parts[c]
        BY <2>2, <2>8, <2>9, <4>1
      <4>3. Offset(c) \in Nat /\ Width(c) \in Nat /\ Offset(c) + Width(c) <= Offset(k)
        <5>1. k \in c + 1 .. LastColumn + 1
          BY <1>1, <2>1, <4>1
        <5> QED
          BY <1>1, <4>1, <5>1, Offsets
      <4>4. Own(k, c) = Own(k - 1, c)
        <5> DEFINE a == Offset(c)
                   w == Width(c)
        <5>1. a \in Nat /\ w \in Nat /\ a + w <= Len(s)
          BY <3>1, <4>3
        <5> HIDE DEF a, w, s, t
        <5>2. SubSeq(s \o t, a + 1, a + w) = SubSeq(s, a + 1, a + w)
          BY <2>4, <5>1, FrontOfConcat
        <5> QED
          BY <2>3, <5>2 DEF a, w, s
      <4> QED
        BY <4>2, <4>4
    <3> QED
      BY <3>2, <3>3
  <2>10. Good(k)
    <3> DEFINE ls == Len(s)
               lt == Len(t)
               o == Offset(k)
               w == Width(k)
    <3>1. /\ Len(f[k]) = ls + lt /\ Offset(k + 1) = o + w
          /\ ls \in Nat /\ lt \in Nat /\ o \in Nat /\ w \in Nat
          /\ ls >= o /\ lt >= w
      BY <2>4, <2>5, <2>6, <2>7
    <3>2. ls = o /\ lt = w <=> Fit(k)
      <4> HIDE DEF Fit, s, t
      <4> QED
        BY <2>6, <2>7, <2>8
    <3> HIDE DEF Fit, ls, lt, o, w
    <3>3. /\ Len(f[k]) >= Offset(k + 1)
          /\ Len(f[k]) = Offset(k + 1) <=> ls = o /\ lt = w
      BY <3>1
    <3> HIDE DEF Own
    <3> QED
      BY <2>9, <3>2, <3>3
  <2> QED
    BY <2>10
<1>8. 0 .. LastColumn \subseteq T
  <2> HIDE DEF T
  <2> QED
    BY <1>1, <1>6, <1>7, UpTo
<1>9. Good(LastColumn)
  <2>1. LastColumn \in T
    <3> HIDE DEF T
    <3> QED
      BY <1>1, <1>8
  <2> QED
    BY <2>1
<1> QED
  BY <1>1, <1>5, <1>9, Offsets DEF FitsAll, Chunk

-----------------------------------------------------------------------------
(* Rows.                                                                   *)

(* An INT is one cell; and what a row reads as.                            *)
IntCells(row) == \A c \in 1 .. LastColumn : IsInt(c) => Len(row[c]) = 1
Shown(row) == [c \in DOMAIN Columns |-> IF IsInt(c) THEN row[c] ELSE Strip(row[c])]

(* A row reads as the one that is meant, and its texts are texts.          *)
ReadsAs(row, meant) ==
    \A c \in 1 .. LastColumn :
        IF IsInt(c) THEN row[c] = meant[c]
        ELSE Strip(row[c]) = Strip(meant[c]) /\ IsText(Strip(row[c]))

(* ByteSeq that are not too few give a row that fits its columns.            *)
LEMMA Decoded ==
    ASSUME NEW whole \in ByteSeq, Len(whole) >= RowWidth
    PROVE  Decode(whole) \in Row /\ IntCells(Decode(whole)) /\ FitsAll(Decode(whole))
<1>1. LastColumn \in Nat /\ DOMAIN Columns = 1 .. LastColumn
  BY ColumnTypes
<1>2. ASSUME NEW c \in 1 .. LastColumn
      PROVE  /\ Decode(whole)[c] \in ByteSeq
             /\ IsInt(c) => Len(Decode(whole)[c]) = 1
             /\ Len(Decode(whole)[c]) <= Width(c)
  <2> DEFINE a == Offset(c)
             w == Width(c)
             chunk == SubSeq(whole, a + 1, a + w)
  <2>1. a \in Nat /\ w \in Nat /\ a + w <= RowWidth /\ RowWidth \in Nat
        /\ (IsInt(c) => w = 1)
    <3>1. LastColumn + 1 \in c + 1 .. LastColumn + 1
      BY <1>1
    <3> QED
      BY <3>1, Offsets, ColumnTypes
  <2>2. Decode(whole)[c] = IF IsInt(c) THEN chunk ELSE Strip(chunk)
    BY <1>1 DEF Decode, Chunk
  <2> HIDE DEF a, w
  <2>3. chunk \in ByteSeq /\ Len(chunk) = w
    <3>1. \A i \in a + 1 .. a + w : whole[i] \in Nat
      BY <2>1 DEF ByteSeq
    <3>2. a + 1 \in Int /\ a + w \in Int
      BY <2>1
    <3>3. /\ SubSeq(whole, a + 1, a + w) \in Seq(Nat)
          /\ Len(SubSeq(whole, a + 1, a + w)) =
                IF a + 1 <= a + w THEN (a + w) - (a + 1) + 1 ELSE 0
      BY <3>1, <3>2, SubSeqProperties
    <3> QED
      BY <2>1, <3>3 DEF ByteSeq
  <2> HIDE DEF chunk
  <2>4. Strip(chunk) \in ByteSeq /\ Len(Strip(chunk)) <= Len(chunk)
    BY <2>3, Stripped
  <2> QED
    BY <2>1, <2>2, <2>3, <2>4 DEF w
<1>3. Decode(whole) \in Row
  BY <1>1, <1>2 DEF Decode, Row
<1> QED
  BY <1>2, <1>3 DEF IntCells, FitsAll

(* A row that fits its columns comes back from its bytes.                  *)
LEMMA ReadBack ==
    ASSUME NEW row \in Row, NEW meant, IntCells(row), FitsAll(row),
           ReadsAs(row, meant)
    PROVE  Decode(Encode(row)) = Shown(meant) /\ IsReadable(Encode(row))
<1> DEFINE whole == Encode(row)
<1>1. LastColumn \in Nat /\ DOMAIN Columns = 1 .. LastColumn
  BY ColumnTypes
<1>2. ASSUME NEW c \in 1 .. LastColumn
      PROVE  /\ IsInt(c) => Chunk(whole, c) = meant[c]
             /\ ~ IsInt(c) => /\ Strip(Chunk(whole, c)) = Strip(meant[c])
                              /\ IsText(Strip(Chunk(whole, c)))
  <2> DEFINE w == Width(c)
             b == row[c]
  <2>1. w \in Nat /\ b \in ByteSeq /\ Len(b) <= w /\ (IsInt(c) => w = 1 /\ Len(b) = 1)
    BY <1>1, ColumnTypes DEF Row, FitsAll, IntCells
  <2>2. Chunk(whole, c) = Pad(b, w)
    BY Encoded
  <2>3. IF IsInt(c) THEN b = meant[c]
        ELSE Strip(b) = Strip(meant[c]) /\ IsText(Strip(b))
    BY DEF ReadsAs
  <2> HIDE DEF whole, w, b
  <2>4. Strip(Pad(b, w)) = Strip(b)
    BY <2>1, Stripped
  <2>5. ASSUME IsInt(c)
        PROVE  Pad(b, w) = b
    <3>1. /\ Pad(b, w) \in ByteSeq /\ Len(Pad(b, w)) = Len(b)
          /\ \A i \in 1 .. Len(b) : Pad(b, w)[i] = b[i]
      BY <2>1, <2>5, Padded
    <3> QED
      BY <2>1, <3>1, SeqEqual DEF ByteSeq
  <2> QED
    BY <2>2, <2>3, <2>4, <2>5
<1> HIDE DEF whole
<1>3. IsReadable(whole)
  BY <1>1, <1>2 DEF IsReadable
<1>4. Decode(whole) = Shown(meant)
  BY <1>1, <1>2 DEF Decode, Shown
<1> QED
  BY <1>3, <1>4 DEF whole

(* A row that reads as the one that is meant, told of what is read.        *)
LEMMA ShownReadsAs ==
    ASSUME NEW whole, NEW meant \in Row, IsReadable(whole),
           Decode(whole) = Shown(meant)
    PROVE  ReadsAs(Decode(whole), meant)
<1> SUFFICES ASSUME NEW c \in 1 .. LastColumn
             PROVE  IF IsInt(c) THEN Decode(whole)[c] = meant[c]
                    ELSE /\ Strip(Decode(whole)[c]) = Strip(meant[c])
                         /\ IsText(Strip(Decode(whole)[c]))
  BY DEF ReadsAs
<1>1. DOMAIN Columns = 1 .. LastColumn /\ meant[c] \in ByteSeq
  BY ColumnTypes DEF Row
<1>2. Decode(whole)[c] = IF IsInt(c) THEN meant[c] ELSE Strip(meant[c])
  BY <1>1 DEF Shown
<1>3. ~ IsInt(c) => Decode(whole)[c] = Strip(Chunk(whole, c)) /\ IsText(Strip(Chunk(whole, c)))
  BY <1>1 DEF Decode, IsReadable
<1>4. Strip(Strip(meant[c])) = Strip(meant[c])
  BY <1>1, Stripped
<1> QED
  BY <1>2, <1>3, <1>4

-----------------------------------------------------------------------------
(* The inductive invariant: no row has fewer bytes than its table, and the *)
(* rows last widened by a copy are among those ever spoilt by one.         *)

CodecInv ==
    /\ stored \in Seq(ByteSeq) /\ rows \in Seq(Row) /\ Len(rows) = Len(stored)
    /\ \A i \in DOMAIN stored : Len(stored[i]) >= RowWidth
    /\ \A i \in DOMAIN rows : IntCells(rows[i])
    /\ wide \subseteq spoilt /\ spoilt \subseteq DOMAIN stored
    /\ WideOnlyByCopy
    /\ RoundTrip

LEMMA InitInvariant == CodecInit => CodecInv
<1> SUFFICES ASSUME CodecInit
             PROVE  CodecInv
  OBVIOUS
<1>1. stored = <<>> /\ rows = <<>> /\ wide = {} /\ spoilt = {}
  BY DEF CodecInit
<1>2. DOMAIN stored = {} /\ DOMAIN rows = {} /\ Len(stored) = 0 /\ Len(rows) = 0
  BY <1>1
<1> QED
  BY <1>1, <1>2 DEF CodecInv, WideOnlyByCopy, RoundTrip

(* A row with one column replaced.                                         *)
LEMMA PutRow ==
    ASSUME NEW row \in Row, NEW c \in 1 .. LastColumn, NEW v \in ByteSeq
    PROVE  /\ Put(row, c, v) \in Row
           /\ \A d \in 1 .. LastColumn :
                 Put(row, c, v)[d] = IF d = c THEN v ELSE row[d]
           /\ IntCells(row) /\ (IsInt(c) => Len(v) = 1) => IntCells(Put(row, c, v))
           /\ FitsAll(row) => (FitsAll(Put(row, c, v)) <=> Len(v) <= Width(c))
<1>1. DOMAIN Columns = 1 .. LastColumn /\ DOMAIN row = 1 .. LastColumn
  BY ColumnTypes DEF Row
<1>2. Put(row, c, v) \in Row
  BY <1>1 DEF Put, Row
<1>3. \A d \in 1 .. LastColumn : Put(row, c, v)[d] = IF d = c THEN v ELSE row[d]
  BY <1>1 DEF Put
<1>4. ASSUME IntCells(row), IsInt(c) => Len(v) = 1
      PROVE  IntCells(Put(row, c, v))
  BY <1>3, <1>4 DEF IntCells
<1>5. ASSUME FitsAll(row)
      PROVE  FitsAll(Put(row, c, v)) <=> Len(v) <= Width(c)
  BY <1>3, <1>5 DEF FitsAll
<1> QED
  BY <1>2, <1>3, <1>4, <1>5

LEMMA RowsNow ==
    ASSUME CodecInv
    PROVE  /\ DOMAIN stored = 1 .. Len(stored) /\ DOMAIN rows = DOMAIN stored
           /\ Len(stored) \in Nat
           /\ \A i \in DOMAIN stored :
                 /\ stored[i] \in ByteSeq /\ Len(stored[i]) >= RowWidth
                 /\ Decode(stored[i]) \in Row /\ rows[i] \in Row
                 /\ IntCells(Decode(stored[i])) /\ IntCells(rows[i])
                 /\ FitsAll(Decode(stored[i]))
                 /\ i \notin spoilt => ReadsAs(Decode(stored[i]), rows[i])
<1>1. /\ stored \in Seq(ByteSeq) /\ rows \in Seq(Row) /\ Len(rows) = Len(stored)
      /\ \A i \in DOMAIN stored : Len(stored[i]) >= RowWidth
      /\ \A i \in DOMAIN rows : IntCells(rows[i])
      /\ RoundTrip
  BY DEF CodecInv
<1>2. /\ DOMAIN stored = 1 .. Len(stored) /\ DOMAIN rows = DOMAIN stored
      /\ Len(stored) \in Nat
  BY <1>1, LenProperties
<1>3. ASSUME NEW i \in DOMAIN stored
      PROVE  /\ stored[i] \in ByteSeq /\ Len(stored[i]) >= RowWidth
             /\ Decode(stored[i]) \in Row /\ rows[i] \in Row
             /\ IntCells(Decode(stored[i])) /\ IntCells(rows[i])
             /\ FitsAll(Decode(stored[i]))
             /\ i \notin spoilt => ReadsAs(Decode(stored[i]), rows[i])
  <2>1. stored[i] \in ByteSeq /\ rows[i] \in Row /\ IntCells(rows[i])
        /\ Len(stored[i]) >= RowWidth
    <3>1. i \in 1 .. Len(stored) /\ i \in 1 .. Len(rows)
      BY <1>1, <1>2
    <3> QED
      BY <1>1, <1>2, <3>1, ElementOfSeq
  <2>2. /\ Decode(stored[i]) \in Row /\ IntCells(Decode(stored[i]))
        /\ FitsAll(Decode(stored[i]))
    BY <2>1, Decoded
  <2>3. ASSUME i \notin spoilt
        PROVE  ReadsAs(Decode(stored[i]), rows[i])
    <3>1. IsReadable(stored[i]) /\ Decode(stored[i]) = Shown(rows[i])
      BY <1>1, <2>3 DEF RoundTrip, Shown
    <3> QED
      BY <2>1, <3>1, ShownReadsAs
  <2> QED
    BY <2>1, <2>2, <2>3
<1> QED
  BY <1>2, <1>3

(* An UPDATE writes v[i] into a column of the i-th row, and means u[i].    *)
Means(c, v, u) ==
    /\ v \in [DOMAIN stored -> ByteSeq] /\ u \in [DOMAIN stored -> ByteSeq]
    /\ IsInt(c) => \A i \in DOMAIN stored : Len(v[i]) = 1 /\ Len(u[i]) = 1
    /\ \A i \in DOMAIN stored \ spoilt :
          IF IsInt(c) THEN v[i] = u[i]
          ELSE Strip(v[i]) = Strip(u[i]) /\ IsText(Strip(v[i]))

TooLong(c, v) == {i \in DOMAIN stored : Len(v[i]) > Width(c)}

(* All three forms of UPDATE: one column of every row is written anew,     *)
(* with values of which tooLong are longer than the column.                *)
LEMMA UpdateStep ==
    ASSUME CodecInv, NEW c \in 1 .. LastColumn, NEW v, NEW u, Means(c, v, u),
           Write([i \in DOMAIN stored |-> Put(Decode(stored[i]), c, v[i])],
                 TooLong(c, v)),
           rows' = [i \in DOMAIN rows |-> Put(rows[i], c, u[i])]
    PROVE  CodecInv'
<1> DEFINE D == DOMAIN stored
           new(i) == Put(Decode(stored[i]), c, v[i])
           meant(i) == Put(rows[i], c, u[i])
<1>1. /\ D = 1 .. Len(stored) /\ DOMAIN rows = D /\ Len(stored) \in Nat
      /\ wide \subseteq spoilt /\ spoilt \subseteq D
  BY RowsNow DEF CodecInv
<1>2. /\ stored' = [i \in D |-> Encode(new(i))]
      /\ wide' = TooLong(c, v) /\ spoilt' = spoilt \cup TooLong(c, v)
      /\ rows' = [i \in D |-> meant(i)]
  BY <1>1 DEF Write
<1>3. ASSUME NEW i \in D
      PROVE  /\ new(i) \in Row /\ meant(i) \in Row
             /\ IntCells(new(i)) /\ IntCells(meant(i))
             /\ FitsAll(new(i)) <=> i \notin TooLong(c, v)
             /\ i \notin spoilt => ReadsAs(new(i), meant(i))
  <2> DEFINE row == Decode(stored[i])
             old == rows[i]
  <2>1. /\ row \in Row /\ old \in Row /\ IntCells(row) /\ IntCells(old)
        /\ FitsAll(row) /\ (i \notin spoilt => ReadsAs(row, old))
    BY RowsNow
  <2>2. /\ v[i] \in ByteSeq /\ u[i] \in ByteSeq
        /\ IsInt(c) => Len(v[i]) = 1 /\ Len(u[i]) = 1
        /\ i \notin spoilt => IF IsInt(c) THEN v[i] = u[i]
                              ELSE Strip(v[i]) = Strip(u[i]) /\ IsText(Strip(v[i]))
    BY DEF Means
  <2> HIDE DEF row, old
  <2>3. /\ Put(row, c, v[i]) \in Row /\ IntCells(Put(row, c, v[i]))
        /\ FitsAll(Put(row, c, v[i])) <=> Len(v[i]) <= Width(c)
        /\ \A d \in 1 .. LastColumn :
              Put(row, c, v[i])[d] = IF d = c THEN v[i] ELSE row[d]
    BY <2>1, <2>2, PutRow
  <2>4. /\ Put(old, c, u[i]) \in Row /\ IntCells(Put(old, c, u[i]))
        /\ \A d \in 1 .. LastColumn :
              Put(old, c, u[i])[d] = IF d = c THEN u[i] ELSE old[d]
    BY <2>1, <2>2, PutRow
  <2>5. i \in TooLong(c, v) <=> ~ (Len(v[i]) <= Width(c))
    <3>1. Len(v[i]) \in Nat /\ Width(c) \in Nat
      BY <2>2, ColumnTypes DEF ByteSeq
    <3> QED
      BY <3>1 DEF TooLong
  <2>6. ASSUME i \notin spoilt
        PROVE  ReadsAs(Put(row, c, v[i]), Put(old, c, u[i]))
    BY <2>1, <2>2, <2>3, <2>4, <2>6 DEF ReadsAs
  <2> QED
    BY <2>3, <2>4, <2>5, <2>6 DEF row, old
<1> HIDE DEF new, meant
<1>4. ASSUME NEW i \in D
      PROVE  /\ Encode(new(i)) \in ByteSeq /\ Len(Encode(new(i))) >= RowWidth
             /\ Len(Encode(new(i))) = RowWidth <=> FitsAll(new(i))
  BY <1>3, Encoded
<1>5. stored' \in Seq(ByteSeq) /\ Len(stored') = Len(stored) /\ DOMAIN stored' = D
  <2>1. stored' \in [1 .. Len(stored) -> ByteSeq]
    BY <1>1, <1>2, <1>4
  <2> QED
    BY <1>1, <2>1
<1>6. rows' \in Seq(Row) /\ Len(rows') = Len(stored) /\ DOMAIN rows' = D
  <2>1. rows' \in [1 .. Len(stored) -> Row]
    BY <1>1, <1>2, <1>3
  <2> QED
    BY <1>1, <2>1
<1>7. ASSUME NEW i \in D
      PROVE  stored'[i] = Encode(new(i)) /\ rows'[i] = meant(i)
  BY <1>2
<1>8. wide' \subseteq spoilt' /\ spoilt' \subseteq D
  BY <1>1, <1>2 DEF TooLong
<1>9. WideOnlyByCopy'
  <2>1. \A i \in D : i \in wide' <=> Len(stored'[i]) # RowWidth
    BY <1>2, <1>3, <1>4, <1>7
  <2> QED
    BY <1>5, <2>1 DEF WideOnlyByCopy
<1>10. RoundTrip'
  <2> SUFFICES ASSUME NEW i \in D, i \notin spoilt'
               PROVE  IsReadable(stored'[i]) /\ Decode(stored'[i]) = Shown(rows'[i])
    BY <1>5 DEF RoundTrip, Shown
  <2>1. i \notin spoilt /\ FitsAll(new(i))
    BY <1>2, <1>3
  <2>2. /\ new(i) \in Row /\ IntCells(new(i)) /\ ReadsAs(new(i), meant(i))
    BY <1>3, <2>1
  <2>3. Decode(Encode(new(i))) = Shown(meant(i)) /\ IsReadable(Encode(new(i)))
    BY <2>1, <2>2, ReadBack
  <2> QED
    BY <1>7, <2>3
<1>11. /\ \A i \in D : Len(stored'[i]) >= RowWidth
       /\ \A i \in D : IntCells(rows'[i])
  BY <1>3, <1>4, <1>7
<1> QED
  BY <1>5, <1>6, <1>8, <1>9, <1>10, <1>11 DEF CodecInv

(* Literals are bytes; of an INT there is one, and a text is a text.       *)
LEMMA LiteralTypes ==
    ASSUME NEW c \in 1 .. LastColumn, NEW value \in Literals(c)
    PROVE  /\ value \in ByteSeq
           /\ IsInt(c) => Len(value) = 1
           /\ ~ IsInt(c) => IsText(Strip(value))
           /\ FitsColumn(value, c) => Len(value) <= Width(c)
<1>1. CASE IsInt(c)
  <2>1. PICK n \in 0 .. INT_MAX + 1 : value = <<n>>
    BY <1>1 DEF Literals
  <2>2. n \in Nat
    BY CodecAssumption
  <2>3. value \in Seq(Nat) /\ Len(value) = 1
    BY <2>1, <2>2
  <2>4. Width(c) = 1
    BY <1>1, ColumnTypes
  <2> QED
    BY <1>1, <2>3, <2>4 DEF ByteSeq
<1>2. CASE ~ IsInt(c)
  <2>1. value \in Strings
    BY <1>2 DEF Literals
  <2>2. value \in ByteSeq /\ IsText(value)
    BY <2>1, CodecAssumption DEF ByteSeq
  <2>3. IsText(Strip(value))
    BY <2>2, Stripped
  <2> QED
    BY <1>2, <2>2, <2>3 DEF FitsColumn
<1> QED
  BY <1>1, <1>2

LEMMA InsertInvariant == CodecInv /\ Insert => CodecInv'
<1> SUFFICES ASSUME CodecInv, Insert
             PROVE  CodecInv'
  OBVIOUS
<1>1. PICK row \in [DOMAIN Columns -> UNION {Literals(c) : c \in DOMAIN Columns}] :
          /\ \A c \in DOMAIN Columns : row[c] \in Literals(c)
          /\ \A c \in DOMAIN Columns : FitsColumn(row[c], c)
          /\ stored' = Append(stored, Encode(row))
          /\ rows' = Append(rows, [c \in DOMAIN Columns |-> row[c]])
  BY DEF Insert
<1>2. DOMAIN Columns = 1 .. LastColumn /\ LastColumn \in Nat
  BY ColumnTypes
<1>3. \A c \in 1 .. LastColumn :
          /\ row[c] \in ByteSeq
          /\ IsInt(c) => Len(row[c]) = 1
          /\ ~ IsInt(c) => IsText(Strip(row[c]))
          /\ Len(row[c]) <= Width(c)
  BY <1>1, <1>2, LiteralTypes
<1>4. row \in Row /\ IntCells(row) /\ FitsAll(row) /\ ReadsAs(row, row)
  BY <1>2, <1>3 DEF Row, IntCells, FitsAll, ReadsAs
<1>5. [c \in DOMAIN Columns |-> row[c]] = row
  OBVIOUS
<1>6. /\ Encode(row) \in ByteSeq /\ Len(Encode(row)) = RowWidth
      /\ RowWidth \in Nat
      /\ IsReadable(Encode(row)) /\ Decode(Encode(row)) = Shown(row)
  BY <1>4, Encoded, ReadBack, Offsets
<1> DEFINE n == Len(stored)
           whole == Encode(row)
<1>7. /\ stored \in Seq(ByteSeq) /\ rows \in Seq(Row) /\ Len(rows) = n
      /\ n \in Nat /\ DOMAIN stored = 1 .. n /\ DOMAIN rows = 1 .. n
      /\ wide \subseteq spoilt /\ spoilt \subseteq 1 .. n
      /\ \A i \in 1 .. n : Len(stored[i]) >= RowWidth /\ IntCells(rows[i])
      /\ \A i \in 1 .. n : i \in wide <=> Len(stored[i]) # RowWidth
      /\ \A i \in (1 .. n) \ spoilt :
            IsReadable(stored[i]) /\ Decode(stored[i]) = Shown(rows[i])
  BY RowsNow DEF CodecInv, WideOnlyByCopy, RoundTrip, Shown
<1>8. wide' = wide /\ spoilt' = spoilt
  BY DEF Insert
<1> HIDE DEF n, whole
<1>9. /\ stored' \in Seq(ByteSeq) /\ Len(stored') = n + 1 /\ DOMAIN stored' = 1 .. n + 1
      /\ \A i \in 1 .. n : stored'[i] = stored[i]
      /\ stored'[n + 1] = whole
  BY <1>1, <1>6, <1>7 DEF n, whole
<1>10. /\ rows' \in Seq(Row) /\ Len(rows') = n + 1 /\ DOMAIN rows' = 1 .. n + 1
       /\ \A i \in 1 .. n : rows'[i] = rows[i]
       /\ rows'[n + 1] = row
  BY <1>1, <1>4, <1>5, <1>7
<1>11. \A i \in 1 .. n + 1 : i \in 1 .. n \/ i = n + 1
  BY <1>7
<1>12. n + 1 \notin 1 .. n /\ \A i \in 1 .. n : i \in 1 .. n + 1
  BY <1>7
<1>13. \A i \in 1 .. n + 1 : Len(stored'[i]) >= RowWidth /\ IntCells(rows'[i])
  BY <1>4, <1>6, <1>7, <1>9, <1>10, <1>11 DEF whole
<1>14. WideOnlyByCopy'
  <2>1. \A i \in 1 .. n + 1 : i \in wide <=> Len(stored'[i]) # RowWidth
    BY <1>6, <1>7, <1>9, <1>11, <1>12 DEF whole
  <2> QED
    BY <1>8, <1>9, <2>1 DEF WideOnlyByCopy
<1>15. RoundTrip'
  <2>1. \A i \in (1 .. n + 1) \ spoilt :
            IsReadable(stored'[i]) /\ Decode(stored'[i]) = Shown(rows'[i])
    BY <1>6, <1>7, <1>9, <1>10, <1>11, <1>12 DEF whole
  <2> QED
    BY <1>8, <1>9, <2>1 DEF RoundTrip, Shown
<1> QED
  BY <1>7, <1>8, <1>9, <1>10, <1>12, <1>13, <1>14, <1>15 DEF CodecInv

LEMMA ToLiteralInvariant == CodecInv /\ UpdateToLiteral => CodecInv'
<1> SUFFICES ASSUME CodecInv, UpdateToLiteral
             PROVE  CodecInv'
  OBVIOUS
<1>0. PICK c \in DOMAIN Columns : \E value \in Literals(c) :
          /\ FitsColumn(value, c)
          /\ Write([i \in DOMAIN stored |-> Put(Decode(stored[i]), c, value)], {})
          /\ rows' = [i \in DOMAIN rows |-> Put(rows[i], c, value)]
  BY DEF UpdateToLiteral
<1>1. PICK value \in Literals(c) :
          /\ FitsColumn(value, c)
          /\ Write([i \in DOMAIN stored |-> Put(Decode(stored[i]), c, value)], {})
          /\ rows' = [i \in DOMAIN rows |-> Put(rows[i], c, value)]
  BY <1>0
<1>2. c \in 1 .. LastColumn
  BY ColumnTypes
<1>3. /\ value \in ByteSeq /\ (IsInt(c) => Len(value) = 1)
      /\ (~ IsInt(c) => IsText(Strip(value))) /\ Len(value) <= Width(c)
  BY <1>1, <1>2, LiteralTypes
<1> DEFINE v == [i \in DOMAIN stored |-> value]
<1>4. \A i \in DOMAIN stored : v[i] = value
  OBVIOUS
<1>5. DOMAIN rows = DOMAIN stored
  BY RowsNow
<1>6. Means(c, v, v)
  BY <1>3 DEF Means
<1>7. TooLong(c, v) = {}
  <2>1. Len(value) \in Nat /\ Width(c) \in Nat
    BY <1>2, <1>3, ColumnTypes DEF ByteSeq
  <2> QED
    BY <1>3, <1>4, <2>1 DEF TooLong
<1>8. /\ [i \in DOMAIN stored |-> Put(Decode(stored[i]), c, v[i])] =
             [i \in DOMAIN stored |-> Put(Decode(stored[i]), c, value)]
      /\ [i \in DOMAIN rows |-> Put(rows[i], c, v[i])] =
             [i \in DOMAIN rows |-> Put(rows[i], c, value)]
  BY <1>5
<1> HIDE DEF v
<1>9. /\ Write([i \in DOMAIN stored |-> Put(Decode(stored[i]), c, v[i])], TooLong(c, v))
      /\ rows' = [i \in DOMAIN rows |-> Put(rows[i], c, v[i])]
  BY <1>1, <1>7, <1>8
<1> QED
  BY <1>2, <1>6, <1>9, UpdateStep

LEMMA ToColumnInvariant == CodecInv /\ UpdateToColumn => CodecInv'
<1> SUFFICES ASSUME CodecInv, UpdateToColumn
             PROVE  CodecInv'
  OBVIOUS
<1>1. PICK c \in DOMAIN Columns, d \in DOMAIN Columns :
          /\ IsInt(c) <=> IsInt(d)
          /\ Write([i \in DOMAIN stored |->
                       Put(Decode(stored[i]), c, Decode(stored[i])[d])],
                   {i \in DOMAIN stored : Len(Decode(stored[i])[d]) > Width(c)})
          /\ rows' = [i \in DOMAIN rows |-> Put(rows[i], c, rows[i][d])]
  BY DEF UpdateToColumn
<1>2. c \in 1 .. LastColumn /\ d \in 1 .. LastColumn /\ DOMAIN Columns = 1 .. LastColumn
  BY ColumnTypes
<1> DEFINE v == [i \in DOMAIN stored |-> Decode(stored[i])[d]]
           u == [i \in DOMAIN stored |-> rows[i][d]]
<1>3. \A i \in DOMAIN stored : v[i] = Decode(stored[i])[d] /\ u[i] = rows[i][d]
  OBVIOUS
<1>4. DOMAIN rows = DOMAIN stored
  BY RowsNow
<1>5. Means(c, v, u)
  <2>1. ASSUME NEW i \in DOMAIN stored
        PROVE  /\ v[i] \in ByteSeq /\ u[i] \in ByteSeq
               /\ IsInt(c) => Len(v[i]) = 1 /\ Len(u[i]) = 1
               /\ i \notin spoilt =>
                     IF IsInt(c) THEN v[i] = u[i]
                     ELSE Strip(v[i]) = Strip(u[i]) /\ IsText(Strip(v[i]))
    <3>1. /\ Decode(stored[i]) \in Row /\ rows[i] \in Row
          /\ IntCells(Decode(stored[i])) /\ IntCells(rows[i])
          /\ i \notin spoilt => ReadsAs(Decode(stored[i]), rows[i])
      BY RowsNow
    <3>2. v[i] = Decode(stored[i])[d] /\ u[i] = rows[i][d]
      BY <1>3
    <3> HIDE DEF v, u
    <3> QED
      BY <1>1, <1>2, <3>1, <3>2 DEF Row, IntCells, ReadsAs
  <2>2. DOMAIN v = DOMAIN stored /\ DOMAIN u = DOMAIN stored
        /\ v = [i \in DOMAIN v |-> v[i]] /\ u = [i \in DOMAIN u |-> u[i]]
    OBVIOUS
  <2> HIDE DEF v, u
  <2>3. v \in [DOMAIN stored -> ByteSeq] /\ u \in [DOMAIN stored -> ByteSeq]
    BY <2>1, <2>2
  <2> QED
    BY <2>1, <2>3 DEF Means
<1>6. TooLong(c, v) = {i \in DOMAIN stored : Len(Decode(stored[i])[d]) > Width(c)}
  BY <1>3 DEF TooLong
<1>7. /\ [i \in DOMAIN stored |-> Put(Decode(stored[i]), c, v[i])] =
             [i \in DOMAIN stored |-> Put(Decode(stored[i]), c, Decode(stored[i])[d])]
      /\ [i \in DOMAIN rows |-> Put(rows[i], c, u[i])] =
             [i \in DOMAIN rows |-> Put(rows[i], c, rows[i][d])]
  BY <1>4
<1> HIDE DEF v, u
<1>8. /\ Write([i \in DOMAIN stored |-> Put(Decode(stored[i]), c, v[i])], TooLong(c, v))
      /\ rows' = [i \in DOMAIN rows |-> Put(rows[i], c, u[i])]
  BY <1>1, <1>6, <1>7
<1> QED
  BY <1>2, <1>5, <1>8, UpdateStep

LEMMA ToSumInvariant == CodecInv /\ UpdateToSum => CodecInv'
<1> SUFFICES ASSUME CodecInv, UpdateToSum
             PROVE  CodecInv'
  OBVIOUS
<1>1. PICK c \in DOMAIN Columns :
          /\ IsInt(c)
          /\ Write([i \in DOMAIN stored |->
                       Put(Decode(stored[i]), c, Increment(Decode(stored[i])[c]))], {})
          /\ rows' = [i \in DOMAIN rows |-> Put(rows[i], c, Increment(rows[i][c]))]
  BY DEF UpdateToSum
<1>2. c \in 1 .. LastColumn /\ Width(c) = 1
  BY <1>1, ColumnTypes
<1> DEFINE v == [i \in DOMAIN stored |-> Increment(Decode(stored[i])[c])]
           u == [i \in DOMAIN stored |-> Increment(rows[i][c])]
<1>3. \A i \in DOMAIN stored : /\ v[i] = Increment(Decode(stored[i])[c])
                              /\ u[i] = Increment(rows[i][c])
  OBVIOUS
<1>4. DOMAIN rows = DOMAIN stored
  BY RowsNow
<1>5. ASSUME NEW i \in DOMAIN stored
      PROVE  /\ v[i] \in ByteSeq /\ u[i] \in ByteSeq
             /\ Len(v[i]) = 1 /\ Len(u[i]) = 1
             /\ i \notin spoilt => v[i] = u[i]
  <2>1. /\ Decode(stored[i]) \in Row /\ rows[i] \in Row
        /\ IntCells(Decode(stored[i])) /\ IntCells(rows[i])
        /\ i \notin spoilt => ReadsAs(Decode(stored[i]), rows[i])
    BY RowsNow
  <2> DEFINE x == Decode(stored[i])[c]
             y == rows[i][c]
  <2>2. /\ x \in ByteSeq /\ y \in ByteSeq /\ Len(x) = 1 /\ Len(y) = 1
        /\ i \notin spoilt => x = y
    BY <1>1, <1>2, <2>1, ColumnTypes DEF Row, IntCells, ReadsAs
  <2>3. v[i] = Increment(x) /\ u[i] = Increment(y)
    BY <1>3
  <2> HIDE DEF x, y, v, u
  <2>4. x[1] \in Nat /\ y[1] \in Nat
    BY <2>2 DEF ByteSeq
  <2>5. <<x[1] + 1>> \in ByteSeq /\ <<y[1] + 1>> \in ByteSeq
    BY <2>4 DEF ByteSeq
  <2> QED
    BY <2>2, <2>3, <2>4, <2>5 DEF Increment
<1>6. DOMAIN v = DOMAIN stored /\ DOMAIN u = DOMAIN stored
      /\ v = [i \in DOMAIN v |-> v[i]] /\ u = [i \in DOMAIN u |-> u[i]]
  OBVIOUS
<1>7. /\ [i \in DOMAIN stored |-> Put(Decode(stored[i]), c, v[i])] =
             [i \in DOMAIN stored |->
                 Put(Decode(stored[i]), c, Increment(Decode(stored[i])[c]))]
      /\ [i \in DOMAIN rows |-> Put(rows[i], c, u[i])] =
             [i \in DOMAIN rows |-> Put(rows[i], c, Increment(rows[i][c]))]
  BY <1>4
<1> HIDE DEF v, u
<1>8. Means(c, v, u)
  <2>1. v \in [DOMAIN stored -> ByteSeq] /\ u \in [DOMAIN stored -> ByteSeq]
    BY <1>5, <1>6
  <2> QED
    BY <1>1, <1>5, <2>1 DEF Means
<1>9. TooLong(c, v) = {}
  <2>1. ASSUME NEW i \in DOMAIN stored
        PROVE  ~ (Len(v[i]) > Width(c))
    <3>1. Len(v[i]) = 1 /\ Width(c) = 1
      BY <1>2, <1>5
    <3> QED
      BY <3>1
  <2> QED
    BY <2>1 DEF TooLong
<1>10. /\ Write([i \in DOMAIN stored |-> Put(Decode(stored[i]), c, v[i])], TooLong(c, v))
       /\ rows' = [i \in DOMAIN rows |-> Put(rows[i], c, u[i])]
  BY <1>1, <1>7, <1>9
<1> QED
  BY <1>2, <1>8, <1>10, UpdateStep

LEMMA StepInvariant == CodecInv /\ [CodecNext]_codecVars => CodecInv'
<1> SUFFICES ASSUME CodecInv, [CodecNext]_codecVars
             PROVE  CodecInv'
  OBVIOUS
<1>1. CASE Insert
  BY <1>1, InsertInvariant
<1>2. CASE UpdateToLiteral
  BY <1>2, ToLiteralInvariant
<1>3. CASE UpdateToColumn
  BY <1>3, ToColumnInvariant
<1>4. CASE UpdateToSum
  BY <1>4, ToSumInvariant
<1>5. CASE Delete
  <2>1. stored' = <<>> /\ rows' = <<>> /\ wide' = {} /\ spoilt' = {}
    BY <1>5 DEF Delete
  <2>2. /\ DOMAIN stored' = {} /\ DOMAIN rows' = {}
        /\ Len(stored') = 0 /\ Len(rows') = 0
    BY <2>1
  <2> QED
    BY <2>1, <2>2 DEF CodecInv, WideOnlyByCopy, RoundTrip
<1>6. CASE UNCHANGED codecVars
  BY <1>6 DEF codecVars, CodecInv, WideOnlyByCopy, RoundTrip
<1> QED
  BY <1>1, <1>2, <1>3, <1>4, <1>5, <1>6 DEF CodecNext

(* The invariant holds always.                                             *)
THEOREM CodecInvariant == CodecSpec => []CodecInv
<1> QED
  BY InitInvariant, StepInvariant, PTL DEF CodecSpec

(* RoundTrip: a row that no copy was ever too long for reads back as the   *)
(* one that was meant, without the zero bytes its strings end with.        *)
THEOREM RowsReadBack == CodecSpec => []RoundTrip
<1>1. CodecInv => RoundTrip
  BY DEF CodecInv
<1> QED
  BY <1>1, CodecInvariant, PTL

(* WideOnlyByCopy: just those rows are wider than their table that an      *)
(* UPDATE last wrote a column into that was too long.                      *)
THEOREM OnlyCopiesAreWide == CodecSpec => []WideOnlyByCopy
<1>1. CodecInv => WideOnlyByCopy
  BY DEF CodecInv
<1> QED
  BY <1>1, CodecInvariant, PTL

-----------------------------------------------------------------------------
(* SlottedPage.                                                            *)

(***************************************************************************)
(* Arithmetic of the slot array.                                           *)
(***************************************************************************)
LEMMA ProductMonotone ==
  ASSUME NEW k \in Nat, NEW a \in Nat, NEW b \in Nat, a <= b
  PROVE  k * a <= k * b
<1>1. k * (b - a) \in Nat
  OBVIOUS
<1>2. k * b = k * a + k * (b - a)
  OBVIOUS
<1> QED
  BY <1>1, <1>2

LEMMA SlotPosNat ==
  ASSUME NEW i \in Nat \ {0}
  PROVE  /\ SlotPos(i) \in Nat
         /\ SlotPos(i) >= HeaderSize
         /\ SlotPos(i) + SlotSize = HeaderSize + SlotSize * i
<1>1. SlotSize * (i - 1) \in Nat /\ SlotSize * (i - 1) + SlotSize = SlotSize * i
  BY LayoutAssumption
<1> QED
  BY <1>1, LayoutAssumption DEF SlotPos

(* The cells of different slots are different cells.                       *)
LEMMA SlotSpansDisjoint ==
  ASSUME NEW i \in Nat \ {0}, NEW j \in Nat \ {0}, NEW c,
         c \in SlotSpan(i), c \in SlotSpan(j)
  PROVE  i = j
<1>1. ASSUME NEW a \in Nat \ {0}, NEW b \in Nat \ {0}, a < b
      PROVE  SlotPos(a) + SlotSize <= SlotPos(b)
  <2>1. SlotSize * a <= SlotSize * (b - 1)
    BY <1>1, ProductMonotone, LayoutAssumption
  <2> QED
    BY <2>1, SlotPosNat, LayoutAssumption DEF SlotPos
<1>2. /\ c \in Int
      /\ SlotPos(i) <= c /\ c < SlotPos(i) + SlotSize
      /\ SlotPos(j) <= c /\ c < SlotPos(j) + SlotSize
  BY SlotPosNat, LayoutAssumption DEF SlotSpan
<1>3. ~ (i < j)
  BY <1>1, <1>2, SlotPosNat, LayoutAssumption
<1>4. ~ (j < i)
  BY <1>1, <1>2, SlotPosNat, LayoutAssumption
<1> QED
  BY <1>3, <1>4

(* A slot of a page that is laid out as it should be lies between the      *)
(* header and the rows.                                                    *)
LEMMA SlotBelowRows ==
  ASSUME NEW sl \in Seq(Slot), NEW fs \in Nat, NEW fe \in Nat,
         LayoutOf(sl, fs, fe), NEW i \in DOMAIN sl
  PROVE  /\ SlotSpan(i) \subseteq HeaderSize .. fe - 1
         /\ SlotPos(i) \in SlotSpan(i)
         /\ SlotPos(i) \in 1 .. PageSize - 1
<1>1. i \in Nat \ {0} /\ i <= Len(sl) /\ Len(sl) \in Nat
  OBVIOUS
<1>2. SlotSize * i <= SlotSize * Len(sl)
  BY <1>1, ProductMonotone, LayoutAssumption
<1>3. SlotPos(i) + SlotSize <= fe /\ fe <= PageSize
  <2>1. SlotPos(i) + SlotSize = HeaderSize + SlotSize * i
    BY <1>1, SlotPosNat
  <2>2. SlotSize * i \in Nat /\ SlotSize * Len(sl) \in Nat
    BY <1>1, LayoutAssumption
  <2>3. fs = HeaderSize + SlotSize * Len(sl) /\ fs <= fe /\ fe <= PageSize
    BY DEF LayoutOf
  <2> QED
    BY <1>2, <2>1, <2>2, <2>3, LayoutAssumption
<1>4. SlotPos(i) \in Nat /\ SlotPos(i) >= HeaderSize
  BY <1>1, SlotPosNat
<1> QED
  BY <1>3, <1>4, LayoutAssumption DEF SlotSpan

(***************************************************************************)
(* What writing on the page does.                                          *)
(***************************************************************************)
LEMMA SlotFields ==
  ASSUME NEW sl \in Seq(Slot), NEW i \in DOMAIN sl
  PROVE  /\ sl[i] \in Slot
         /\ sl[i].offset \in Nat
         /\ sl[i].length \in Nat
         /\ sl[i] = [offset |-> sl[i].offset, length |-> sl[i].length]
<1>1. sl[i] \in Slot
  OBVIOUS
<1> QED
  BY <1>1 DEF Slot

LEMMA CellsOfRow ==
  ASSUME NEW row \in Rows
  PROVE  row \in Seq(RowCells) /\ Len(row) \in Nat \ {0}
BY RowsAssumption

LEMMA WriteAtWrites ==
  ASSUME NEW bytes \in Bytes, NEW offset \in Nat, NEW row \in Rows,
         offset + Len(row) <= PageSize
  PROVE  /\ WriteAt(bytes, offset, row) \in Bytes
         /\ \A s \in Slot :
              s.offset = offset /\ s.length = Len(row) =>
                RowAt(WriteAt(bytes, offset, row), s) = row
         /\ \A s \in Slot :
              \/ s.length = 0
              \/ /\ s.offset + s.length <= PageSize
                 /\ \/ s.offset + s.length <= offset
                    \/ offset + Len(row) <= s.offset
              => RowAt(WriteAt(bytes, offset, row), s) = RowAt(bytes, s)
<1> DEFINE w == WriteAt(bytes, offset, row)
<1>1. row \in Seq(RowCells) /\ Len(row) \in Nat \ {0} /\ PageSize \in Nat
  BY CellsOfRow, LayoutAssumption
<1>2. w \in Bytes
  <2>1. ASSUME NEW c \in offset .. offset + Len(row) - 1
        PROVE  row[c - offset + 1] \in Cell
    <3>1. c - offset + 1 \in 1 .. Len(row)
      BY <1>1
    <3> QED
      BY <1>1, <3>1 DEF Cell
  <2> QED
    BY <2>1 DEF WriteAt, Bytes
<1>3. ASSUME NEW s \in Slot, s.offset = offset, s.length = Len(row)
      PROVE  RowAt(w, s) = row
  <2>1. \A k \in 1 .. Len(row) : w[offset + k - 1] = row[k]
    <3> SUFFICES ASSUME NEW k \in 1 .. Len(row)
                 PROVE  w[offset + k - 1] = row[k]
      OBVIOUS
    <3>1. offset + k - 1 \in 0 .. PageSize - 1
      BY <1>1
    <3>2. offset + k - 1 \in offset .. offset + Len(row) - 1
      BY <1>1
    <3>3. (offset + k - 1) - offset + 1 = k
      OBVIOUS
    <3> QED
      BY <3>1, <3>2, <3>3 DEF WriteAt
  <2>2. row = [k \in 1 .. Len(row) |-> row[k]]
    BY <1>1
  <2>3. RowAt(w, s) = [k \in 1 .. Len(row) |-> w[offset + k - 1]]
    BY <1>3 DEF RowAt
  <2> QED
    BY <2>1, <2>2, <2>3
<1>4. ASSUME NEW s \in Slot,
             \/ s.length = 0
             \/ /\ s.offset + s.length <= PageSize
                /\ \/ s.offset + s.length <= offset
                   \/ offset + Len(row) <= s.offset
      PROVE  RowAt(w, s) = RowAt(bytes, s)
  <2>1. s.offset \in Nat /\ s.length \in Nat
    BY DEF Slot
  <2>2. ASSUME NEW k \in 1 .. s.length
        PROVE  w[s.offset + k - 1] = bytes[s.offset + k - 1]
    <3>1. s.offset + k - 1 \in 0 .. PageSize - 1
      BY <1>1, <1>4, <2>1
    <3>2. s.offset + k - 1 \notin offset .. offset + Len(row) - 1
      BY <1>1, <1>4, <2>1
    <3> QED
      BY <3>1, <3>2 DEF WriteAt
  <2> QED
    BY <2>2 DEF RowAt
<1> QED
  BY <1>2, <1>3, <1>4

(* from_bytes undoes to_bytes, and to_bytes leaves the rows alone.         *)
LEMMA SerialiseRoundTrip ==
  ASSUME NEW sl \in Seq(Slot), NEW fs \in Nat, NEW fe \in Nat,
         NEW bytes \in Bytes, LayoutOf(sl, fs, fe)
  PROVE  LET b == Serialise(sl, fs, fe, bytes)
         IN  /\ b \in Bytes
             /\ ImageSlots(b) = sl
             /\ ImageFreeStart(b) = fs
             /\ ImageFreeEnd(b) = fe
             /\ \A i \in DOMAIN sl : RowAt(b, sl[i]) = RowAt(bytes, sl[i])
<1> DEFINE b == Serialise(sl, fs, fe, bytes)
<1>1. 0 \in 0 .. PageSize - 1 /\ PageSize \in Nat
  BY LayoutAssumption
<1>2. b[0] = HeadCell(Len(sl), fs, fe)
  BY <1>1 DEF Serialise
<1>3. ASSUME NEW i \in DOMAIN sl, NEW c \in SlotSpan(i)
      PROVE  (CHOOSE j \in DOMAIN sl : c \in SlotSpan(j)) = i
  <2>1. DOMAIN sl \subseteq Nat \ {0}
    OBVIOUS
  <2>2. \A j \in DOMAIN sl : c \in SlotSpan(j) => j = i
    BY <2>1, SlotSpansDisjoint
  <2> QED
    BY <2>2
<1>4. ASSUME NEW i \in DOMAIN sl
      PROVE  b[SlotPos(i)] = SlotCell(sl[i])
  <2>1. SlotPos(i) \in SlotSpan(i) /\ SlotPos(i) \in 1 .. PageSize - 1
    BY SlotBelowRows
  <2>2. (CHOOSE j \in DOMAIN sl : SlotPos(i) \in SlotSpan(j)) = i
    BY <1>3, <2>1
  <2>3. SlotPos(i) \in 0 .. PageSize - 1 /\ SlotPos(i) # 0
    BY <2>1, <1>1
  <2> QED
    BY <2>1, <2>2, <2>3 DEF Serialise
<1>5. b \in Bytes
  <2>1. HeadCell(Len(sl), fs, fe) \in Cell
    BY DEF HeadCell, Cell
  <2>2. ASSUME NEW c, \E i \in DOMAIN sl : c \in SlotSpan(i)
        PROVE  SlotCell(sl[CHOOSE i \in DOMAIN sl : c \in SlotSpan(i)]) \in Cell
    <3>1. PICK i \in DOMAIN sl : c \in SlotSpan(i)
      BY <2>2
    <3>2. SlotCell(sl[i]) \in Cell
      <4>1. sl[i].offset \in Nat /\ sl[i].length \in Nat
        BY SlotFields
      <4> QED
        BY <4>1 DEF SlotCell, Cell
    <3> QED
      BY <1>3, <3>1, <3>2
  <2>3. \A c \in 0 .. PageSize - 1 : bytes[c] \in Cell
    BY DEF Bytes
  <2> QED
    BY <2>1, <2>2, <2>3 DEF Serialise, Bytes
<1>6. ImageSlots(b) = sl
  <2>1. \A i \in DOMAIN sl : sl[i] = [offset |-> sl[i].offset,
                                      length |-> sl[i].length]
    BY SlotFields
  <2>2. b[0][2] = Len(sl)
    BY <1>2 DEF HeadCell
  <2>3. \A i \in DOMAIN sl : /\ b[SlotPos(i)][2] = sl[i].offset
                             /\ b[SlotPos(i)][3] = sl[i].length
    BY <1>4 DEF SlotCell
  <2>4. sl = [i \in 1 .. Len(sl) |-> sl[i]]
    OBVIOUS
  <2> HIDE DEF b
  <2> QED
    BY <2>1, <2>2, <2>3, <2>4 DEF ImageSlots
<1>7. ImageFreeStart(b) = fs /\ ImageFreeEnd(b) = fe
  BY <1>2 DEF ImageFreeStart, ImageFreeEnd, HeadCell
<1>8. ASSUME NEW i \in DOMAIN sl
      PROVE  RowAt(b, sl[i]) = RowAt(bytes, sl[i])
  <2>1. sl[i] \in Slot /\ sl[i].offset \in Nat /\ sl[i].length \in Nat
    BY SlotFields
  <2>2. ASSUME NEW k \in 1 .. sl[i].length
        PROVE  b[sl[i].offset + k - 1] = bytes[sl[i].offset + k - 1]
    <3> DEFINE c == sl[i].offset + k - 1
    <3>1. c \in fe .. PageSize - 1 /\ fe >= HeaderSize
      <4>1. fe <= sl[i].offset /\ sl[i].offset + sl[i].length <= PageSize
        BY <2>1 DEF LayoutOf
      <4>2. SlotSize * Len(sl) \in Nat
        BY LayoutAssumption
      <4>3. fe >= HeaderSize
        BY <4>2, LayoutAssumption DEF LayoutOf
      <4> QED
        BY <4>1, <4>3, <2>1, <1>1
    <3>2. \A j \in DOMAIN sl : c \notin SlotSpan(j)
      BY <3>1, SlotBelowRows
    <3>3. c # 0 /\ c \in 0 .. PageSize - 1
      BY <3>1, LayoutAssumption
    <3> QED
      BY <3>2, <3>3 DEF Serialise
  <2> QED
    BY <2>2 DEF RowAt
<1> QED
  BY <1>5, <1>6, <1>7, <1>8

(***************************************************************************)
(* What the two ways of changing the slot array do to the layout and to    *)
(* the rows the page holds.                                                *)
(***************************************************************************)
NewSlot(fe, row) == [offset |-> fe - Len(row), length |-> Len(row)]
Emptied(sl, s) == [sl EXCEPT ![s].length = 0]

LEMMA PlaceKeepsLayout ==
  ASSUME NEW sl \in Seq(Slot), NEW fs \in Nat, NEW fe \in Nat,
         LayoutOf(sl, fs, fe), NEW row \in Rows,
         Len(row) + SlotSize <= fe - fs
  PROVE  /\ NewSlot(fe, row) \in Slot
         /\ Append(sl, NewSlot(fe, row)) \in Seq(Slot)
         /\ fs + SlotSize \in Nat
         /\ fe - Len(row) \in Nat
         /\ LayoutOf(Append(sl, NewSlot(fe, row)), fs + SlotSize, fe - Len(row))
<1> DEFINE new == NewSlot(fe, row)
           app == Append(sl, new)
<1>1. /\ Len(row) \in Nat \ {0} /\ Len(sl) \in Nat
      /\ SlotSize \in Nat \ {0} /\ HeaderSize \in Nat /\ PageSize \in Nat
  BY CellsOfRow, LayoutAssumption
<1>2. /\ fs = HeaderSize + SlotSize * Len(sl)
      /\ fs <= fe /\ fe <= PageSize
  BY DEF LayoutOf
<1>3. fs + SlotSize \in Nat /\ fe - Len(row) \in Nat
  BY <1>1
<1>4. new \in Slot /\ new.offset = fe - Len(row) /\ new.length = Len(row)
  BY <1>1, <1>3 DEF NewSlot, Slot
<1>5. /\ app \in Seq(Slot) /\ Len(app) = Len(sl) + 1
      /\ app[Len(sl) + 1] = new
      /\ \A i \in DOMAIN sl : app[i] = sl[i]
      /\ \A i \in DOMAIN app : i \in DOMAIN sl \/ i = Len(sl) + 1
  BY <1>4
<1>6. fs + SlotSize = HeaderSize + SlotSize * Len(app)
  <2>1. SlotSize * (Len(sl) + 1) = SlotSize * Len(sl) + SlotSize
    BY <1>1
  <2> QED
    BY <1>1, <1>2, <1>5, <2>1
<1>7. ASSUME NEW i \in DOMAIN app, app[i].length # 0
      PROVE  /\ fe - Len(row) <= app[i].offset
             /\ app[i].offset + app[i].length <= PageSize
  <2>1. CASE i \in DOMAIN sl
    <3>1. fe <= sl[i].offset /\ sl[i].offset + sl[i].length <= PageSize
      BY <1>5, <1>7, <2>1 DEF LayoutOf
    <3> QED
      BY <1>1, <1>5, <2>1, <3>1, SlotFields
  <2>2. CASE i = Len(sl) + 1
    BY <1>1, <1>2, <1>4, <1>5, <2>2
  <2> QED
    BY <1>5, <2>1, <2>2
<1>8. ASSUME NEW i \in DOMAIN app, NEW j \in DOMAIN app,
             i # j, app[i].length # 0, app[j].length # 0
      PROVE  \/ app[i].offset + app[i].length <= app[j].offset
             \/ app[j].offset + app[j].length <= app[i].offset
  <2>1. CASE i \in DOMAIN sl /\ j \in DOMAIN sl
    BY <1>5, <1>8, <2>1 DEF LayoutOf
  <2>2. CASE i \in DOMAIN sl /\ j = Len(sl) + 1
    <3>1. fe <= sl[i].offset
      BY <1>5, <1>8, <2>2 DEF LayoutOf
    <3> QED
      BY <1>1, <1>4, <1>5, <2>2, <3>1, SlotFields
  <2>3. CASE j \in DOMAIN sl /\ i = Len(sl) + 1
    <3>1. fe <= sl[j].offset
      BY <1>5, <1>8, <2>3 DEF LayoutOf
    <3> QED
      BY <1>1, <1>4, <1>5, <2>3, <3>1, SlotFields
  <2> QED
    BY <1>5, <1>8, <2>1, <2>2, <2>3
<1>9. LayoutOf(app, fs + SlotSize, fe - Len(row))
  <2>1. fs + SlotSize <= fe - Len(row) /\ fe - Len(row) <= PageSize
    BY <1>1, <1>2
  <2> HIDE DEF app
  <2> QED
    BY <1>6, <1>7, <1>8, <2>1 DEF LayoutOf
<1> QED
  BY <1>3, <1>4, <1>5, <1>9

LEMMA EmptiedFields ==
  ASSUME NEW sl \in Seq(Slot), NEW s \in DOMAIN sl
  PROVE  /\ Emptied(sl, s) \in Seq(Slot)
         /\ Len(Emptied(sl, s)) = Len(sl)
         /\ Emptied(sl, s)[s].length = 0
         /\ \A i \in DOMAIN sl : i # s => Emptied(sl, s)[i] = sl[i]
<1>1. Emptied(sl, s) = [sl EXCEPT ![s] = [sl[s] EXCEPT !.length = 0]]
  BY DEF Emptied
<1>2. [sl[s] EXCEPT !.length = 0] \in Slot
  BY SlotFields DEF Slot
<1>3. [sl[s] EXCEPT !.length = 0].length = 0
  BY SlotFields
<1> DEFINE e == [sl[s] EXCEPT !.length = 0]
<1> HIDE DEF e
<1>4. /\ [sl EXCEPT ![s] = e] \in Seq(Slot)
      /\ Len([sl EXCEPT ![s] = e]) = Len(sl)
      /\ [sl EXCEPT ![s] = e][s] = e
      /\ \A i \in DOMAIN sl : i # s => [sl EXCEPT ![s] = e][i] = sl[i]
  BY <1>2, ExceptSeq DEF e
<1> QED
  BY <1>1, <1>3, <1>4 DEF e

LEMMA EmptiedKeepsLayout ==
  ASSUME NEW sl \in Seq(Slot), NEW fs \in Nat, NEW fe \in Nat,
         LayoutOf(sl, fs, fe), NEW s \in DOMAIN sl
  PROVE  /\ Emptied(sl, s) \in Seq(Slot)
         /\ LayoutOf(Emptied(sl, s), fs, fe)
<1> DEFINE e == Emptied(sl, s)
<1>1. /\ e \in Seq(Slot) /\ Len(e) = Len(sl) /\ DOMAIN e = DOMAIN sl
      /\ e[s].length = 0 /\ \A i \in DOMAIN sl : i # s => e[i] = sl[i]
  BY EmptiedFields
<1> HIDE DEF e
<1>2. LayoutOf(e, fs, fe)
  BY <1>1 DEF LayoutOf
<1> QED
  BY <1>1, <1>2 DEF e

LEMMA ViewIsSeq ==
  ASSUME NEW sl \in Seq(Slot), NEW bytes
  PROVE  /\ View(sl, bytes) \in Seq({RowAt(bytes, sl[i]) : i \in DOMAIN sl})
         /\ Len(View(sl, bytes)) = Len(sl)
         /\ DOMAIN View(sl, bytes) = DOMAIN sl
BY DEF View

LEMMA RowAtEmpty ==
  ASSUME NEW bytes, NEW slot, slot.length = 0
  PROVE  RowAt(bytes, slot) = <<>>
BY DEF RowAt

LEMMA PlaceView ==
  ASSUME NEW sl \in Seq(Slot), NEW fs \in Nat, NEW fe \in Nat,
         LayoutOf(sl, fs, fe), NEW row \in Rows, NEW bytes \in Bytes,
         Len(row) + SlotSize <= fe - fs
  PROVE  View(Append(sl, NewSlot(fe, row)), WriteAt(bytes, fe - Len(row), row))
           = Append(View(sl, bytes), row)
<1> DEFINE new == NewSlot(fe, row)
           app == Append(sl, new)
           w == WriteAt(bytes, fe - Len(row), row)
<1>1. /\ Len(row) \in Nat \ {0} /\ Len(sl) \in Nat
      /\ fe - Len(row) \in Nat /\ fe <= PageSize /\ PageSize \in Nat
      /\ fe - Len(row) + Len(row) = fe
  BY CellsOfRow, LayoutAssumption, PlaceKeepsLayout DEF LayoutOf
<1>2. new \in Slot /\ new.offset = fe - Len(row) /\ new.length = Len(row)
  BY PlaceKeepsLayout DEF NewSlot
<1>3. RowAt(w, new) = row
  BY <1>1, <1>2, WriteAtWrites
<1>4. ASSUME NEW i \in DOMAIN sl
      PROVE  RowAt(w, sl[i]) = RowAt(bytes, sl[i])
  <2>1. sl[i].length = 0 \/ (/\ fe <= sl[i].offset
                             /\ sl[i].offset + sl[i].length <= PageSize)
    BY DEF LayoutOf
  <2>2. /\ sl[i] \in Slot
        /\ \/ sl[i].length = 0
           \/ /\ sl[i].offset + sl[i].length <= PageSize
              /\ \/ sl[i].offset + sl[i].length <= fe - Len(row)
                 \/ fe - Len(row) + Len(row) <= sl[i].offset
    BY <1>1, <2>1, SlotFields
  <2>3. fe - Len(row) + Len(row) <= PageSize
    BY <1>1
  <2> QED
    BY <1>1, <2>2, <2>3, WriteAtWrites
<1>5. /\ app \in Seq(Slot) /\ DOMAIN app = 1 .. Len(sl) + 1
      /\ app[Len(sl) + 1] = new /\ \A i \in DOMAIN sl : app[i] = sl[i]
  BY <1>2
<1> DEFINE v == View(sl, bytes)
<1>6. /\ v \in Seq({RowAt(bytes, sl[i]) : i \in DOMAIN sl})
      /\ Len(v) = Len(sl) /\ \A i \in DOMAIN sl : v[i] = RowAt(bytes, sl[i])
  BY ViewIsSeq DEF View
<1>7. Append(v, row) = [i \in 1 .. Len(sl) + 1 |->
                          IF i = Len(sl) + 1 THEN row ELSE v[i]]
  <2> DEFINE T == {RowAt(bytes, sl[i]) : i \in DOMAIN sl} \cup {row}
  <2>1. v \in Seq(T)
    BY <1>6, SeqMonotonic
  <2>2. row \in T
    OBVIOUS
  <2> HIDE DEF v, T
  <2>3. /\ Append(v, row) \in Seq(T) /\ Len(Append(v, row)) = Len(sl) + 1
        /\ Append(v, row)[Len(sl) + 1] = row
        /\ \A i \in 1 .. Len(sl) : Append(v, row)[i] = v[i]
    BY <1>1, <1>6, <2>1, <2>2, AppendProperties
  <2> DEFINE a == Append(v, row)
  <2>4. a = [i \in 1 .. Len(sl) + 1 |-> a[i]]
    <3>1. a \in Seq(T) /\ Len(a) = Len(sl) + 1
      BY <2>3
    <3> HIDE DEF a
    <3> QED
      BY <1>1, <3>1
  <2> QED
    BY <1>1, <2>3, <2>4
<1>8. View(app, w) = [i \in 1 .. Len(sl) + 1 |-> RowAt(w, app[i])]
  <2> HIDE DEF app, w
  <2> QED
    BY <1>5 DEF View
<1>9. ASSUME NEW i \in 1 .. Len(sl) + 1
      PROVE  RowAt(w, app[i]) = IF i = Len(sl) + 1 THEN row ELSE v[i]
  <2> HIDE DEF app, w, v, new
  <2>1. CASE i = Len(sl) + 1
    BY <1>3, <1>5, <2>1
  <2>2. CASE i # Len(sl) + 1
    <3>1. i \in DOMAIN sl
      BY <1>1, <2>2
    <3> QED
      BY <1>4, <1>5, <1>6, <2>2, <3>1
  <2> QED
    BY <2>1, <2>2
<1> HIDE DEF app, w, v
<1>10. View(app, w) = Append(v, row)
  BY <1>7, <1>8, <1>9
<1> QED
  BY <1>10 DEF app, w, v

LEMMA EmptiedView ==
  ASSUME NEW sl \in Seq(Slot), NEW s \in DOMAIN sl, NEW bytes
  PROVE  View(Emptied(sl, s), bytes) = [View(sl, bytes) EXCEPT ![s] = <<>>]
<1>1. /\ DOMAIN Emptied(sl, s) = DOMAIN sl
      /\ Emptied(sl, s)[s].length = 0
      /\ \A i \in DOMAIN sl : i # s => Emptied(sl, s)[i] = sl[i]
  BY EmptiedFields
<1>2. RowAt(bytes, Emptied(sl, s)[s]) = <<>>
  BY <1>1, RowAtEmpty
<1> QED
  BY <1>1, <1>2 DEF View

(***************************************************************************)
(* The inductive invariant: TypeOK and Layout, and the types of what is    *)
(* read back from the serialised page.                                     *)
(***************************************************************************)
PageInv ==
    /\ TypeOK
    /\ Layout
    /\ ImageSlots(image) \in Seq(Slot)
    /\ ImageFreeStart(image) \in Nat
    /\ ImageFreeEnd(image) \in Nat

LEMMA EmptyPage ==
  /\ <<>> \in Seq(Slot)
  /\ HeaderSize \in Nat /\ PageSize \in Nat
  /\ [c \in 0 .. PageSize - 1 |-> Blank] \in Bytes
  /\ LayoutOf(<<>>, HeaderSize, PageSize)
<1>1. SlotSize * 0 = 0
  BY LayoutAssumption
<1>2. LayoutOf(<<>>, HeaderSize, PageSize)
  BY <1>1, LayoutAssumption DEF LayoutOf
<1> QED
  BY <1>2, LayoutAssumption DEF Bytes, Cell

LEMMA InitPageInv == Init => PageInv
<1> SUFFICES ASSUME Init PROVE PageInv
  OBVIOUS
<1>1. data = Serialise(<<>>, HeaderSize, PageSize,
                       [c \in 0 .. PageSize - 1 |-> Blank])
  BY DEF Init
<1>2. /\ data \in Bytes /\ ImageSlots(data) = <<>>
      /\ ImageFreeStart(data) = HeaderSize /\ ImageFreeEnd(data) = PageSize
  BY <1>1, EmptyPage, SerialiseRoundTrip
<1> QED
  BY <1>2, EmptyPage DEF Init, PageInv, TypeOK, Layout

(* What a page operation that writes a row, on the slot array sl, does.    *)
LEMMA PlacePageInv ==
  ASSUME PageInv, NEW sl \in Seq(Slot), LayoutOf(sl, freeStart, freeEnd),
         NEW row \in Rows, Fits(row), Place(sl, row), UNCHANGED image
  PROVE  PageInv' /\ View(slots', data') = Append(View(sl, data), row)
<1>1. /\ freeStart \in Nat /\ freeEnd \in Nat /\ data \in Bytes
      /\ Len(row) + SlotSize <= freeEnd - freeStart
  BY DEF PageInv, TypeOK, Fits
<1>2. /\ slots' = Append(sl, NewSlot(freeEnd, row))
      /\ freeStart' = freeStart + SlotSize
      /\ freeEnd' = freeEnd - Len(row)
      /\ data' = WriteAt(data, freeEnd - Len(row), row)
      /\ result' = Len(sl) + 1
  BY DEF Place, NewSlot
<1>3. /\ slots' \in Seq(Slot) /\ freeStart' \in Nat /\ freeEnd' \in Nat
      /\ LayoutOf(slots', freeStart', freeEnd')
  BY <1>1, <1>2, PlaceKeepsLayout
<1>4. data' \in Bytes
  <2>1. /\ freeEnd - Len(row) + Len(row) = freeEnd /\ freeEnd <= PageSize
        /\ freeEnd - Len(row) \in Nat
    BY <1>1, <1>2, <1>3, CellsOfRow DEF LayoutOf
  <2> QED
    BY <1>1, <1>2, <2>1, WriteAtWrites
<1>5. result' \in Nat
  BY <1>2
<1>6. PageInv'
  BY <1>3, <1>4, <1>5 DEF PageInv, TypeOK, Layout
<1>7. View(slots', data') = Append(View(sl, data), row)
  BY <1>1, <1>2, PlaceView
<1> QED
  BY <1>6, <1>7

LEMMA DeletedPageInv ==
  ASSUME PageInv, NEW s \in DOMAIN slots
  PROVE  /\ Deleted(s) \in Seq(Slot)
         /\ Len(Deleted(s)) = Len(slots)
         /\ LayoutOf(Deleted(s), freeStart, freeEnd)
         /\ View(Deleted(s), data) = [View(slots, data) EXCEPT ![s] = <<>>]
<1>1. Deleted(s) = Emptied(slots, s)
  BY DEF Deleted, Emptied
<1> QED
  BY <1>1, EmptiedKeepsLayout, EmptiedFields, EmptiedView
     DEF PageInv, TypeOK, Layout

(* In place, only the row of slot s changes.                               *)
LEMMA InPlacePageInv ==
  ASSUME PageInv, NEW s \in DOMAIN slots, NEW row \in Rows,
         InPlace(s, row)
  PROVE  LET w == WriteAt(data, slots[s].offset, row)
         IN  /\ w \in Bytes
             /\ View(slots, w) = [View(slots, data) EXCEPT ![s] = row]
<1> DEFINE w == WriteAt(data, slots[s].offset, row)
<1>1. slots \in Seq(Slot) /\ data \in Bytes
  BY DEF PageInv, TypeOK
<1>2. /\ slots[s] \in Slot /\ slots[s].offset \in Nat
      /\ slots[s].length = Len(row) /\ slots[s].length # 0
  BY <1>1, SlotFields DEF InPlace
<1>3. slots[s].offset + Len(row) <= PageSize
  BY <1>2 DEF PageInv, Layout, LayoutOf
<1>4. w \in Bytes /\ RowAt(w, slots[s]) = row
  BY <1>1, <1>2, <1>3, WriteAtWrites
<1>5. ASSUME NEW i \in DOMAIN slots, i # s
      PROVE  RowAt(w, slots[i]) = RowAt(data, slots[i])
  <2>1. slots[i] \in Slot
    BY <1>1, SlotFields
  <2>2. \/ slots[i].length = 0
        \/ /\ slots[i].offset + slots[i].length <= PageSize
           /\ \/ slots[i].offset + slots[i].length <= slots[s].offset
              \/ slots[s].offset + Len(row) <= slots[i].offset
    BY <1>2, <1>5 DEF PageInv, Layout, LayoutOf
  <2> QED
    BY <1>1, <1>2, <1>3, <2>1, <2>2, WriteAtWrites
<1> HIDE DEF w
<1>6. View(slots, w) = [View(slots, data) EXCEPT ![s] = row]
  BY <1>4, <1>5 DEF View
<1> QED
  BY <1>4, <1>6 DEF w

LEMMA ToBytesPageInv ==
  ASSUME PageInv
  PROVE  LET b == Serialise(slots, freeStart, freeEnd, data)
         IN  /\ b \in Bytes
             /\ ImageSlots(b) = slots
             /\ ImageFreeStart(b) = freeStart
             /\ ImageFreeEnd(b) = freeEnd
             /\ View(slots, b) = View(slots, data)
<1> DEFINE b == Serialise(slots, freeStart, freeEnd, data)
<1>1. /\ b \in Bytes /\ ImageSlots(b) = slots
      /\ ImageFreeStart(b) = freeStart /\ ImageFreeEnd(b) = freeEnd
      /\ \A i \in DOMAIN slots : RowAt(b, slots[i]) = RowAt(data, slots[i])
  BY SerialiseRoundTrip DEF PageInv, TypeOK, Layout
<1> HIDE DEF b
<1>2. View(slots, b) = View(slots, data)
  BY <1>1 DEF View
<1> QED
  BY <1>1, <1>2 DEF b

LEMMA NextPageInv == PageInv /\ [Next]_vars => PageInv'
<1> SUFFICES ASSUME PageInv, [Next]_vars PROVE PageInv'
  OBVIOUS
<1>1. ASSUME NEW row \in Rows, InsertRow(row) PROVE PageInv'
  BY <1>1, PlacePageInv DEF InsertRow, PageInv, TypeOK, Layout
<1>2. ASSUME NEW row \in Rows, InsertRefused(row) PROVE PageInv'
  BY <1>2 DEF InsertRefused, page, PageInv, TypeOK, Layout
<1>3. ASSUME NEW s \in DOMAIN slots, DeleteRow(s) PROVE PageInv'
  BY <1>3, DeletedPageInv DEF DeleteRow, PageInv, TypeOK, Layout
<1>4. ASSUME NEW s \in DOMAIN slots, NEW row \in Rows, UpdateInPlace(s, row)
      PROVE  PageInv'
  <2>1. data' \in Bytes
    BY <1>4, InPlacePageInv DEF UpdateInPlace
  <2>2. result' \in Nat
    <3>1. slots \in Seq(Slot)
      BY DEF PageInv, TypeOK
    <3> QED
      BY <1>4, <3>1 DEF UpdateInPlace
  <2> QED
    BY <1>4, <2>1, <2>2 DEF UpdateInPlace, PageInv, TypeOK, Layout
<1>5. ASSUME NEW s \in DOMAIN slots, NEW row \in Rows, UpdateMoves(s, row)
      PROVE  PageInv'
  BY <1>5, DeletedPageInv, PlacePageInv DEF UpdateMoves
<1>6. ASSUME NEW s \in DOMAIN slots, NEW row \in Rows, UpdateLoses(s, row)
      PROVE  PageInv'
  BY <1>6, DeletedPageInv DEF UpdateLoses, PageInv, TypeOK, Layout
<1>7. CASE ToBytes
  <2>1. /\ data' \in Bytes /\ image' = data'
        /\ ImageSlots(image') = slots
        /\ ImageFreeStart(image') = freeStart
        /\ ImageFreeEnd(image') = freeEnd
    BY <1>7, ToBytesPageInv DEF ToBytes
  <2> QED
    BY <1>7, <2>1 DEF ToBytes, PageInv, TypeOK, Layout
<1>8. CASE FromBytes
  BY <1>8 DEF FromBytes, PageInv, TypeOK, Layout
<1>9. CASE UNCHANGED vars
  BY <1>9 DEF vars, PageInv, TypeOK, Layout
<1> QED
  BY <1>1, <1>2, <1>3, <1>4, <1>5, <1>6, <1>7, <1>8, <1>9 DEF Next

(***************************************************************************)
(* PageInvariant: the inductive invariant holds in every reachable state,  *)
(* for every geometry of the page.                                         *)
(***************************************************************************)
THEOREM PageInvariant == Spec => []PageInv
<1> QED
  BY InitPageInv, NextPageInv, PTL DEF Spec

(* PageTypes: TypeOK, whatever the sizes: no offset leaves the page.       *)
THEOREM PageTypes == Spec => []TypeOK
<1>1. PageInv => TypeOK
  BY DEF PageInv
<1> QED
  BY <1>1, PageInvariant, PTL

(* PageLayout: the slot array never meets the rows and live rows never     *)
(* overlap, in memory and in the serialised page.                          *)
THEOREM PageLayout == Spec => []Layout
<1>1. PageInv => Layout
  BY DEF PageInv
<1> QED
  BY <1>1, PageInvariant, PTL

(***************************************************************************)
(* The page implements the list of rows.                                   *)
(***************************************************************************)
LEMMA InitRefines == Init => Abstract!Init
<1> SUFFICES ASSUME Init PROVE Abstract!Init
  OBVIOUS
<1>1. slots = <<>> /\ ImageSlots(image) = <<>>
  BY EmptyPage, SerialiseRoundTrip DEF Init
<1>2. ASSUME NEW bytes PROVE View(<<>>, bytes) = <<>>
  <2>1. <<>> \in Seq(Slot)
    BY EmptyPage
  <2>2. DOMAIN View(<<>>, bytes) = 1 .. 0
    BY <2>1 DEF View
  <2> QED
    BY <2>2 DEF View
<1> QED
  BY <1>1, <1>2 DEF Init, Abstract!Init

LEMMA NextRefines ==
  PageInv /\ [Next]_vars => [Abstract!Next]_(Abstract!vars)
<1> SUFFICES ASSUME PageInv, [Next]_vars
             PROVE  [Abstract!Next]_(Abstract!vars)
  OBVIOUS
<1> DEFINE V == View(slots, data)
           S == View(ImageSlots(image), image)
<1>0. /\ slots \in Seq(Slot) /\ DOMAIN V = DOMAIN slots
      /\ Len(V) = Len(slots) /\ Len(slots) \in Nat
  <2>1. slots \in Seq(Slot)
    BY DEF PageInv, TypeOK
  <2> QED
    BY <2>1, ViewIsSeq DEF View
<1>1. ASSUME NEW row \in Rows, InsertRow(row) PROVE Abstract!Insert(row)
  <2>1. View(slots, data)' = Append(V, row) /\ result' = Len(V) + 1
    BY <1>0, <1>1, PlacePageInv DEF InsertRow, Place, PageInv, Layout
  <2>2. S' = S
    BY <1>1 DEF InsertRow
  <2> QED
    BY <2>1, <2>2 DEF Abstract!Insert
<1>2. ASSUME NEW row \in Rows, InsertRefused(row) PROVE Abstract!Refuse
  BY <1>2 DEF InsertRefused, page, Abstract!Refuse
<1>3. ASSUME NEW s \in DOMAIN slots, DeleteRow(s) PROVE Abstract!Delete(s)
  <2>1. V' = [V EXCEPT ![s] = <<>>] /\ S' = S
    BY <1>3, DeletedPageInv DEF DeleteRow
  <2> QED
    BY <1>3, <2>1 DEF DeleteRow, Abstract!Delete
<1>4. ASSUME NEW s \in DOMAIN slots, NEW row \in Rows, UpdateInPlace(s, row)
      PROVE  Abstract!Rewrite(s, row)
  <2>1. V' = [V EXCEPT ![s] = row] /\ S' = S /\ result' = s
    BY <1>4, InPlacePageInv DEF UpdateInPlace
  <2>2. V[s] # <<>>
    <3>1. slots[s].length \in Nat /\ slots[s].length # 0
      BY <1>0, <1>4, SlotFields DEF UpdateInPlace, InPlace
    <3>2. 1 \in DOMAIN RowAt(data, slots[s])
      BY <3>1 DEF RowAt
    <3>3. V[s] = RowAt(data, slots[s])
      BY DEF View
    <3> QED
      BY <3>2, <3>3
  <2> QED
    BY <2>1, <2>2 DEF Abstract!Rewrite
<1>5. ASSUME NEW s \in DOMAIN slots, NEW row \in Rows, UpdateMoves(s, row)
      PROVE  Abstract!Move(s, row)
  <2>1. /\ V' = Append([V EXCEPT ![s] = <<>>], row)
        /\ result' = Len(V) + 1
    BY <1>0, <1>5, DeletedPageInv, PlacePageInv DEF UpdateMoves, Place
  <2>2. S' = S
    BY <1>5 DEF UpdateMoves
  <2> QED
    BY <2>1, <2>2 DEF Abstract!Move
<1>6. ASSUME NEW s \in DOMAIN slots, NEW row \in Rows, UpdateLoses(s, row)
      PROVE  Abstract!MoveRefused(s)
  <2>1. V' = [V EXCEPT ![s] = <<>>] /\ S' = S
    BY <1>6, DeletedPageInv DEF UpdateLoses
  <2> QED
    BY <1>6, <2>1 DEF UpdateLoses, Abstract!MoveRefused
<1>7. ASSUME ToBytes PROVE Abstract!Save
  <2>1. V' = V /\ S' = V
    BY <1>7, ToBytesPageInv DEF ToBytes
  <2> QED
    BY <1>7, <2>1 DEF ToBytes, Abstract!Save
<1>8. ASSUME FromBytes PROVE Abstract!Reload
  BY <1>8 DEF FromBytes, Abstract!Reload
<1>9. ASSUME UNCHANGED vars PROVE UNCHANGED Abstract!vars
  BY <1>9 DEF vars, Abstract!vars
<1> QED
  BY <1>0, <1>1, <1>2, <1>3, <1>4, <1>5, <1>6, <1>7, <1>8, <1>9
     DEF Next, Abstract!Next

(* PageIsARowStore: on a page of any geometry, a slot number always reads  *)
(* back the row last stored under it, across to_bytes and from_bytes.      *)
THEOREM PageIsARowStore == Spec => PageStoresRows
<1> QED
  BY InitRefines, NextRefines, PageInvariant, PTL
     DEF Spec, PageStoresRows, Abstract!Spec

-----------------------------------------------------------------------------
(* SlotsNotReused: an emptied slot stays empty in every operation of the   *)
(* page, and no slot disappears (page.py:33-61): slot numbers are for ever.*)
KeepsEmpty(sl) ==
    /\ Len(sl) >= Len(slots)
    /\ \A s \in DOMAIN slots : slots[s].length = 0 => sl[s].length = 0

LEMMA AppendKeepsEmpty ==
  ASSUME slots \in Seq(Slot), NEW sl \in Seq(Slot), NEW slot \in Slot,
         KeepsEmpty(sl)
  PROVE  KeepsEmpty(Append(sl, slot))
<1>1. /\ Len(Append(sl, slot)) = Len(sl) + 1
      /\ Len(sl) \in Nat /\ Len(slots) \in Nat
      /\ \A i \in 1 .. Len(sl) : Append(sl, slot)[i] = sl[i]
      /\ DOMAIN slots = 1 .. Len(slots)
  OBVIOUS
<1>2. \A s \in DOMAIN slots : s \in 1 .. Len(sl)
  BY <1>1 DEF KeepsEmpty
<1> QED
  BY <1>1, <1>2 DEF KeepsEmpty

(* Slots only get more, and one that was emptied stays empty, unless an    *)
(* older image of the page is read back.                                   *)
THEOREM PageKeepsSlots == Spec => SlotsNotReused
<1>1. ASSUME PageInv, [Next]_vars
      PROVE  FromBytes \/ KeepsEmpty(slots')
  <2>1. slots \in Seq(Slot) /\ Len(slots) \in Nat
    BY <1>1 DEF PageInv, TypeOK
  <2>2. KeepsEmpty(slots)
    BY <2>1 DEF KeepsEmpty
  <2>3. ASSUME NEW s \in DOMAIN slots
        PROVE  Deleted(s) \in Seq(Slot) /\ KeepsEmpty(Deleted(s))
    <3>1. Deleted(s) \in Seq(Slot) /\ Len(Deleted(s)) = Len(slots)
      BY <1>1, DeletedPageInv
    <3>2. \A i \in DOMAIN slots :
              Deleted(s)[i].length = IF i = s THEN 0 ELSE slots[i].length
      BY <2>1 DEF Deleted, Slot
    <3> QED
      BY <2>1, <3>1, <3>2 DEF KeepsEmpty
  <2>4. ASSUME NEW sl \in Seq(Slot), KeepsEmpty(sl),
               NEW row \in Rows, Fits(row), Place(sl, row)
        PROVE  KeepsEmpty(slots')
    <3>1. freeEnd - Len(row) \in Nat /\ Len(row) \in Nat
      BY <1>1, <2>4, CellsOfRow, LayoutAssumption
         DEF PageInv, TypeOK, Layout, LayoutOf, Fits
    <3>2. [offset |-> freeEnd - Len(row), length |-> Len(row)] \in Slot
      BY <3>1 DEF Slot
    <3> QED
      BY <2>1, <2>4, <3>2, AppendKeepsEmpty DEF Place
  <2>5. ASSUME NEW row \in Rows, InsertRow(row)
        PROVE  KeepsEmpty(slots')
    BY <2>1, <2>2, <2>4, <2>5 DEF InsertRow
  <2>6. ASSUME NEW s \in DOMAIN slots, DeleteRow(s)
        PROVE  KeepsEmpty(slots')
    BY <2>3, <2>6 DEF DeleteRow
  <2>7. ASSUME NEW s \in DOMAIN slots, NEW row \in Rows,
               UpdateMoves(s, row) \/ UpdateLoses(s, row)
        PROVE  KeepsEmpty(slots')
    BY <2>3, <2>4, <2>7 DEF UpdateMoves, UpdateLoses
  <2>8. ASSUME UNCHANGED slots
        PROVE  KeepsEmpty(slots')
    BY <2>2, <2>8
  <2> QED
    BY <1>1, <2>5, <2>6, <2>7, <2>8
       DEF Next, InsertRefused, page, UpdateInPlace, ToBytes, vars
<1>2. ASSUME PageInv, [Next]_vars
      PROVE  [\/ FromBytes
              \/ /\ Len(slots') >= Len(slots)
                 /\ \A s \in DOMAIN slots :
                       slots[s].length = 0 => slots'[s].length = 0]_vars
  BY <1>1, <1>2 DEF KeepsEmpty
<1> QED
  BY <1>2, PageInvariant, PTL DEF Spec, SlotsNotReused

=============================================================================
