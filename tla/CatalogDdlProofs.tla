-------------------------- MODULE CatalogDdlProofs --------------------------
(***************************************************************************)
(* CREATE and DROP keep what they have promised, whatever write raises and *)
(* wherever the process is killed: for any tables, layouts and page size   *)
(* of the catalog, and any number of faults and kills.                     *)
(***************************************************************************)
EXTENDS CatalogDdl, FiniteSetTheorems, SequenceTheorems, TLAPS

Slots == {Gone} \cup {Row(t, k) : t \in Tables, k \in Nat}
PageLists == Seq(Seq(Slots))
Cell(pages, x) == pages[x[1]][x[2]]

-----------------------------------------------------------------------------
(* Lemmas on the rows of the catalog.                                      *)

LEMMA SlotKinds ==
    /\ Gone \in Slots /\ Gone.table \notin Tables
    /\ \A t \in Tables, k \in Nat :
          Row(t, k) \in Slots /\ Row(t, k).table = t /\ Row(t, k).position = k
    /\ \A c \in Slots : c.table \in Tables =>
          c = Row(c.table, c.position) /\ c.position \in Nat
<1>1. NoTable \notin Tables
  BY CatalogAssumption
<1>2. /\ Gone \in Slots /\ Gone.table = NoTable
  BY DEF Slots, Gone
<1>3. ASSUME NEW t \in Tables, NEW k \in Nat
      PROVE  Row(t, k) \in Slots /\ Row(t, k).table = t /\ Row(t, k).position = k
  <2>1. Row(t, k) \in Slots
    BY DEF Slots
  <2> QED
    BY <2>1 DEF Row
<1>4. ASSUME NEW c \in Slots, c.table \in Tables
      PROVE  c = Row(c.table, c.position) /\ c.position \in Nat
  <2>1. PICK t \in Tables, k \in Nat : c = Row(t, k)
    BY <1>1, <1>2, <1>4 DEF Slots
  <2> QED
    BY <1>3, <2>1
<1> QED
  BY <1>1, <1>2, <1>3, <1>4

LEMMA PlaceOf ==
    ASSUME NEW pages
    PROVE  /\ \A i, s : <<i, s>> \in Places(pages) <=>
                            i \in DOMAIN pages /\ s \in DOMAIN pages[i]
           /\ \A x \in Places(pages) :
                 /\ x = <<x[1], x[2]>>
                 /\ x[1] \in DOMAIN pages /\ x[2] \in DOMAIN pages[x[1]]
<1> QED
  BY DEF Places

(* Pages of the same shape have the same places.                           *)
LEMMA SameShape ==
    ASSUME NEW pages, NEW others, DOMAIN pages = DOMAIN others,
           \A i \in DOMAIN pages : DOMAIN pages[i] = DOMAIN others[i]
    PROVE  Places(pages) = Places(others)
<1>1. \A x \in Places(pages) : x \in Places(others)
  <2> TAKE x \in Places(pages)
  <2>1. /\ x = <<x[1], x[2]>>
        /\ x[1] \in DOMAIN others /\ x[2] \in DOMAIN others[x[1]]
    BY PlaceOf
  <2>2. <<x[1], x[2]>> \in Places(others)
    BY <2>1, PlaceOf
  <2> QED
    BY <2>1, <2>2
<1>2. \A x \in Places(others) : x \in Places(pages)
  <2> TAKE x \in Places(others)
  <2>1. /\ x = <<x[1], x[2]>>
        /\ x[1] \in DOMAIN pages /\ x[2] \in DOMAIN pages[x[1]]
    BY PlaceOf
  <2>2. <<x[1], x[2]>> \in Places(pages)
    BY <2>1, PlaceOf
  <2> QED
    BY <2>1, <2>2
<1> QED
  BY <1>1, <1>2

LEMMA FunctionIsPages ==
    ASSUME NEW n \in Nat, NEW f \in [1 .. n -> Seq(Slots)]
    PROVE  f \in PageLists /\ Len(f) = n /\ DOMAIN f = 1 .. n
<1> QED
  BY DEF PageLists

LEMMA NoPlaces == Places(<<>>) = {} /\ \A t : RowsOf(t, <<>>) = {}
<1> QED
  BY DEF Places, RowsOf

LEMMA RowsAreCells ==
    ASSUME NEW t, NEW pages
    PROVE  RowsOf(t, pages) =
               {x \in Places(pages) : Cell(pages, x).table = t}
<1> QED
  BY DEF RowsOf, Cell

LEMMA PlacesFinite ==
    ASSUME NEW pages \in PageLists
    PROVE  /\ IsFiniteSet(Places(pages))
           /\ \A t : /\ IsFiniteSet(RowsOf(t, pages))
                     /\ Cardinality(RowsOf(t, pages)) \in Nat
<1> DEFINE n == Len(pages)
           P(k) == {x \in Places(pages) : x[1] = k}
           all == {P(k) : k \in 1 .. n}
<1>1. /\ n \in Nat /\ DOMAIN pages = 1 .. n
      /\ \A i \in 1 .. n : Len(pages[i]) \in Nat /\ DOMAIN pages[i] = 1 .. Len(pages[i])
  BY DEF PageLists
<1>2. ASSUME NEW k \in 1 .. n
      PROVE  IsFiniteSet(P(k))
  <2> DEFINE w == Len(pages[k])
             f == [x \in P(k) |-> x[2]]
  <2>1. w \in Nat /\ DOMAIN pages[k] = 1 .. w
    BY <1>1
  <2>2. f \in Injection(P(k), 1 .. w)
    <3>1. \A x \in P(k) : x = <<k, x[2]>> /\ x[2] \in 1 .. w
      BY <2>1, PlaceOf
    <3> HIDE DEF P, w
    <3>2. f \in [P(k) -> 1 .. w] /\ \A x, y \in P(k) : f[x] = f[y] => x = y
      BY <3>1
    <3> QED
      BY <3>2 DEF Injection, IsInjective
  <2> HIDE DEF P, f, w
  <2>3. IsFiniteSet(1 .. w)
    <3>1. 1 \in Int /\ w \in Int
      BY <2>1
    <3> QED
      BY <3>1, FS_Interval
  <2> QED
    BY <2>2, <2>3, FS_Injection
<1>3. IsFiniteSet(all)
  <2> DEFINE g == [k \in 1 .. n |-> P(k)]
  <2>1. IsFiniteSet(1 .. n)
    <3> HIDE DEF n
    <3>1. 1 \in Int /\ n \in Int
      BY <1>1
    <3> QED
      BY <3>1, FS_Interval
  <2>2. g \in Surjection(1 .. n, all)
    <3> HIDE DEF P, n
    <3> QED
      BY DEF Surjection
  <2> HIDE DEF all, g, n
  <2> QED
    BY <2>1, <2>2, FS_Surjection
<1>4. \A S \in all : IsFiniteSet(S)
  <2> HIDE DEF P, n
  <2> QED
    BY <1>2
<1>5. Places(pages) = UNION all
  <2>1. \A x \in Places(pages) : x[1] \in 1 .. n
    BY <1>1, PlaceOf
  <2> HIDE DEF n
  <2> QED
    BY <2>1
<1>6. IsFiniteSet(Places(pages))
  <2> HIDE DEF all
  <2> QED
    BY <1>3, <1>4, <1>5, FS_UNION
<1>7. ASSUME NEW t
      PROVE  /\ IsFiniteSet(RowsOf(t, pages))
             /\ Cardinality(RowsOf(t, pages)) \in Nat
  <2>1. RowsOf(t, pages) \subseteq Places(pages)
    BY DEF RowsOf
  <2> QED
    BY <1>6, <2>1, FS_Subset, FS_CardinalityType
<1> QED
  BY <1>6, <1>7

(* The positions of a table's rows, cell by cell.                          *)
LEMMA PositionsOf ==
    ASSUME NEW t, NEW pages
    PROVE  Positions(t, pages) =
               {Cell(pages, x).position : x \in RowsOf(t, pages)}
<1> QED
  BY DEF Positions, Cell

(* Pages that agree on a table agree on all that is asked of its rows.     *)
SameRows(t, pages, others) ==
    /\ RowsOf(t, pages) = RowsOf(t, others)
    /\ \A x \in RowsOf(t, others) : Cell(pages, x) = Cell(others, x)

LEMMA SamePositions ==
    ASSUME NEW t, NEW pages, NEW others, SameRows(t, pages, others)
    PROVE  Positions(t, pages) = Positions(t, others)
<1> QED
  BY PositionsOf DEF SameRows

(* One row more.                                                           *)
LEMMA OneRowMore ==
    ASSUME NEW pages \in PageLists, NEW more \in PageLists, NEW p,
           p \notin Places(pages), Places(more) = Places(pages) \cup {p},
           \A x \in Places(pages) : Cell(more, x) = Cell(pages, x),
           NEW t \in Tables, NEW k \in Nat, Cell(more, p) = Row(t, k)
    PROVE  /\ RowsOf(t, more) = RowsOf(t, pages) \cup {p}
           /\ Positions(t, more) = Positions(t, pages) \cup {k}
           /\ Cardinality(RowsOf(t, more)) = Cardinality(RowsOf(t, pages)) + 1
           /\ \A u : u # t => SameRows(u, more, pages)
<1>1. Row(t, k).table = t /\ Row(t, k).position = k
  BY SlotKinds
<1>2. RowsOf(t, more) = RowsOf(t, pages) \cup {p} /\ p \notin RowsOf(t, pages)
  BY <1>1, RowsAreCells
<1>3. Positions(t, more) = Positions(t, pages) \cup {k}
  <2>1. \A x \in RowsOf(t, pages) : Cell(more, x) = Cell(pages, x)
    BY RowsAreCells
  <2> QED
    BY <1>1, <1>2, <2>1, PositionsOf
<1>4. Cardinality(RowsOf(t, more)) = Cardinality(RowsOf(t, pages)) + 1
  BY <1>2, PlacesFinite, FS_AddElement
<1>5. ASSUME NEW u, u # t PROVE SameRows(u, more, pages)
  BY <1>1, <1>5, RowsAreCells DEF SameRows
<1> QED
  BY <1>2, <1>3, <1>4, <1>5

-----------------------------------------------------------------------------
(* What the steps do to the pages.                                         *)

LEMMA ErasedPages ==
    ASSUME pool \in PageLists, NEW t \in Tables
    PROVE  /\ Erased(t) \in PageLists /\ Len(Erased(t)) = Len(pool)
           /\ RowsOf(t, Erased(t)) = {}
           /\ \A u \in Tables : u # t => SameRows(u, Erased(t), pool)
           /\ \A i \in DOMAIN pool \ PagesOf(t) : Erased(t)[i] = pool[i]
           /\ PagesOf(t) \subseteq DOMAIN pool
<1> DEFINE new == Erased(t)
<1>1. /\ Len(pool) \in Nat /\ DOMAIN pool = 1 .. Len(pool)
      /\ \A i \in DOMAIN pool :
            /\ pool[i] \in Seq(Slots) /\ Len(pool[i]) \in Nat
            /\ DOMAIN pool[i] = 1 .. Len(pool[i])
            /\ \A s \in DOMAIN pool[i] : pool[i][s] \in Slots
  BY DEF PageLists
<1>2. /\ DOMAIN new = DOMAIN pool
      /\ \A i \in DOMAIN pool :
            new[i] = [s \in DOMAIN pool[i] |->
                        IF pool[i][s].table = t THEN Gone ELSE pool[i][s]]
  BY DEF Erased
<1> HIDE DEF new
<1>3. ASSUME NEW i \in DOMAIN pool
      PROVE  new[i] \in Seq(Slots) /\ DOMAIN new[i] = DOMAIN pool[i]
  <2>1. new[i] \in [1 .. Len(pool[i]) -> Slots]
    BY <1>1, <1>2, SlotKinds
  <2> QED
    BY <1>1, <2>1
<1>4. new \in PageLists /\ Len(new) = Len(pool)
  <2>1. new \in [1 .. Len(pool) -> Seq(Slots)]
    <3>1. new = [i \in DOMAIN pool |-> new[i]]
      BY <1>2 DEF new, Erased
    <3> QED
      BY <1>1, <1>3, <3>1
  <2>2. Len(pool) \in Nat
    BY <1>1
  <2> QED
    BY <2>1, <2>2, FunctionIsPages
<1>5. Places(new) = Places(pool)
  BY <1>2, <1>3, SameShape
<1>6. \A x \in Places(pool) :
          /\ x[1] \in DOMAIN pool /\ x[2] \in DOMAIN pool[x[1]]
          /\ Cell(new, x) = IF Cell(pool, x).table = t THEN Gone ELSE Cell(pool, x)
  BY <1>2, PlaceOf DEF Cell
<1>7. RowsOf(t, new) = {}
  BY <1>5, <1>6, RowsAreCells, SlotKinds
<1>8. ASSUME NEW u \in Tables, u # t
      PROVE  SameRows(u, new, pool)
  <2>1. \A x \in Places(pool) :
            Cell(new, x).table = u <=> Cell(pool, x).table = u
    BY <1>6, <1>8, SlotKinds
  <2>3. RowsOf(u, new) = RowsOf(u, pool)
    BY <1>5, <2>1, RowsAreCells
  <2>2. \A x \in RowsOf(u, pool) : Cell(new, x) = Cell(pool, x)
    BY <1>6, <1>8, RowsAreCells
  <2> QED
    BY <2>2, <2>3 DEF SameRows
<1>9. ASSUME NEW i \in DOMAIN pool \ PagesOf(t)
      PROVE  new[i] = pool[i]
  <2>1. \A s \in DOMAIN pool[i] : pool[i][s].table # t
    <3> SUFFICES ASSUME NEW s \in DOMAIN pool[i], pool[i][s].table = t
                 PROVE  FALSE
      OBVIOUS
    <3>1. <<i, s>> \in RowsOf(t, pool)
      BY PlaceOf, RowsAreCells DEF Cell
    <3> QED
      BY <3>1 DEF PagesOf
  <2>2. pool[i] = [s \in DOMAIN pool[i] |-> pool[i][s]]
    BY <1>1
  <2> QED
    BY <1>2, <2>1, <2>2
<1>10. PagesOf(t) \subseteq DOMAIN pool
  BY <1>6, RowsAreCells DEF PagesOf
<1> QED
  BY <1>4, <1>7, <1>8, <1>9, <1>10 DEF new

RowAdded(pages, i, r) == [pages EXCEPT ![i] = Append(@, r)]

LEMMA AppendedRow ==
    ASSUME NEW pages \in PageLists, NEW i \in DOMAIN pages, NEW r \in Slots
    PROVE  LET more == RowAdded(pages, i, r)
               p == <<i, Len(pages[i]) + 1>>
           IN
           /\ more \in PageLists /\ Len(more) = Len(pages)
           /\ p \notin Places(pages) /\ Places(more) = Places(pages) \cup {p}
           /\ \A x \in Places(pages) : Cell(more, x) = Cell(pages, x)
           /\ Cell(more, p) = r
<1> DEFINE more == RowAdded(pages, i, r)
           w == Len(pages[i]) + 1
<1>1. /\ Len(pages) \in Nat /\ DOMAIN pages = 1 .. Len(pages)
      /\ \A j \in DOMAIN pages : pages[j] \in Seq(Slots)
      /\ Len(pages[i]) \in Nat /\ DOMAIN pages[i] = 1 .. Len(pages[i])
  BY DEF PageLists
<1>2. /\ Append(pages[i], r) \in Seq(Slots)
      /\ DOMAIN Append(pages[i], r) = 1 .. w
      /\ Append(pages[i], r)[w] = r
      /\ \A s \in 1 .. Len(pages[i]) : Append(pages[i], r)[s] = pages[i][s]
  BY <1>1
<1>3. /\ more \in PageLists /\ Len(more) = Len(pages)
      /\ DOMAIN more = DOMAIN pages
      /\ more[i] = Append(pages[i], r)
      /\ \A j \in DOMAIN pages : j # i => more[j] = pages[j]
  <2>1. more \in [1 .. Len(pages) -> Seq(Slots)]
    BY <1>1, <1>2 DEF RowAdded
  <2> QED
    BY <1>1, <1>2, <2>1 DEF PageLists, RowAdded
<1> HIDE DEF more
<1>4. <<i, w>> \notin Places(pages)
  BY <1>1, PlaceOf
<1>5. Places(more) = Places(pages) \cup {<<i, w>>}
  <2>1. \A j, s : <<j, s>> \in Places(more) <=>
                    <<j, s>> \in Places(pages) \/ (j = i /\ s = w)
    <3> TAKE j, s
    <3>1. CASE j = i
      BY <1>1, <1>2, <1>3, <3>1, PlaceOf
    <3>2. CASE j # i
      BY <1>3, <3>2, PlaceOf
    <3> QED
      BY <3>1, <3>2
  <2> QED
    BY <2>1, PlaceOf
<1>6. \A x \in Places(pages) : Cell(more, x) = Cell(pages, x)
  <2> TAKE x \in Places(pages)
  <2>1. x[1] \in DOMAIN pages /\ x[2] \in DOMAIN pages[x[1]]
    BY PlaceOf
  <2>2. CASE x[1] = i
    BY <1>1, <1>2, <1>3, <2>1, <2>2 DEF Cell
  <2>3. CASE x[1] # i
    BY <1>3, <2>1, <2>3 DEF Cell
  <2> QED
    BY <2>2, <2>3
<1>7. Cell(more, <<i, w>>) = r
  BY <1>2, <1>3 DEF Cell
<1> QED
  BY <1>3, <1>4, <1>5, <1>6, <1>7 DEF more

PageAdded(pages, page) == Append(pages, page)

LEMMA AppendedPage ==
    ASSUME NEW pages \in PageLists, NEW page \in Seq(Slots)
    PROVE  LET more == PageAdded(pages, page)
               n == Len(pages) + 1
           IN
           /\ more \in PageLists /\ Len(more) = n /\ more[n] = page
           /\ \A i \in DOMAIN pages : more[i] = pages[i]
           /\ \A x : x \in Places(more) <=>
                 \/ x \in Places(pages)
                 \/ \E s \in DOMAIN page : x = <<n, s>>
           /\ \A s : <<n, s>> \notin Places(pages)
           /\ \A x \in Places(pages) : Cell(more, x) = Cell(pages, x)
           /\ \A s \in DOMAIN page : Cell(more, <<n, s>>) = page[s]
<1> DEFINE more == PageAdded(pages, page)
           n == Len(pages) + 1
<1>1. Len(pages) \in Nat /\ DOMAIN pages = 1 .. Len(pages)
  BY DEF PageLists
<1>2. /\ more \in PageLists /\ Len(more) = n /\ DOMAIN more = 1 .. n
      /\ more[n] = page
      /\ \A i \in DOMAIN pages : more[i] = pages[i]
  BY <1>1 DEF PageLists, PageAdded
<1> HIDE DEF more
<1>3. \A s : <<n, s>> \notin Places(pages)
  BY <1>1, PlaceOf
<1>4. \A i, s : <<i, s>> \in Places(more) <=>
                  <<i, s>> \in Places(pages) \/ (i = n /\ s \in DOMAIN page)
  <2> TAKE i, s
  <2>1. CASE i = n
    BY <1>1, <1>2, <2>1, PlaceOf
  <2>2. CASE i # n
    <3>1. i \in DOMAIN more <=> i \in DOMAIN pages
      BY <1>1, <1>2, <2>2
    <3> QED
      BY <1>2, <2>2, <3>1, PlaceOf
  <2> QED
    BY <2>1, <2>2
<1>5. \A x : x \in Places(more) <=>
                 \/ x \in Places(pages)
                 \/ \E s \in DOMAIN page : x = <<n, s>>
  <2> HIDE DEF n
  <2> QED
    BY <1>4, PlaceOf
<1>6. \A x \in Places(pages) : Cell(more, x) = Cell(pages, x)
  <2> TAKE x \in Places(pages)
  <2>1. x[1] \in DOMAIN pages
    BY PlaceOf
  <2> QED
    BY <1>2, <2>1 DEF Cell
<1>7. \A s \in DOMAIN page : Cell(more, <<n, s>>) = page[s]
  BY <1>2 DEF Cell
<1> QED
  BY <1>2, <1>3, <1>5, <1>6, <1>7 DEF more

LEMMA WrittenPage ==
    ASSUME disk \in PageLists, pool \in PageLists, Len(pool) = Len(disk),
           NEW i \in DOMAIN pool, disk' = [disk EXCEPT ![i] = pool[i]]
    PROVE  /\ disk' \in PageLists /\ Len(disk') = Len(disk)
           /\ disk'[i] = pool[i]
           /\ \A j \in DOMAIN disk : j # i => disk'[j] = disk[j]
           /\ \A t : /\ RowsOf(t, disk') \subseteq RowsOf(t, disk) \cup RowsOf(t, pool)
                     /\ SameRows(t, pool, disk) => SameRows(t, disk', disk)
<1>1. /\ Len(disk) \in Nat /\ DOMAIN disk = 1 .. Len(disk)
      /\ DOMAIN pool = 1 .. Len(disk) /\ pool[i] \in Seq(Slots)
      /\ \A j \in DOMAIN disk : disk[j] \in Seq(Slots)
  BY DEF PageLists
<1>2. /\ disk' \in PageLists /\ Len(disk') = Len(disk)
      /\ DOMAIN disk' = DOMAIN disk
      /\ disk'[i] = pool[i]
      /\ \A j \in DOMAIN disk : j # i => disk'[j] = disk[j]
  <2>1. disk' \in [1 .. Len(disk) -> Seq(Slots)]
    BY <1>1
  <2> QED
    BY <1>1, <2>1 DEF PageLists
<1>3. \A x : x \in Places(disk') <=>
                 IF x[1] = i THEN x \in Places(pool) ELSE x \in Places(disk)
  <2>1. \A j, s : <<j, s>> \in Places(disk') <=>
                    IF j = i THEN <<j, s>> \in Places(pool)
                    ELSE <<j, s>> \in Places(disk)
    BY <1>1, <1>2, PlaceOf
  <2>2. \A pages : \A x \in Places(pages) : x = <<x[1], x[2]>>
    BY PlaceOf
  <2> TAKE x
  <2>3. CASE x = <<x[1], x[2]>>
    BY <2>1, <2>3
  <2>4. CASE x # <<x[1], x[2]>>
    BY <2>2, <2>4
  <2> QED
    BY <2>3, <2>4
<1>4. \A x \in Places(disk') :
          Cell(disk', x) = IF x[1] = i THEN Cell(pool, x) ELSE Cell(disk, x)
  <2> TAKE x \in Places(disk')
  <2>1. x[1] \in DOMAIN disk
    BY <1>2, PlaceOf
  <2> QED
    BY <1>2, <2>1 DEF Cell
<1>5. ASSUME NEW t
      PROVE  \A x : x \in RowsOf(t, disk') <=>
                        IF x[1] = i THEN x \in RowsOf(t, pool)
                        ELSE x \in RowsOf(t, disk)
  BY <1>3, <1>4, RowsAreCells
<1>6. ASSUME NEW t, SameRows(t, pool, disk)
      PROVE  SameRows(t, disk', disk)
  <2>1. RowsOf(t, disk') = RowsOf(t, disk)
    BY <1>5, <1>6 DEF SameRows
  <2>2. RowsOf(t, disk) \subseteq Places(disk')
    BY <2>1, RowsAreCells
  <2> QED
    BY <1>4, <1>6, <2>1, <2>2 DEF SameRows
<1> QED
  BY <1>2, <1>5, <1>6

LEMMA SameRowsCompose ==
    ASSUME NEW t, NEW a, NEW b, SameRows(t, a, b)
    PROVE  /\ SameRows(t, b, a)
           /\ \A c : SameRows(t, b, c) => SameRows(t, a, c)
<1> QED
  BY DEF SameRows

LEMMA SameAsItself == \A t, a : SameRows(t, a, a)
<1> QED
  BY DEF SameRows

-----------------------------------------------------------------------------
(* The inductive invariant: what was promised, by which statement, and     *)
(* where the rows of the other tables are.                                 *)

Up == pc \notin {"down", "bootstrap"}
Registering == pc = "register" \/ (pc = "flush" /\ op = "create")
InStatement ==
    pc \in {"creating", "register", "remove"} \/ (pc = "flush" /\ op # "close")

TypeInv ==
    /\ pc \in {"down", "bootstrap", "idle", "creating", "register", "flush",
               "remove"}
    /\ op \in {"create", "undo", "drop", "close"}
    /\ column \in Nat
    /\ undoFailed \in BOOLEAN
    /\ InStatement => table \in Tables
    /\ pc \in {"creating", "register"} => op = "create"
    /\ pc = "creating" => column = 0
    /\ pc = "remove" => op \in {"undo", "drop"}
    /\ DOMAIN catalog \subseteq Tables
    /\ pool \in PageLists /\ disk \in PageLists
    /\ dirty \subseteq DOMAIN pool
    /\ file \in [Tables -> {"none", "unusable", "usable"}]
    /\ told \in [Tables -> {"absent", "present", "unknown"}]
    /\ columns \in [Tables -> Nat \ {0}]
    /\ faults \in Nat /\ crashes \in Nat

(* The pool has the pages of the file, but for the dirty ones.             *)
CacheInv ==
    /\ catFile = "none" \/ pc = "bootstrap" => disk = <<>>
    /\ ~ Up => pool = <<>> /\ dirty = {} /\ DOMAIN catalog = {}
    /\ Up => /\ catFile # "none"
             /\ Len(pool) = Len(disk)
             /\ \A i \in DOMAIN pool \ dirty : pool[i] = disk[i]

DiskInv ==
    /\ PublishedIsDurable
    /\ \A t \in Tables : told[t] = "absent" =>
          RowsOf(t, disk) = {} /\ file[t] = "none"

(* No page of the pool differs from the file in a row of a published       *)
(* table, so a flush that stops half-way loses none of them.               *)
MemoryInv ==
    Up => \A t \in Tables :
        /\ told[t] = "present" =>
              /\ t \in DOMAIN catalog /\ catalog[t] = columns[t]
              /\ SameRows(t, pool, disk)
        /\ told[t] = "absent" => t \notin DOMAIN catalog
        /\ t \notin DOMAIN catalog =>
              RowsOf(t, pool) = {} \/ (Registering /\ table = t)

StatementInv ==
    /\ InStatement => told[table] = "unknown"
    /\ InStatement /\ (op = "drop" => pc = "remove") =>
          table \notin DOMAIN catalog
    /\ Registering => /\ file[table] = "usable"
                      /\ column <= columns[table]
                      /\ Positions(table, pool) = 0 .. column - 1
                      /\ Cardinality(RowsOf(table, pool)) = column
    /\ pc = "flush" /\ op = "create" => column = columns[table]
    /\ pc = "flush" /\ op = "drop" => RowsOf(table, pool) = {}
    /\ pc = "remove" /\ ~ undoFailed => RowsOf(table, disk) = {}

CoreInv == TypeInv /\ CacheInv /\ DiskInv /\ MemoryInv /\ StatementInv

(* When nothing is dirty, the pool is the file.                            *)
LEMMA CleanIsFlushed ==
    ASSUME CoreInv, Up, dirty = {}
    PROVE  pool = disk
<1>1. /\ Len(pool) = Len(disk) /\ \A i \in DOMAIN pool : pool[i] = disk[i]
  BY DEF CoreInv, CacheInv
<1>2. \A pages \in PageLists :
          pages \in [1 .. Len(pages) -> Seq(Slots)] /\ DOMAIN pages = 1 .. Len(pages)
  BY DEF PageLists
<1>3. pool \in PageLists /\ disk \in PageLists
  BY DEF CoreInv, TypeInv
<1>4. pool \in [1 .. Len(pool) -> Seq(Slots)] /\ disk \in [1 .. Len(pool) -> Seq(Slots)]
  BY <1>1, <1>2, <1>3
<1> QED
  BY <1>1, <1>4

LEMMA CoreInit == Init => CoreInv
<1> SUFFICES ASSUME Init PROVE CoreInv
  OBVIOUS
<1>1. TypeInv
  <2>1. <<>> \in PageLists /\ DOMAIN <<>> = {}
    BY DEF PageLists
  <2> QED
    BY <2>1, CatalogAssumption DEF Init, TypeInv, InStatement
<1>2. CacheInv
  BY DEF Init, CacheInv, Up
<1>3. DiskInv
  <2>1. \A t \in Tables : told[t] = "absent" /\ file[t] = "none"
                            /\ RowsOf(t, disk) = {}
    BY NoPlaces DEF Init
  <2> QED
    BY <2>1 DEF DiskInv, PublishedIsDurable
<1>4. MemoryInv /\ StatementInv
  BY DEF Init, MemoryInv, StatementInv, Up, InStatement, Registering
<1> QED
  BY <1>1, <1>2, <1>3, <1>4 DEF CoreInv

(* A step that only moves on, outside any statement.                       *)
LEMMA BootstrapStep ==
    ASSUME CoreInv, Bootstrap \/ Bootstrapped
    PROVE  CoreInv'
<1> USE DEF CoreInv, statement, cache, budget, vars
<1>1. TypeInv' /\ CacheInv'
  <2>1. TypeInv'
    BY DEF Bootstrap, Bootstrapped, TypeInv, InStatement
  <2>2. CacheInv'
    BY NoPlaces DEF Bootstrap, Bootstrapped, CacheInv, Up, TypeInv
  <2> QED
    BY <2>1, <2>2
<1>2. DiskInv'
  BY DEF Bootstrap, Bootstrapped, DiskInv, PublishedIsDurable
<1>3. MemoryInv'
  <2>1. CASE Bootstrap
    BY <2>1 DEF Bootstrap, MemoryInv, Up
  <2>2. CASE Bootstrapped
    <3>1. /\ pool = <<>> /\ disk = <<>> /\ DOMAIN catalog = {}
      BY <2>2 DEF Bootstrapped, CacheInv, Up
    <3>2. \A t \in Tables : told[t] # "present"
      <4> SUFFICES ASSUME NEW t \in Tables, told[t] = "present" PROVE FALSE
        OBVIOUS
      <4>1. Cardinality(RowsOf(t, disk)) = columns[t] /\ RowsOf(t, disk) = {}
        BY <3>1, NoPlaces DEF DiskInv, PublishedIsDurable
      <4> QED
        BY <4>1, FS_EmptySet DEF TypeInv
    <3> QED
      BY <2>2, <3>1, <3>2, NoPlaces DEF Bootstrapped, MemoryInv
  <2> QED
    BY <2>1, <2>2
<1>4. StatementInv'
  BY DEF Bootstrap, Bootstrapped, StatementInv, InStatement, Registering
<1> QED
  BY <1>1, <1>2, <1>3, <1>4

LEMMA LoadStep ==
    ASSUME CoreInv, Load
    PROVE  CoreInv'
<1> USE DEF CoreInv, statement, cache, files, budget, vars
<1>1. /\ pool' = disk /\ disk' = disk /\ dirty' = {} /\ pc' = "idle"
      /\ catalog' = [t \in Registered(disk) |-> Cardinality(RowsOf(t, disk))]
      /\ UNCHANGED <<table, column, undoFailed, op, file, told, columns, faults,
                     crashes>>
  BY DEF Load
<1>2. TypeInv'
  BY <1>1 DEF TypeInv, InStatement, Registered
<1>3. CacheInv'
  BY <1>1 DEF CacheInv, TypeInv, Up, Load
<1>4. DiskInv'
  BY <1>1 DEF DiskInv, PublishedIsDurable
<1>5. MemoryInv'
  <2> SUFFICES ASSUME NEW t \in Tables
               PROVE  /\ told[t] = "present" =>
                            /\ t \in DOMAIN catalog' /\ catalog'[t] = columns[t]
                            /\ SameRows(t, disk, disk)
                      /\ told[t] = "absent" => t \notin DOMAIN catalog'
                      /\ t \notin DOMAIN catalog' => RowsOf(t, disk) = {}
    BY <1>1 DEF MemoryInv
  <2>1. t \in DOMAIN catalog' <=> RowsOf(t, disk) # {}
    BY <1>1 DEF Registered
  <2>2. ASSUME told[t] = "present"
        PROVE  RowsOf(t, disk) # {} /\ catalog'[t] = columns[t]
    <3>1. Cardinality(RowsOf(t, disk)) = columns[t] /\ columns[t] # 0
      BY <2>2 DEF DiskInv, PublishedIsDurable, TypeInv
    <3>2. RowsOf(t, disk) # {}
      BY <3>1, FS_EmptySet
    <3> QED
      BY <1>1, <3>1, <3>2 DEF Registered
  <2> QED
    BY <2>1, <2>2, SameAsItself DEF DiskInv
<1>6. StatementInv'
  BY <1>1 DEF StatementInv, InStatement, Registering
<1> QED
  BY <1>2, <1>3, <1>4, <1>5, <1>6

-----------------------------------------------------------------------------
(* CREATE TABLE.                                                           *)

LEMMA CreateFileStep ==
    ASSUME CoreInv, NEW t \in Tables, CreateFile(t)
    PROVE  CoreInv'
<1> USE DEF CoreInv, cache, budget
<1>1. /\ pc = "idle" /\ pc' = "creating" /\ t \notin DOMAIN catalog
      /\ op' = "create" /\ table' = t /\ column' = 0 /\ undoFailed' = FALSE
      /\ file' = [file EXCEPT ![t] = "unusable"]
      /\ told' = [told EXCEPT ![t] = "unknown"]
      /\ UNCHANGED <<catalog, pool, dirty, catFile, disk, columns, faults, crashes>>
  BY DEF CreateFile
<1>2. /\ told'[t] = "unknown"
      /\ \A u \in Tables : u # t => told'[u] = told[u] /\ file'[u] = file[u]
  BY <1>1 DEF TypeInv
<1>3. TypeInv'
  BY <1>1 DEF TypeInv, InStatement
<1>4. CacheInv'
  BY <1>1 DEF CacheInv, Up
<1>5. DiskInv'
  <2> SUFFICES ASSUME NEW u \in Tables
               PROVE  /\ told'[u] = "present" =>
                            /\ Positions(u, disk) = 0 .. columns[u] - 1
                            /\ Cardinality(RowsOf(u, disk)) = columns[u]
                            /\ file'[u] = "usable"
                      /\ told'[u] = "absent" =>
                            RowsOf(u, disk) = {} /\ file'[u] = "none"
    BY <1>1 DEF DiskInv, PublishedIsDurable
  <2> QED
    BY <1>2 DEF DiskInv, PublishedIsDurable
<1>6. MemoryInv'
  BY <1>1, <1>2 DEF MemoryInv, Up, Registering
<1>7. StatementInv'
  BY <1>1, <1>2 DEF StatementInv, InStatement, Registering
<1> QED
  BY <1>3, <1>4, <1>5, <1>6, <1>7

(* Before the first column is registered, the table has no row.            *)
LEMMA FileCreatedStep ==
    ASSUME CoreInv, FileCreated
    PROVE  CoreInv'
<1> USE DEF CoreInv, statement, cache, budget
<1>1. /\ pc = "creating" /\ pc' = "register"
      /\ file' = [file EXCEPT ![table] = "usable"]
      /\ UNCHANGED <<op, table, column, undoFailed, catalog, pool, dirty, catFile,
                     disk, told, columns, faults, crashes>>
  BY DEF FileCreated
<1>2. /\ table \in Tables /\ op = "create" /\ column = 0
      /\ told[table] = "unknown" /\ table \notin DOMAIN catalog
      /\ file'[table] = "usable"
      /\ \A u \in Tables : u # table => file'[u] = file[u]
  BY <1>1 DEF TypeInv, StatementInv, InStatement
<1>3. TypeInv' /\ CacheInv'
  BY <1>1, <1>2 DEF TypeInv, CacheInv, Up, InStatement
<1>4. DiskInv'
  <2> SUFFICES ASSUME NEW u \in Tables
               PROVE  /\ told[u] = "present" =>
                            /\ Positions(u, disk) = 0 .. columns[u] - 1
                            /\ Cardinality(RowsOf(u, disk)) = columns[u]
                            /\ file'[u] = "usable"
                      /\ told[u] = "absent" =>
                            RowsOf(u, disk) = {} /\ file'[u] = "none"
    BY <1>1 DEF DiskInv, PublishedIsDurable
  <2> QED
    BY <1>2 DEF DiskInv, PublishedIsDurable
<1>5. RowsOf(table, pool) = {}
  BY <1>1, <1>2 DEF MemoryInv, Up, Registering
<1>6. MemoryInv'
  BY <1>1 DEF MemoryInv, Up, Registering
<1>7. StatementInv'
  <2>1. Positions(table, pool) = {}
    BY <1>5, PositionsOf
  <2>2. Cardinality(RowsOf(table, pool)) = 0
    BY <1>5, FS_EmptySet
  <2>3. 0 .. column - 1 = {} /\ column <= columns[table]
    BY <1>2 DEF TypeInv
  <2> QED
    BY <1>1, <1>2, <2>1, <2>2, <2>3 DEF StatementInv, InStatement, Registering
<1> QED
  BY <1>3, <1>4, <1>6, <1>7

(* The steps that only end a statement, or hand it over to the flush.      *)
LEMMA MovesOnStep ==
    ASSUME CoreInv,
           CreateFileFails \/ RegisterDone \/ DropFlushFails \/ RemoveFails \/ Close
    PROVE  CoreInv'
<1> USE DEF CoreInv, statement, cache, files, budget, Fault
<1>1. /\ UNCHANGED <<table, column, undoFailed, catalog, pool, dirty, catFile, disk,
                     file, told, columns, crashes>>
      /\ faults' \in Nat
  BY DEF CreateFileFails, RegisterDone, DropFlushFails, RemoveFails, Close, TypeInv
<1>2. \/ /\ pc = "register" /\ op = "create" /\ op' = op /\ pc' = "flush"
         /\ column = columns[table]
      \/ pc \notin {"down", "bootstrap"} /\ op' = op /\ pc' = "idle" /\ ~ Registering
      \/ pc = "idle" /\ op' = "close" /\ pc' = "flush"
  BY DEF CreateFileFails, RegisterDone, DropFlushFails, RemoveFails, Close, TypeInv,
         Registering
<1>3. Up /\ Up' /\ pc' # "bootstrap" /\ pc # "bootstrap" /\ (Registering' => Registering)
      /\ (Registering' <=> Registering)
  BY <1>2 DEF Up, Registering
<1>4. InStatement' => InStatement /\ op' = op /\ op = "create"
  BY <1>2 DEF InStatement
<1>5. TypeInv'
  BY <1>1, <1>2, <1>4 DEF TypeInv
<1>6. CacheInv'
  BY <1>1, <1>3 DEF CacheInv
<1>7. DiskInv'
  BY <1>1 DEF DiskInv, PublishedIsDurable
<1>8. MemoryInv'
  BY <1>1, <1>3 DEF MemoryInv
<1>9. StatementInv'
  BY <1>1, <1>2, <1>3, <1>4 DEF StatementInv
<1> QED
  BY <1>5, <1>6, <1>7, <1>8, <1>9

(* The promises about a table rest on its rows alone.                      *)
LEMMA DiskKept ==
    ASSUME DiskInv, UNCHANGED <<file, told, columns>>,
           \A t \in Tables : told[t] # "unknown" => SameRows(t, disk', disk)
    PROVE  DiskInv'
<1> SUFFICES ASSUME NEW t \in Tables
             PROVE  /\ told[t] = "present" =>
                          /\ Positions(t, disk') = 0 .. columns[t] - 1
                          /\ Cardinality(RowsOf(t, disk')) = columns[t]
                          /\ file[t] = "usable"
                    /\ told[t] = "absent" =>
                          RowsOf(t, disk') = {} /\ file[t] = "none"
  BY DEF DiskInv, PublishedIsDurable
<1>1. told[t] # "unknown" =>
          /\ RowsOf(t, disk') = RowsOf(t, disk)
          /\ Positions(t, disk') = Positions(t, disk)
  BY SamePositions DEF SameRows
<1> QED
  BY <1>1 DEF DiskInv, PublishedIsDurable

(* A row of the statement's table more, whatever page it is on.            *)
LEMMA RegisteredRow ==
    ASSUME CoreInv, pc = "register", column < columns[table],
           NEW p, p \notin Places(pool), Places(pool') = Places(pool) \cup {p},
           pool' \in PageLists, Cell(pool', p) = Row(table, column),
           \A x \in Places(pool) : Cell(pool', x) = Cell(pool, x),
           \A t \in Tables : SameRows(t, disk, disk'),
           dirty' \subseteq DOMAIN pool', disk' \in PageLists,
           Len(pool') = Len(disk'),
           \A i \in DOMAIN pool' \ dirty' : pool'[i] = disk'[i],
           column' = column + 1,
           UNCHANGED <<pc, op, table, undoFailed, catalog, catFile, file, told,
                       columns, faults, crashes>>
    PROVE  CoreInv'
<1> USE DEF CoreInv
<1>1. /\ table \in Tables /\ op = "create" /\ column \in Nat
      /\ pool \in PageLists /\ columns[table] \in Nat
      /\ told[table] = "unknown" /\ table \notin DOMAIN catalog
  BY DEF TypeInv, StatementInv, InStatement
<1>2. /\ RowsOf(table, pool') = RowsOf(table, pool) \cup {p}
      /\ Positions(table, pool') = Positions(table, pool) \cup {column}
      /\ Cardinality(RowsOf(table, pool')) = Cardinality(RowsOf(table, pool)) + 1
      /\ \A u : u # table => SameRows(u, pool', pool)
  BY <1>1, OneRowMore
<1>3. TypeInv'
  BY <1>1 DEF TypeInv, InStatement
<1>4. CacheInv'
  BY DEF CacheInv, Up
<1>5. DiskInv'
  <2>1. \A t \in Tables : SameRows(t, disk', disk)
    BY SameRowsCompose
  <2> QED
    BY <2>1, DiskKept
<1>6. MemoryInv'
  <2> SUFFICES ASSUME NEW t \in Tables
               PROVE  /\ told[t] = "present" =>
                            /\ t \in DOMAIN catalog /\ catalog[t] = columns[t]
                            /\ SameRows(t, pool', disk')
                      /\ told[t] = "absent" => t \notin DOMAIN catalog
                      /\ t \notin DOMAIN catalog => RowsOf(t, pool') = {} \/ table = t
    BY DEF MemoryInv, Registering
  <2>1. CASE t = table
    BY <1>1, <2>1
  <2>2. CASE t # table
    <3>1. SameRows(t, pool', pool)
      BY <1>2, <2>2
    <3>2. /\ told[t] = "present" =>
               t \in DOMAIN catalog /\ catalog[t] = columns[t] /\ SameRows(t, pool, disk)
          /\ told[t] = "absent" => t \notin DOMAIN catalog
          /\ t \notin DOMAIN catalog => RowsOf(t, pool) = {}
      BY <2>2 DEF MemoryInv, Up
    <3>3. told[t] = "present" => SameRows(t, pool', disk')
      BY <3>1, <3>2, SameRowsCompose
    <3>4. RowsOf(t, pool') = RowsOf(t, pool)
      BY <3>1 DEF SameRows
    <3> QED
      BY <3>2, <3>3, <3>4
  <2> QED
    BY <2>1, <2>2
<1>7. StatementInv'
  <2>1. /\ file[table] = "usable" /\ Positions(table, pool) = 0 .. column - 1
        /\ Cardinality(RowsOf(table, pool)) = column
    BY DEF StatementInv, Registering
  <2>2. /\ Positions(table, pool') = 0 .. (column + 1) - 1
        /\ Cardinality(RowsOf(table, pool')) = column + 1
        /\ column + 1 <= columns[table]
    BY <1>1, <1>2, <2>1
  <2> QED
    BY <1>1, <2>1, <2>2 DEF StatementInv, InStatement, Registering
<1> QED
  BY <1>3, <1>4, <1>5, <1>6, <1>7

LEMMA RegisterColumnStep ==
    ASSUME CoreInv, RegisterColumn
    PROVE  CoreInv'
<1> USE DEF CoreInv
<1>1. /\ pc = "register" /\ column < columns[table] /\ column' = column + 1
      /\ UNCHANGED <<pc, op, table, undoFailed, catalog, catFile, disk, file, told,
                     columns, faults, crashes>>
  BY DEF RegisterColumn, files, budget
<1>2. PICK i \in DOMAIN pool :
          /\ pool' = [pool EXCEPT ![i] = Append(@, Row(table, column))]
          /\ dirty' = dirty \cup {i}
  BY DEF RegisterColumn
<1>3. /\ table \in Tables /\ column \in Nat /\ pool \in PageLists /\ disk \in PageLists
      /\ dirty \subseteq DOMAIN pool
  BY <1>1 DEF TypeInv, InStatement
<1>4. Row(table, column) \in Slots
  BY <1>3, SlotKinds
<1> DEFINE p == <<i, Len(pool[i]) + 1>>
<1>5. /\ pool' \in PageLists /\ Len(pool') = Len(pool)
      /\ p \notin Places(pool) /\ Places(pool') = Places(pool) \cup {p}
      /\ \A x \in Places(pool) : Cell(pool', x) = Cell(pool, x)
      /\ Cell(pool', p) = Row(table, column)
  <2>1. pool' = RowAdded(pool, i, Row(table, column))
    BY <1>2 DEF RowAdded
  <2> QED
    BY <1>3, <1>4, <2>1, AppendedRow
<1> HIDE DEF p
<1>6. /\ DOMAIN pool' = DOMAIN pool
      /\ \A j \in DOMAIN pool : j # i => pool'[j] = pool[j]
  BY <1>2
<1>7. /\ dirty' \subseteq DOMAIN pool' /\ Len(pool') = Len(disk')
      /\ \A j \in DOMAIN pool' \ dirty' : pool'[j] = disk'[j]
  BY <1>1, <1>2, <1>3, <1>5, <1>6 DEF CacheInv, Up
<1>8. \A t \in Tables : SameRows(t, disk, disk')
  BY <1>1, SameAsItself
<1> QED
  BY <1>1, <1>3, <1>5, <1>7, <1>8, RegisteredRow

(* The new page has one row in the pool, none in the file.                 *)
LEMMA RowOnNewPage ==
    ASSUME CoreInv, RegisterOnNewPage
    PROVE  LET n == Len(pool) + 1
               p == <<n, 1>>
           IN  /\ pool' \in PageLists /\ Len(pool') = n
               /\ \A i \in DOMAIN pool : pool'[i] = pool[i]
               /\ p \notin Places(pool) /\ Places(pool') = Places(pool) \cup {p}
               /\ \A x \in Places(pool) : Cell(pool', x) = Cell(pool, x)
               /\ Cell(pool', p) = Row(table, column)
               /\ disk' \in PageLists /\ Len(disk') = Len(disk) + 1
               /\ \A i \in DOMAIN disk : disk'[i] = disk[i]
               /\ \A t \in Tables : SameRows(t, disk, disk')
<1> USE DEF CoreInv
<1> DEFINE r == Row(table, column)
           n == Len(pool) + 1
           p == <<n, 1>>
<1>1. /\ pc = "register" /\ column < columns[table] /\ column' = column + 1
      /\ disk' = Append(disk, <<>>) /\ pool' = Append(pool, <<r>>)
      /\ dirty' = dirty \cup {n}
      /\ UNCHANGED <<pc, op, table, undoFailed, catalog, catFile, file, told,
                     columns, faults, crashes>>
  BY DEF RegisterOnNewPage, budget
<1>2. /\ table \in Tables /\ column \in Nat /\ pool \in PageLists /\ disk \in PageLists
      /\ dirty \subseteq DOMAIN pool
  BY <1>1 DEF TypeInv, InStatement
<1>3. r \in Slots
  BY <1>2, SlotKinds
<1> HIDE DEF r
<1>4. /\ <<r>> \in Seq(Slots) /\ DOMAIN <<r>> = {1} /\ <<r>>[1] = r
      /\ <<>> \in Seq(Slots) /\ DOMAIN <<>> = {}
  BY <1>3
<1>5. /\ pool' \in PageLists /\ Len(pool') = n
      /\ \A i \in DOMAIN pool : pool'[i] = pool[i]
      /\ \A x : x \in Places(pool') <=> x \in Places(pool) \/ x = p
      /\ p \notin Places(pool)
      /\ \A x \in Places(pool) : Cell(pool', x) = Cell(pool, x)
      /\ Cell(pool', p) = r
  <2>1. \A x : (\E s \in DOMAIN <<r>> : x = <<n, s>>) <=> x = p
    BY <1>4
  <2>2. pool' = PageAdded(pool, <<r>>)
    BY <1>1 DEF PageAdded
  <2> DEFINE page == <<r>>
  <2>3. page \in Seq(Slots) /\ DOMAIN page = {1} /\ page[1] = r
    BY <1>4
  <2> HIDE DEF page
  <2>4. pool' = PageAdded(pool, page)
    BY <2>2 DEF page
  <2>5. /\ pool' \in PageLists /\ Len(pool') = n
        /\ \A i \in DOMAIN pool : pool'[i] = pool[i]
        /\ \A x : x \in Places(pool') <=>
              x \in Places(pool) \/ \E s \in DOMAIN page : x = <<n, s>>
        /\ \A s : <<n, s>> \notin Places(pool)
        /\ \A x \in Places(pool) : Cell(pool', x) = Cell(pool, x)
        /\ \A s \in DOMAIN page : Cell(pool', <<n, s>>) = page[s]
    BY <1>2, <2>3, <2>4, AppendedPage
  <2> QED
    BY <2>3, <2>5
<1>6. /\ disk' \in PageLists /\ Len(disk') = Len(disk) + 1
      /\ \A i \in DOMAIN disk : disk'[i] = disk[i]
      /\ \A x : x \in Places(disk') <=> x \in Places(disk)
      /\ \A x \in Places(disk) : Cell(disk', x) = Cell(disk, x)
  <2>1. disk' = PageAdded(disk, <<>>)
    BY <1>1 DEF PageAdded
  <2> DEFINE page == <<>>
             m == Len(disk) + 1
  <2>2. page \in Seq(Slots)
    OBVIOUS
  <2> HIDE DEF page
  <2>3. disk' = PageAdded(disk, page)
    BY <2>1 DEF page
  <2>4. /\ disk' \in PageLists /\ Len(disk') = m
        /\ \A i \in DOMAIN disk : disk'[i] = disk[i]
        /\ \A x : x \in Places(disk') <=>
              x \in Places(disk) \/ \E s \in DOMAIN page : x = <<m, s>>
        /\ \A s : <<m, s>> \notin Places(disk)
        /\ \A x \in Places(disk) : Cell(disk', x) = Cell(disk, x)
        /\ \A s \in DOMAIN page : Cell(disk', <<m, s>>) = page[s]
    BY <1>2, <2>2, <2>3, AppendedPage
  <2>5. DOMAIN page = {}
    BY DEF page
  <2> QED
    BY <2>4, <2>5
<1>7. ASSUME NEW t \in Tables
      PROVE  SameRows(t, disk, disk')
  <2>1. RowsOf(t, disk') = RowsOf(t, disk)
    BY <1>6, RowsAreCells
  <2>2. RowsOf(t, disk') \subseteq Places(disk)
    BY <2>1, RowsAreCells
  <2> QED
    BY <1>6, <2>1, <2>2 DEF SameRows
<1>8. Places(pool') = Places(pool) \cup {p}
  BY <1>5
<1> QED
  BY <1>5, <1>6, <1>7, <1>8 DEF r

LEMMA RegisterOnNewPageStep ==
    ASSUME CoreInv, RegisterOnNewPage
    PROVE  CoreInv'
<1> USE DEF CoreInv
<1> DEFINE n == Len(pool) + 1
           p == <<n, 1>>
<1>1. /\ pc = "register" /\ column < columns[table] /\ column' = column + 1
      /\ dirty' = dirty \cup {n}
      /\ UNCHANGED <<pc, op, table, undoFailed, catalog, catFile, file, told,
                     columns, faults, crashes>>
  BY DEF RegisterOnNewPage, budget
<1>2. /\ pool' \in PageLists /\ Len(pool') = n
      /\ \A i \in DOMAIN pool : pool'[i] = pool[i]
      /\ p \notin Places(pool) /\ Places(pool') = Places(pool) \cup {p}
      /\ \A x \in Places(pool) : Cell(pool', x) = Cell(pool, x)
      /\ Cell(pool', p) = Row(table, column)
      /\ disk' \in PageLists /\ Len(disk') = Len(disk) + 1
      /\ \A i \in DOMAIN disk : disk'[i] = disk[i]
      /\ \A t \in Tables : SameRows(t, disk, disk')
  <2> HIDE DEF CoreInv
  <2> QED
    BY RowOnNewPage
<1>3. /\ dirty' \subseteq DOMAIN pool' /\ Len(pool') = Len(disk')
      /\ \A i \in DOMAIN pool' \ dirty' : pool'[i] = disk'[i]
  <2>1. /\ Len(pool) \in Nat /\ Len(disk) = Len(pool) /\ dirty \subseteq DOMAIN pool
        /\ DOMAIN pool = 1 .. Len(pool) /\ DOMAIN disk = 1 .. Len(pool)
        /\ \A i \in DOMAIN pool \ dirty : pool[i] = disk[i]
    BY <1>1 DEF CacheInv, TypeInv, Up, PageLists
  <2>2. DOMAIN pool' = 1 .. n
    BY <1>2 DEF PageLists
  <2> QED
    BY <1>1, <1>2, <2>1, <2>2
<1> HIDE DEF p, n
<1> QED
  BY <1>1, <1>2, <1>3, RegisteredRow

(* What DeleteWhere leaves of the cache and of the other tables.           *)
LEMMA RowsDeleted ==
    ASSUME CoreInv, Up, NEW t \in Tables, DeleteWhere(t)
    PROVE  /\ pool' \in PageLists /\ dirty' \subseteq DOMAIN pool'
           /\ Len(pool') = Len(disk)
           /\ \A i \in DOMAIN pool' \ dirty' : pool'[i] = disk[i]
           /\ RowsOf(t, pool') = {}
           /\ \A u \in Tables : u # t => SameRows(u, pool', pool)
<1>1. pool \in PageLists /\ dirty \subseteq DOMAIN pool
  BY DEF CoreInv, TypeInv
<1>2. /\ Len(pool) = Len(disk)
      /\ \A i \in DOMAIN pool \ dirty : pool[i] = disk[i]
  BY DEF CoreInv, CacheInv
<1>3. /\ pool' = Erased(t) /\ dirty' = dirty \cup PagesOf(t)
  BY DEF DeleteWhere
<1>4. /\ pool' \in PageLists /\ Len(pool') = Len(pool)
      /\ RowsOf(t, pool') = {}
      /\ \A u \in Tables : u # t => SameRows(u, pool', pool)
      /\ \A i \in DOMAIN pool \ PagesOf(t) : pool'[i] = pool[i]
      /\ PagesOf(t) \subseteq DOMAIN pool
  BY <1>1, <1>3, ErasedPages
<1>5. DOMAIN pool' = DOMAIN pool
  BY <1>1, <1>4 DEF PageLists
<1> QED
  BY <1>1, <1>2, <1>3, <1>4, <1>5

LEMMA UndoStep ==
    ASSUME CoreInv, Registering, op' = "undo", pc' = "flush", faults' \in Nat,
           UNCHANGED <<table, column, undoFailed, catalog, catFile, file, told,
                       columns, crashes>>,
           pool' \in PageLists, disk' \in PageLists, dirty' \subseteq DOMAIN pool',
           Len(pool') = Len(disk'),
           \A i \in DOMAIN pool' \ dirty' : pool'[i] = disk'[i],
           RowsOf(table, pool') = {},
           \A u \in Tables : u # table => SameRows(u, pool', pool),
           \A u \in Tables : SameRows(u, disk, disk')
    PROVE  CoreInv'
<1> USE DEF CoreInv
<1>1. /\ Up /\ table \in Tables /\ told[table] = "unknown" /\ table \notin DOMAIN catalog
      /\ catFile # "none"
  BY DEF Registering, Up, TypeInv, StatementInv, InStatement, CacheInv
<1>2. TypeInv'
  BY <1>1 DEF TypeInv
<1>3. CacheInv'
  BY <1>1 DEF CacheInv, Up
<1>4. DiskInv'
  BY SameRowsCompose, DiskKept
<1>5. MemoryInv'
  <2> SUFFICES ASSUME NEW t \in Tables
               PROVE  /\ told[t] = "present" =>
                            /\ t \in DOMAIN catalog /\ catalog[t] = columns[t]
                            /\ SameRows(t, pool', disk')
                      /\ told[t] = "absent" => t \notin DOMAIN catalog
                      /\ t \notin DOMAIN catalog => RowsOf(t, pool') = {}
    BY DEF MemoryInv
  <2>1. CASE t = table
    BY <1>1, <2>1
  <2>2. CASE t # table
    <3>1. SameRows(t, pool', pool) /\ RowsOf(t, pool') = RowsOf(t, pool)
      BY <2>2 DEF SameRows
    <3>2. /\ told[t] = "present" =>
               t \in DOMAIN catalog /\ catalog[t] = columns[t] /\ SameRows(t, pool, disk)
          /\ told[t] = "absent" => t \notin DOMAIN catalog
          /\ t \notin DOMAIN catalog => RowsOf(t, pool) = {}
      BY <1>1, <2>2 DEF MemoryInv
    <3>3. told[t] = "present" => SameRows(t, pool', disk)
      BY <3>1, <3>2, SameRowsCompose
    <3>4. told[t] = "present" => SameRows(t, pool', disk')
      BY <3>3, SameRowsCompose
    <3> QED
      BY <3>1, <3>2, <3>4
  <2> QED
    BY <2>1, <2>2
<1>6. StatementInv'
  BY <1>1 DEF StatementInv, InStatement, Registering
<1> QED
  BY <1>2, <1>3, <1>4, <1>5, <1>6

LEMMA RegisterFlushFailsStep ==
    ASSUME CoreInv, RegisterFlushFails
    PROVE  CoreInv'
<1>1. /\ Registering /\ op' = "undo" /\ pc' = "flush" /\ faults' \in Nat
      /\ DeleteWhere(table)
      /\ UNCHANGED <<table, column, undoFailed, catalog, catFile, disk, file, told,
                     columns, crashes>>
  BY DEF RegisterFlushFails, Undo, files, Registering, Fault, CoreInv, TypeInv
<1>2. Up /\ table \in Tables /\ disk \in PageLists
  BY <1>1 DEF Registering, Up, CoreInv, TypeInv, InStatement
<1>3. /\ pool' \in PageLists /\ dirty' \subseteq DOMAIN pool'
      /\ Len(pool') = Len(disk)
      /\ \A i \in DOMAIN pool' \ dirty' : pool'[i] = disk[i]
      /\ RowsOf(table, pool') = {}
      /\ \A u \in Tables : u # table => SameRows(u, pool', pool)
  BY <1>1, <1>2, RowsDeleted
<1>4. \A u \in Tables : SameRows(u, disk, disk')
  BY <1>1, SameAsItself
<1> QED
  BY <1>1, <1>2, <1>3, <1>4, UndoStep

(* A page that could not be written has no row.                            *)
LEMMA UnwrittenPage ==
    ASSUME NEW pages \in PageLists, NEW page \in UnwrittenPages
    PROVE  LET more == Append(pages, page)
               n == Len(pages) + 1
           IN
           /\ more \in PageLists /\ Len(more) = n /\ more[n] = page
           /\ \A i \in DOMAIN pages : more[i] = pages[i]
           /\ \A t \in Tables : SameRows(t, pages, more)
<1> DEFINE more == PageAdded(pages, page)
           n == Len(pages) + 1
<1>1. page \in Seq(Slots) /\ \A s \in DOMAIN page : page[s] = Gone
  <2>1. RowsPerPage \in Nat /\ Gone \in Slots
    BY CatalogAssumption, SlotKinds
  <2>2. CASE page = <<>>
    BY <2>2
  <2>3. CASE page = [s \in 1 .. RowsPerPage |-> Gone]
    <3>1. page \in [1 .. RowsPerPage -> Slots]
      BY <2>1, <2>3
    <3> QED
      BY <2>1, <2>3, <3>1
  <2> QED
    BY <2>2, <2>3 DEF UnwrittenPages
<1>2. /\ more \in PageLists /\ Len(more) = n /\ more[n] = page
      /\ \A i \in DOMAIN pages : more[i] = pages[i]
      /\ \A x : x \in Places(more) <=>
            x \in Places(pages) \/ \E s \in DOMAIN page : x = <<n, s>>
      /\ \A x \in Places(pages) : Cell(more, x) = Cell(pages, x)
      /\ \A s \in DOMAIN page : Cell(more, <<n, s>>) = page[s]
  BY <1>1, AppendedPage
<1> HIDE DEF more, n
<1>3. ASSUME NEW t \in Tables
      PROVE  SameRows(t, pages, more)
  <2>1. \A x \in Places(more) : Cell(more, x).table = t => x \in Places(pages)
    BY <1>1, <1>2, SlotKinds
  <2>2. RowsOf(t, more) = RowsOf(t, pages)
    BY <1>2, <2>1, RowsAreCells
  <2>3. RowsOf(t, more) \subseteq Places(pages)
    BY <2>2, RowsAreCells
  <2> QED
    BY <1>2, <2>2, <2>3 DEF SameRows
<1> QED
  BY <1>2, <1>3 DEF more, n, PageAdded

(* What a new page that could not be written leaves of pool and file.      *)
LEMMA NewPageLost ==
    ASSUME CoreInv, NewPageFails
    PROVE  /\ pool' \in PageLists /\ disk' \in PageLists
           /\ dirty' \subseteq DOMAIN pool' /\ Len(pool') = Len(disk')
           /\ \A i \in DOMAIN pool' \ dirty' : pool'[i] = disk'[i]
           /\ RowsOf(table, pool') = {}
           /\ \A u \in Tables : u # table => SameRows(u, pool', pool)
           /\ \A u \in Tables : SameRows(u, disk, disk')
<1>1. PICK page \in UnwrittenPages :
          disk' = Append(disk, page) /\ pool' = Append(Erased(table), page)
  BY DEF NewPageFails
<1>2. /\ table \in Tables /\ pool \in PageLists /\ disk \in PageLists
      /\ dirty \subseteq DOMAIN pool /\ dirty' = dirty \cup PagesOf(table)
      /\ Len(pool) = Len(disk)
      /\ \A i \in DOMAIN pool \ dirty : pool[i] = disk[i]
  BY DEF NewPageFails, CoreInv, TypeInv, CacheInv, InStatement, Up
<1> DEFINE rest == Erased(table)
<1>3. /\ rest \in PageLists /\ Len(rest) = Len(pool)
      /\ RowsOf(table, rest) = {}
      /\ \A u \in Tables : u # table => SameRows(u, rest, pool)
      /\ \A i \in DOMAIN pool \ PagesOf(table) : rest[i] = pool[i]
      /\ PagesOf(table) \subseteq DOMAIN pool
  BY <1>2, ErasedPages
<1> HIDE DEF rest
<1> DEFINE n == Len(pool) + 1
<1>4. /\ pool' \in PageLists /\ Len(pool') = n /\ pool'[n] = page
      /\ \A i \in DOMAIN rest : pool'[i] = rest[i]
      /\ \A u \in Tables : SameRows(u, rest, pool')
  BY <1>1, <1>3, UnwrittenPage DEF rest
<1>5. /\ disk' \in PageLists /\ Len(disk') = n /\ disk'[n] = page
      /\ \A i \in DOMAIN disk : disk'[i] = disk[i]
      /\ \A u \in Tables : SameRows(u, disk, disk')
  BY <1>1, <1>2, UnwrittenPage
<1>6. /\ Len(pool) \in Nat /\ DOMAIN pool = 1 .. Len(pool) /\ DOMAIN pool' = 1 .. n
      /\ DOMAIN disk = DOMAIN pool /\ DOMAIN rest = DOMAIN pool
  BY <1>2, <1>3, <1>4 DEF PageLists
<1>7. \A i \in DOMAIN pool' \ dirty' : pool'[i] = disk'[i]
  BY <1>2, <1>3, <1>4, <1>5, <1>6
<1>8. dirty' \subseteq DOMAIN pool'
  BY <1>2, <1>3, <1>6
<1>9. RowsOf(table, pool') = {}
  BY <1>2, <1>3, <1>4 DEF SameRows
<1>10. ASSUME NEW u \in Tables, u # table
       PROVE  SameRows(u, pool', pool)
  BY <1>3, <1>4, <1>10, SameRowsCompose
<1> QED
  BY <1>4, <1>5, <1>7, <1>8, <1>9, <1>10

LEMMA NewPageFailsStep ==
    ASSUME CoreInv, NewPageFails
    PROVE  CoreInv'
<1>1. /\ Registering /\ op' = "undo" /\ pc' = "flush" /\ faults' \in Nat
      /\ UNCHANGED <<table, column, undoFailed, catalog, catFile, file, told,
                     columns, crashes>>
  BY DEF NewPageFails, Registering, Fault, CoreInv, TypeInv
<1> QED
  BY <1>1, NewPageLost, UndoStep

LEMMA DropRowsStep ==
    ASSUME CoreInv, NEW t \in Tables, DropRows(t)
    PROVE  CoreInv'
<1> USE DEF CoreInv
<1>1. /\ pc = "idle" /\ t \in DOMAIN catalog /\ DeleteWhere(t)
      /\ op' = "drop" /\ table' = t /\ column' = 0 /\ undoFailed' = FALSE
      /\ told' = [told EXCEPT ![t] = "unknown"] /\ pc' = "flush"
      /\ UNCHANGED <<catalog, catFile, disk, file, columns, faults, crashes>>
  BY DEF DropRows, files, budget
<1>2. /\ told' \in [Tables -> {"absent", "present", "unknown"}]
      /\ told'[t] = "unknown" /\ \A u \in Tables : u # t => told'[u] = told[u]
  BY <1>1 DEF TypeInv
<1>3. Up
  BY <1>1 DEF Up
<1>4. /\ pool' \in PageLists /\ dirty' \subseteq DOMAIN pool'
      /\ Len(pool') = Len(disk)
      /\ \A i \in DOMAIN pool' \ dirty' : pool'[i] = disk[i]
      /\ RowsOf(t, pool') = {}
      /\ \A u \in Tables : u # t => SameRows(u, pool', pool)
  BY <1>1, <1>3, RowsDeleted
<1>5. TypeInv'
  BY <1>1, <1>2, <1>4 DEF TypeInv
<1>6. CacheInv'
  BY <1>1, <1>3, <1>4 DEF CacheInv, Up
<1>7. DiskInv'
  <2> SUFFICES ASSUME NEW u \in Tables
               PROVE  /\ told'[u] = "present" =>
                            /\ Positions(u, disk) = 0 .. columns[u] - 1
                            /\ Cardinality(RowsOf(u, disk)) = columns[u]
                            /\ file[u] = "usable"
                      /\ told'[u] = "absent" =>
                            RowsOf(u, disk) = {} /\ file[u] = "none"
    BY <1>1 DEF DiskInv, PublishedIsDurable
  <2> QED
    BY <1>2 DEF DiskInv, PublishedIsDurable
<1>8. MemoryInv'
  <2> SUFFICES ASSUME NEW u \in Tables
               PROVE  /\ told'[u] = "present" =>
                            /\ u \in DOMAIN catalog /\ catalog[u] = columns[u]
                            /\ SameRows(u, pool', disk)
                      /\ told'[u] = "absent" => u \notin DOMAIN catalog
                      /\ u \notin DOMAIN catalog => RowsOf(u, pool') = {}
    BY <1>1 DEF MemoryInv
  <2>1. CASE u = t
    BY <1>2, <1>4, <2>1
  <2>2. CASE u # t
    <3>1. SameRows(u, pool', pool) /\ RowsOf(u, pool') = RowsOf(u, pool)
      BY <1>4, <2>2 DEF SameRows
    <3>2. /\ told[u] = "present" =>
               u \in DOMAIN catalog /\ catalog[u] = columns[u] /\ SameRows(u, pool, disk)
          /\ told[u] = "absent" => u \notin DOMAIN catalog
          /\ u \notin DOMAIN catalog => RowsOf(u, pool) = {}
      BY <1>1, <1>3 DEF MemoryInv, Registering
    <3>3. told[u] = "present" => SameRows(u, pool', disk)
      BY <3>1, <3>2, SameRowsCompose
    <3> QED
      BY <1>2, <2>2, <3>1, <3>2, <3>3
  <2> QED
    BY <2>1, <2>2
<1>9. StatementInv'
  BY <1>1, <1>2, <1>4 DEF StatementInv, InStatement, Registering
<1> QED
  BY <1>5, <1>6, <1>7, <1>8, <1>9

-----------------------------------------------------------------------------
(* The flush, and what follows it.                                         *)

(* The page written may hold rows of any table: of a published one it      *)
(* holds those the file has, of an absent one none.                        *)
LEMMA FlushPageStep ==
    ASSUME CoreInv, FlushPage
    PROVE  CoreInv'
<1> USE DEF CoreInv
<1>1. /\ pc = "flush"
      /\ UNCHANGED <<pc, op, table, column, undoFailed, catalog, pool, catFile, file,
                     told, columns, faults, crashes>>
  BY DEF FlushPage, statement, budget
<1>2. PICK i \in dirty : disk' = [disk EXCEPT ![i] = pool[i]] /\ dirty' = dirty \ {i}
  BY DEF FlushPage
<1>3. /\ Up /\ pool \in PageLists /\ disk \in PageLists /\ Len(pool) = Len(disk)
      /\ dirty \subseteq DOMAIN pool /\ i \in DOMAIN pool
      /\ \A j \in DOMAIN pool \ dirty : pool[j] = disk[j]
  BY <1>1, <1>2 DEF TypeInv, CacheInv, Up
<1>4. /\ disk' \in PageLists /\ Len(disk') = Len(disk)
      /\ disk'[i] = pool[i]
      /\ \A j \in DOMAIN disk : j # i => disk'[j] = disk[j]
      /\ \A t : /\ RowsOf(t, disk') \subseteq RowsOf(t, disk) \cup RowsOf(t, pool)
                /\ SameRows(t, pool, disk) => SameRows(t, disk', disk)
  BY <1>2, <1>3, WrittenPage
<1>5. DOMAIN disk = DOMAIN pool
  BY <1>3 DEF PageLists
<1>6. \A t \in Tables :
          /\ told[t] = "present" => SameRows(t, pool, disk)
          /\ told[t] = "absent" => RowsOf(t, disk) = {} /\ RowsOf(t, pool) = {}
  <2>1. \A t \in Tables : told[t] = "absent" => ~ (Registering /\ table = t)
    BY DEF StatementInv, InStatement, Registering
  <2> QED
    BY <1>3, <2>1 DEF MemoryInv, DiskInv
<1>7. \A t \in Tables : told[t] # "unknown" => SameRows(t, disk', disk)
  <2> SUFFICES ASSUME NEW t \in Tables, told[t] # "unknown"
               PROVE  SameRows(t, disk', disk)
    OBVIOUS
  <2>1. CASE told[t] = "present"
    BY <1>4, <1>6, <2>1
  <2>2. CASE told[t] = "absent"
    <3>1. RowsOf(t, disk) = {} /\ RowsOf(t, disk') = {}
      BY <1>4, <1>6, <2>2
    <3> QED
      BY <3>1 DEF SameRows
  <2> QED
    BY <2>1, <2>2 DEF TypeInv
<1>8. TypeInv'
  BY <1>1, <1>2, <1>4 DEF TypeInv, InStatement
<1>9. CacheInv'
  BY <1>1, <1>2, <1>3, <1>4, <1>5 DEF CacheInv, Up
<1>10. DiskInv'
  BY <1>1, <1>7, DiskKept
<1>11. MemoryInv'
  <2>1. \A t \in Tables : told[t] = "present" => SameRows(t, pool, disk')
    BY <1>6, <1>7, SameRowsCompose
  <2> QED
    BY <1>1, <1>3, <2>1 DEF MemoryInv, Up, Registering
<1>12. StatementInv'
  BY <1>1 DEF StatementInv, InStatement, Registering
<1> QED
  BY <1>8, <1>9, <1>10, <1>11, <1>12

LEMMA PublishStep ==
    ASSUME CoreInv, Publish
    PROVE  CoreInv'
<1> USE DEF CoreInv
<1>1. /\ pc = "flush" /\ op = "create" /\ pc' = "idle" /\ dirty = {}
      /\ catalog' = [t \in DOMAIN catalog \cup {table} |->
                        IF t = table THEN columns[t] ELSE catalog[t]]
      /\ told' = [told EXCEPT ![table] = "present"]
      /\ UNCHANGED <<op, table, column, undoFailed, pool, dirty, catFile, disk, file,
                     columns, faults, crashes>>
  BY DEF Publish, statement, cache, files, budget
<1>2. Registering /\ Up /\ table \in Tables
  BY <1>1 DEF Registering, Up, TypeInv, InStatement
<1>3. pool = disk
  BY <1>1, <1>2, CleanIsFlushed
<1>4. /\ Positions(table, disk) = 0 .. columns[table] - 1
      /\ Cardinality(RowsOf(table, disk)) = columns[table]
      /\ file[table] = "usable"
  BY <1>1, <1>2, <1>3 DEF StatementInv
<1>5. /\ told' \in [Tables -> {"absent", "present", "unknown"}]
      /\ told'[table] = "present"
      /\ \A t \in Tables : t # table => told'[t] = told[t]
  BY <1>1, <1>2 DEF TypeInv
<1>6. TypeInv'
  BY <1>1, <1>2, <1>5 DEF TypeInv, InStatement
<1>7. CacheInv'
  BY <1>1 DEF CacheInv, Up
<1>8. DiskInv'
  <2> SUFFICES ASSUME NEW t \in Tables
               PROVE  /\ told'[t] = "present" =>
                            /\ Positions(t, disk) = 0 .. columns[t] - 1
                            /\ Cardinality(RowsOf(t, disk)) = columns[t]
                            /\ file[t] = "usable"
                      /\ told'[t] = "absent" =>
                            RowsOf(t, disk) = {} /\ file[t] = "none"
    BY <1>1 DEF DiskInv, PublishedIsDurable
  <2> QED
    BY <1>4, <1>5 DEF DiskInv, PublishedIsDurable
<1>9. MemoryInv'
  <2> SUFFICES ASSUME NEW t \in Tables
               PROVE  /\ told'[t] = "present" =>
                            /\ t \in DOMAIN catalog' /\ catalog'[t] = columns[t]
                            /\ SameRows(t, pool, disk)
                      /\ told'[t] = "absent" => t \notin DOMAIN catalog'
                      /\ t \notin DOMAIN catalog' => RowsOf(t, pool) = {}
    BY <1>1 DEF MemoryInv
  <2>1. CASE t = table
    BY <1>1, <1>3, <1>5, <2>1, SameAsItself
  <2>2. CASE t # table
    BY <1>1, <1>2, <1>5, <2>2 DEF MemoryInv
  <2> QED
    BY <2>1, <2>2
<1>10. StatementInv'
  BY <1>1 DEF StatementInv, InStatement, Registering
<1> QED
  BY <1>6, <1>7, <1>8, <1>9, <1>10

LEMMA UndoFlushedStep ==
    ASSUME CoreInv, UndoFlushed \/ UndoFlushFails
    PROVE  CoreInv'
<1> USE DEF CoreInv
<1>1. /\ pc = "flush" /\ op = "undo" /\ pc' = "remove"
      /\ \/ dirty = {} /\ undoFailed' = undoFailed
         \/ undoFailed' = TRUE
      /\ UNCHANGED <<op, table, column, catalog, pool, dirty, catFile, disk, file,
                     told, columns, crashes>>
      /\ faults' \in Nat
  BY DEF UndoFlushed, UndoFlushFails, Fault, TypeInv, statement, cache, files, budget
<1>2. /\ Up /\ table \in Tables /\ told[table] = "unknown" /\ table \notin DOMAIN catalog
  BY <1>1 DEF Up, TypeInv, StatementInv, InStatement
<1>3. ASSUME ~ undoFailed' PROVE RowsOf(table, disk) = {}
  <2>1. pool = disk
    BY <1>1, <1>2, <1>3, CleanIsFlushed
  <2> QED
    BY <1>1, <1>2, <2>1 DEF MemoryInv, Registering
<1>4. TypeInv'
  BY <1>1, <1>2 DEF TypeInv, InStatement
<1>5. CacheInv'
  BY <1>1 DEF CacheInv, Up
<1>6. DiskInv'
  BY <1>1 DEF DiskInv, PublishedIsDurable
<1>7. MemoryInv'
  BY <1>1, <1>2 DEF MemoryInv, Registering
<1>8. StatementInv'
  BY <1>1, <1>2, <1>3 DEF StatementInv, InStatement, Registering
<1> QED
  BY <1>4, <1>5, <1>6, <1>7, <1>8

LEMMA ForgetStep ==
    ASSUME CoreInv, Forget
    PROVE  CoreInv'
<1> USE DEF CoreInv
<1>1. /\ pc = "flush" /\ op = "drop" /\ pc' = "remove" /\ dirty = {}
      /\ catalog' = [t \in DOMAIN catalog \ {table} |-> catalog[t]]
      /\ UNCHANGED <<op, table, column, undoFailed, pool, dirty, catFile, disk, file,
                     told, columns, faults, crashes>>
  BY DEF Forget, statement, cache, files, budget
<1>2. Up /\ table \in Tables /\ told[table] = "unknown" /\ RowsOf(table, pool) = {}
  BY <1>1 DEF Up, TypeInv, StatementInv, InStatement
<1>3. pool = disk
  BY <1>1, <1>2, CleanIsFlushed
<1>4. TypeInv'
  BY <1>1, <1>2 DEF TypeInv, InStatement
<1>5. CacheInv'
  BY <1>1 DEF CacheInv, Up
<1>6. DiskInv'
  BY <1>1 DEF DiskInv, PublishedIsDurable
<1>7. MemoryInv'
  <2> SUFFICES ASSUME NEW t \in Tables
               PROVE  /\ told[t] = "present" =>
                            /\ t \in DOMAIN catalog' /\ catalog'[t] = columns[t]
                            /\ SameRows(t, pool, disk)
                      /\ told[t] = "absent" => t \notin DOMAIN catalog'
                      /\ t \notin DOMAIN catalog' => RowsOf(t, pool) = {}
    BY <1>1 DEF MemoryInv
  <2>1. CASE t = table
    BY <1>1, <1>2, <2>1
  <2>2. CASE t # table
    BY <1>1, <1>2, <2>2 DEF MemoryInv, Registering
  <2> QED
    BY <2>1, <2>2
<1>8. StatementInv'
  BY <1>1, <1>2, <1>3 DEF StatementInv, InStatement, Registering
<1> QED
  BY <1>4, <1>5, <1>6, <1>7, <1>8

LEMMA RemoveFileStep ==
    ASSUME CoreInv, RemoveFile
    PROVE  CoreInv'
<1> USE DEF CoreInv
<1>1. /\ pc = "remove" /\ pc' = "idle"
      /\ file' = [file EXCEPT ![table] = "none"]
      /\ told' = [told EXCEPT ![table] = IF undoFailed THEN "unknown" ELSE "absent"]
      /\ UNCHANGED <<op, table, column, undoFailed, catalog, pool, dirty, catFile,
                     disk, columns, faults, crashes>>
  BY DEF RemoveFile, statement, cache, budget
<1>2. /\ Up /\ table \in Tables /\ table \notin DOMAIN catalog
      /\ ~ undoFailed => RowsOf(table, disk) = {}
  BY <1>1 DEF Up, TypeInv, StatementInv, InStatement
<1>3. /\ told' \in [Tables -> {"absent", "present", "unknown"}]
      /\ file' \in [Tables -> {"none", "unusable", "usable"}]
      /\ told'[table] = (IF undoFailed THEN "unknown" ELSE "absent")
      /\ file'[table] = "none"
      /\ \A t \in Tables : t # table => told'[t] = told[t] /\ file'[t] = file[t]
  BY <1>1, <1>2 DEF TypeInv
<1>4. TypeInv'
  BY <1>1, <1>3 DEF TypeInv, InStatement
<1>5. CacheInv'
  BY <1>1 DEF CacheInv, Up
<1>6. DiskInv'
  <2> SUFFICES ASSUME NEW t \in Tables
               PROVE  /\ told'[t] = "present" =>
                            /\ Positions(t, disk) = 0 .. columns[t] - 1
                            /\ Cardinality(RowsOf(t, disk)) = columns[t]
                            /\ file'[t] = "usable"
                      /\ told'[t] = "absent" =>
                            RowsOf(t, disk) = {} /\ file'[t] = "none"
    BY <1>1 DEF DiskInv, PublishedIsDurable
  <2> QED
    BY <1>2, <1>3 DEF DiskInv, PublishedIsDurable, TypeInv
<1>7. MemoryInv'
  BY <1>1, <1>2, <1>3 DEF MemoryInv, Registering, TypeInv
<1>8. StatementInv'
  BY <1>1 DEF StatementInv, InStatement, Registering
<1> QED
  BY <1>4, <1>5, <1>6, <1>7, <1>8

(* However the process ends, the files keep what they have.                *)
LEMMA StoppedStep ==
    ASSUME CoreInv, Closed \/ CloseFails \/ Crash
    PROVE  CoreInv'
<1> USE DEF CoreInv
<1>1. /\ pc' = "down" /\ op' = "create" /\ column' = 0 /\ undoFailed' = FALSE
      /\ DOMAIN catalog' = {} /\ pool' = <<>> /\ dirty' = {}
      /\ UNCHANGED <<catFile, disk, file, told, columns>>
      /\ faults' \in Nat /\ crashes' \in Nat
  BY DEF Closed, CloseFails, Crash, Stopped, Fault, files, budget, TypeInv
<1>2. TypeInv'
  <2>1. <<>> \in PageLists /\ DOMAIN <<>> = {}
    BY DEF PageLists
  <2> QED
    BY <1>1, <2>1 DEF TypeInv, InStatement
<1>3. CacheInv'
  BY <1>1 DEF CacheInv, Up
<1>4. DiskInv'
  BY <1>1 DEF DiskInv, PublishedIsDurable
<1>5. MemoryInv' /\ StatementInv'
  BY <1>1 DEF MemoryInv, StatementInv, Up, InStatement, Registering
<1> QED
  BY <1>2, <1>3, <1>4, <1>5

LEMMA CoreStep == CoreInv /\ [Next]_vars => CoreInv'
<1> SUFFICES ASSUME CoreInv, [Next]_vars PROVE CoreInv'
  OBVIOUS
<1>1. CASE Bootstrap \/ Bootstrapped
  BY <1>1, BootstrapStep
<1>2. CASE Load
  BY <1>2, LoadStep
<1>3. CASE UNCHANGED vars
  <2>1. TypeInv' /\ CacheInv'
    BY <1>3 DEF vars, statement, cache, files, budget, CoreInv, TypeInv, CacheInv, Up,
                InStatement
  <2>2. DiskInv' /\ MemoryInv' /\ StatementInv'
    BY <1>3 DEF vars, statement, cache, files, budget, CoreInv, DiskInv,
                PublishedIsDurable, MemoryInv, StatementInv, Up, InStatement, Registering
  <2> QED
    BY <2>1, <2>2 DEF CoreInv
<1>4. ASSUME NEW t \in Tables, CreateFile(t) PROVE CoreInv'
  BY <1>4, CreateFileStep
<1>5. ASSUME NEW t \in Tables, DropRows(t) PROVE CoreInv'
  BY <1>5, DropRowsStep
<1>6. CASE FileCreated
  BY <1>6, FileCreatedStep
<1>7. CASE CreateFileFails \/ RegisterDone \/ DropFlushFails \/ RemoveFails \/ Close
  BY <1>7, MovesOnStep
<1>8. CASE RegisterColumn
  BY <1>8, RegisterColumnStep
<1>9. CASE RegisterOnNewPage
  BY <1>9, RegisterOnNewPageStep
<1>10. CASE NewPageFails \/ RegisterFlushFails
  BY <1>10, NewPageFailsStep, RegisterFlushFailsStep
<1>11. CASE FlushPage
  BY <1>11, FlushPageStep
<1>12. CASE Publish
  BY <1>12, PublishStep
<1>13. CASE UndoFlushed \/ UndoFlushFails
  BY <1>13, UndoFlushedStep
<1>14. CASE Forget
  BY <1>14, ForgetStep
<1>15. CASE RemoveFile
  BY <1>15, RemoveFileStep
<1>16. CASE Closed \/ CloseFails \/ Crash
  BY <1>16, StoppedStep
<1>17. LoadRejected \/ (\E t \in Tables : CreateBlocked(t)) => UNCHANGED vars
  BY DEF LoadRejected, CreateBlocked
<1> QED
  BY <1>1, <1>2, <1>3, <1>4, <1>5, <1>6, <1>7, <1>8, <1>9, <1>10, <1>11, <1>12, <1>13,
     <1>14, <1>15, <1>16, <1>17 DEF Next

-----------------------------------------------------------------------------
(* When nothing has failed and nothing was killed, only the table of the   *)
(* statement is in doubt.                                                  *)

Undoing == op = "undo" /\ pc \in {"flush", "remove"}
Settled(t) == ~ (InStatement /\ table = t)

UndisturbedInv ==
    Undisturbed => /\ ~ Undoing /\ ~ undoFailed
                   /\ \A t \in Tables : Settled(t) => told[t] # "unknown"

LEMMA UndisturbedStep ==
    ASSUME CoreInv, UndisturbedInv, [Next]_vars
    PROVE  UndisturbedInv'
<1> SUFFICES ASSUME Undisturbed'
             PROVE  /\ ~ Undoing' /\ ~ undoFailed'
                    /\ \A t \in Tables : Settled(t)' => told'[t] # "unknown"
  BY DEF UndisturbedInv
<1> USE DEF Settled, InStatement, Undoing
<1>1. /\ faults \in Nat /\ crashes \in Nat
      /\ told \in [Tables -> {"absent", "present", "unknown"}]
      /\ pc = "remove" => op \in {"undo", "drop"}
      /\ pc \in {"creating", "register"} => op = "create"
      /\ InStatement => table \in Tables
  BY DEF CoreInv, TypeInv
<1>2. ~ Fault /\ ~ Crash
  BY <1>1 DEF Undisturbed, Fault, Crash
<1>3. Undisturbed
  <2>1. faults' >= faults /\ crashes' >= crashes
    BY <1>1, <1>2 DEF Next, vars, budget, Bootstrap, Bootstrapped, Load, LoadRejected,
           CreateBlocked, CreateFile, DropRows, FileCreated, CreateFileFails,
           RegisterColumn, RegisterOnNewPage, NewPageFails, RegisterDone, FlushPage,
           Publish, UndoFlushed, Forget, RegisterFlushFails, UndoFlushFails,
           DropFlushFails, RemoveFile, RemoveFails, Close, Closed, CloseFails
  <2> QED
    BY <1>1, <2>1 DEF Undisturbed
<1>4. /\ ~ Undoing /\ ~ undoFailed
      /\ \A t \in Tables : Settled(t) => told[t] # "unknown"
  BY <1>3 DEF UndisturbedInv
<1>5. CASE Bootstrap \/ Bootstrapped \/ Load \/ UNCHANGED vars
  BY <1>4, <1>5 DEF Bootstrap, Bootstrapped, Load, vars, statement, budget
<1>6. ASSUME NEW t \in Tables, CreateFile(t) \/ DropRows(t)
      PROVE  /\ ~ Undoing' /\ ~ undoFailed'
             /\ \A u \in Tables : Settled(u)' => told'[u] # "unknown"
  BY <1>1, <1>4, <1>6 DEF CreateFile, DropRows
<1>7. CASE FileCreated \/ RegisterColumn \/ RegisterOnNewPage \/ RegisterDone
  BY <1>1, <1>4, <1>7 DEF FileCreated, RegisterColumn, RegisterOnNewPage,
                          RegisterDone, statement
<1>8. CASE FlushPage \/ Forget \/ Close \/ UndoFlushed
  BY <1>1, <1>4, <1>8 DEF FlushPage, Forget, Close, UndoFlushed, statement
<1>9. CASE Publish \/ RemoveFile
  BY <1>1, <1>4, <1>9 DEF Publish, RemoveFile, statement
<1>10. CASE Closed
  BY <1>1, <1>4, <1>10 DEF Closed, Stopped
<1>11. /\ ~ CreateFileFails /\ ~ NewPageFails /\ ~ RegisterFlushFails
       /\ ~ UndoFlushFails /\ ~ DropFlushFails /\ ~ RemoveFails /\ ~ CloseFails
  BY <1>2 DEF CreateFileFails, NewPageFails, RegisterFlushFails, UndoFlushFails,
              DropFlushFails, RemoveFails, CloseFails
<1>12. LoadRejected \/ (\E t \in Tables : CreateBlocked(t)) => UNCHANGED vars
  BY DEF LoadRejected, CreateBlocked
<1> QED
  BY <1>2, <1>5, <1>6, <1>7, <1>8, <1>9, <1>10, <1>11, <1>12 DEF Next

(* A table the memory has, has a data file.                                *)
FilesInv == \A t \in DOMAIN catalog : file[t] = "usable"

LEMMA FilesStep ==
    ASSUME CoreInv, FilesInv, [Next]_vars
    PROVE  FilesInv'
<1>1. /\ DOMAIN catalog \subseteq Tables /\ InStatement => table \in Tables
      /\ file \in [Tables -> {"none", "unusable", "usable"}]
      /\ Registering => file[table] = "usable"
      /\ pc \in {"creating", "remove"} => table \notin DOMAIN catalog
  BY DEF CoreInv, TypeInv, StatementInv, InStatement
<1>2. CASE UNCHANGED <<catalog, file>>
  BY <1>2 DEF FilesInv
<1>3. CASE Load
  BY <1>3 DEF Load, Loadable, FilesInv, files
<1>4. ASSUME NEW t \in Tables, CreateFile(t)
      PROVE  FilesInv'
  BY <1>1, <1>4 DEF CreateFile, FilesInv
<1>5. CASE FileCreated
  BY <1>1, <1>5 DEF FileCreated, FilesInv
<1>6. CASE Publish
  BY <1>1, <1>6 DEF Publish, FilesInv, files, Registering
<1>7. CASE Forget
  BY <1>7 DEF Forget, FilesInv, files
<1>8. CASE RemoveFile
  BY <1>1, <1>8 DEF RemoveFile, FilesInv
<1>9. CASE Closed \/ CloseFails \/ Crash
  BY <1>9 DEF Closed, CloseFails, Crash, Stopped, FilesInv
<1> QED
  <2>1. ASSUME NEW t \in Tables, CreateBlocked(t) \/ DropRows(t)
        PROVE  UNCHANGED <<catalog, file>>
    BY <2>1 DEF CreateBlocked, DropRows, vars, files
  <2>2. CASE Bootstrap \/ Bootstrapped \/ LoadRejected \/ CreateFileFails \/ UNCHANGED vars
    BY <1>2, <2>2 DEF Bootstrap, Bootstrapped, LoadRejected, CreateFileFails, vars, files
  <2>3. CASE RegisterColumn \/ RegisterOnNewPage \/ NewPageFails \/ RegisterDone
    BY <1>2, <2>3 DEF RegisterColumn, RegisterOnNewPage, NewPageFails, RegisterDone,
                      Undo, files
  <2>4. CASE FlushPage \/ UndoFlushed \/ RegisterFlushFails \/ UndoFlushFails
    BY <1>2, <2>4 DEF FlushPage, UndoFlushed, RegisterFlushFails, UndoFlushFails,
                      Undo, files
  <2>5. CASE DropFlushFails \/ RemoveFails \/ Close
    BY <1>2, <2>5 DEF DropFlushFails, RemoveFails, Close, files
  <2> QED
    BY <1>2, <1>3, <1>4, <1>5, <1>6, <1>7, <1>8, <1>9, <2>1, <2>2, <2>3, <2>4, <2>5
       DEF Next

-----------------------------------------------------------------------------
(* The layout of the pages when each schema fills one: a page of the file  *)
(* has the rows of one table or none, and so has a page of the pool, but   *)
(* for the one a table is being registered on.                             *)

WholePage(page, t) == page = [s \in 1 .. RowsPerPage |-> Row(t, s - 1)]
EmptyPage(page) ==
    Len(page) \in {0, RowsPerPage} /\ \A s \in DOMAIN page : page[s] = Gone
IsDiskPage(page) == EmptyPage(page) \/ \E t \in Tables : WholePage(page, t)

Partial == pc = "register" /\ column \in 1 .. RowsPerPage - 1
IsPartial(i) ==
    /\ pool[i] = [s \in 1 .. column |-> Row(table, s - 1)]
    /\ \A j \in 1 .. i - 1 : ~ HasRoom(j)
    /\ \A j \in DOMAIN pool \ {i} : IsDiskPage(pool[j])

Tidy(pages) == \A i \in DOMAIN pages : IsDiskPage(pages[i])

LayoutInv ==
    OnOnePageEach =>
        /\ Tidy(disk)
        /\ ~ Partial => Tidy(pool)
        /\ Partial => \E i \in DOMAIN pool : IsPartial(i)

LEMMA WholePages ==
    ASSUME NEW t \in Tables, NEW page, WholePage(page, t)
    PROVE  /\ page \in Seq(Slots) /\ DOMAIN page = 1 .. RowsPerPage
           /\ Len(page) = RowsPerPage
           /\ \A s \in 1 .. RowsPerPage :
                 page[s].table = t /\ page[s].position = s - 1
<1>1. RowsPerPage \in Nat \ {0}
  BY CatalogAssumption
<1>2. \A s \in 1 .. RowsPerPage :
          /\ Row(t, s - 1) \in Slots
          /\ Row(t, s - 1).table = t /\ Row(t, s - 1).position = s - 1
  BY <1>1, SlotKinds
<1>3. page \in [1 .. RowsPerPage -> Slots]
  BY <1>2 DEF WholePage
<1>4. page \in Seq(Slots) /\ DOMAIN page = 1 .. RowsPerPage /\ Len(page) = RowsPerPage
  BY <1>1, <1>3
<1> QED
  BY <1>2, <1>4 DEF WholePage

(* A page of the file with a row of a table is its whole schema.           *)
LEMMA RowsFillThePage ==
    ASSUME NEW pages \in PageLists, Tidy(pages),
           NEW t \in Tables, NEW x \in RowsOf(t, pages)
    PROVE  x[1] \in DOMAIN pages /\ WholePage(pages[x[1]], t)
<1>1. x[1] \in DOMAIN pages /\ x[2] \in DOMAIN pages[x[1]] /\ pages[x[1]][x[2]].table = t
  BY PlaceOf, RowsAreCells DEF Cell
<1>2. ~ EmptyPage(pages[x[1]])
  BY <1>1, SlotKinds DEF EmptyPage
<1>3. PICK u \in Tables : WholePage(pages[x[1]], u)
  BY <1>1, <1>2 DEF IsDiskPage, Tidy
<1>4. u = t
  BY <1>1, <1>3, WholePages
<1> QED
  BY <1>1, <1>3, <1>4

LEMMA AllPositions ==
    ASSUME NEW pages \in PageLists, Tidy(pages),
           NEW t \in Tables, RowsOf(t, pages) # {}
    PROVE  /\ Positions(t, pages) = 0 .. RowsPerPage - 1
           /\ (\A x, y \in RowsOf(t, pages) : x[1] = y[1]) =>
                 Cardinality(RowsOf(t, pages)) = RowsPerPage
<1>1. RowsPerPage \in Nat \ {0}
  BY CatalogAssumption
<1>2. PICK z \in RowsOf(t, pages) : TRUE
  OBVIOUS
<1> DEFINE i == z[1]
<1>3. /\ i \in DOMAIN pages /\ DOMAIN pages[i] = 1 .. RowsPerPage
      /\ \A s \in 1 .. RowsPerPage :
            pages[i][s].table = t /\ pages[i][s].position = s - 1
  BY RowsFillThePage, WholePages
<1>4. \A s \in 1 .. RowsPerPage :
          <<i, s>> \in RowsOf(t, pages) /\ Cell(pages, <<i, s>>).position = s - 1
  BY <1>3, PlaceOf, RowsAreCells DEF Cell
<1>5. ASSUME NEW x \in RowsOf(t, pages)
      PROVE  /\ x = <<x[1], x[2]>> /\ x[2] \in 1 .. RowsPerPage
             /\ Cell(pages, x).position = x[2] - 1
  <2>1. x[1] \in DOMAIN pages /\ WholePage(pages[x[1]], t)
    BY RowsFillThePage
  <2>2. /\ x = <<x[1], x[2]>> /\ x[2] \in DOMAIN pages[x[1]]
    BY PlaceOf, RowsAreCells
  <2> QED
    BY <2>1, <2>2, WholePages DEF Cell
<1> HIDE DEF i
<1>6. Positions(t, pages) = 0 .. RowsPerPage - 1
  <2>1. \A k \in 0 .. RowsPerPage - 1 : k \in Positions(t, pages)
    <3> TAKE k \in 0 .. RowsPerPage - 1
    <3>1. k + 1 \in 1 .. RowsPerPage /\ (k + 1) - 1 = k
      BY <1>1
    <3>2. <<i, k + 1>> \in RowsOf(t, pages) /\ Cell(pages, <<i, k + 1>>).position = k
      BY <1>4, <3>1
    <3> QED
      BY <3>2, PositionsOf
  <2>2. \A k \in Positions(t, pages) : k \in 0 .. RowsPerPage - 1
    BY <1>1, <1>5, PositionsOf
  <2> QED
    BY <2>1, <2>2
<1>7. ASSUME \A x, y \in RowsOf(t, pages) : x[1] = y[1]
      PROVE  Cardinality(RowsOf(t, pages)) = RowsPerPage
  <2> DEFINE rows == RowsOf(t, pages)
             f == [x \in rows |-> x[2]]
  <2>1. f \in Bijection(rows, 1 .. RowsPerPage)
    <3>1. \A x \in rows : x = <<i, x[2]>> /\ x[2] \in 1 .. RowsPerPage
      BY <1>2, <1>5, <1>7 DEF i
    <3>2. \A s \in 1 .. RowsPerPage : <<i, s>> \in rows
      BY <1>4
    <3> HIDE DEF rows
    <3>3. f \in [rows -> 1 .. RowsPerPage] /\ \A x, y \in rows : f[x] = f[y] => x = y
      BY <3>1
    <3>4. \A s \in 1 .. RowsPerPage : \E x \in rows : f[x] = s
      <4> TAKE s \in 1 .. RowsPerPage
      <4>1. <<i, s>> \in rows /\ f[<<i, s>>] = s
        BY <3>2
      <4> QED
        BY <4>1
    <3> HIDE DEF f
    <3>5. f \in Injection(rows, 1 .. RowsPerPage)
      BY <3>3 DEF Injection, IsInjective
    <3>6. f \in Surjection(rows, 1 .. RowsPerPage)
      BY <3>3, <3>4 DEF Surjection
    <3> QED
      BY <3>5, <3>6 DEF Bijection
  <2>2. 1 \in Int /\ RowsPerPage \in Int
    BY <1>1
  <2>3. IsFiniteSet(1 .. RowsPerPage) /\ Cardinality(1 .. RowsPerPage) = RowsPerPage
    BY <1>1, <2>2, FS_Interval
  <2>4. IsFiniteSet(rows)
    BY PlacesFinite
  <2> HIDE DEF rows, f
  <2>5. Cardinality(rows) = RowsPerPage
    BY <2>1, <2>3, <2>4, FS_Bijection DEF ExistsBijection
  <2> QED
    BY <2>5 DEF rows
<1> QED
  BY <1>6, <1>7

(* The page register_table is at is the first with room.                   *)
LEMMA PageAtHand ==
    ASSUME CoreInv, LayoutInv, OnOnePageEach, pc = "register",
           column < columns[table], NEW i \in DOMAIN pool, HasRoom(i),
           \A j \in 1 .. i - 1 : ~ HasRoom(j)
    PROVE  /\ pool[i] = [s \in 1 .. column |-> Row(table, s - 1)]
           /\ \A j \in DOMAIN pool \ {i} : IsDiskPage(pool[j])
<1>1. /\ column \in Nat /\ RowsPerPage \in Nat \ {0} /\ column < RowsPerPage
      /\ table \in Tables
  BY CatalogAssumption DEF CoreInv, TypeInv, InStatement, OnOnePageEach
<1>2. /\ \A j \in DOMAIN pool : pool[j] \in Seq(Slots) /\ j \in Nat \ {0}
  BY DEF CoreInv, TypeInv, PageLists
<1>3. CASE column = 0
  <2>1. \A j \in DOMAIN pool : IsDiskPage(pool[j])
    BY <1>3 DEF LayoutInv, Partial, Tidy
  <2>2. Len(pool[i]) < RowsPerPage
    BY DEF HasRoom
  <2>3. EmptyPage(pool[i])
    <3>1. \A t \in Tables : ~ WholePage(pool[i], t)
      BY <1>1, <2>2, WholePages
    <3> QED
      BY <2>1, <3>1 DEF IsDiskPage
  <2>4. Len(pool[i]) = 0
    BY <2>2, <2>3 DEF EmptyPage
  <2>5. pool[i] = <<>>
    BY <1>2, <2>4
  <2>6. [s \in 1 .. column |-> Row(table, s - 1)] = <<>>
    BY <1>3
  <2> QED
    BY <2>1, <2>5, <2>6
<1>4. CASE column # 0
  <2>1. Partial
    BY <1>1, <1>4 DEF Partial
  <2>2. PICK k \in DOMAIN pool : IsPartial(k)
    BY <2>1 DEF LayoutInv
  <2>3. Len(pool[k]) = column
    <3> DEFINE f == [s \in 1 .. column |-> Row(table, s - 1)]
    <3>1. pool[k] = f
      BY <2>2 DEF IsPartial
    <3>2. DOMAIN f = 1 .. column
      OBVIOUS
    <3> HIDE DEF f
    <3> QED
      BY <1>1, <1>2, <3>1, <3>2
  <2>4. HasRoom(k)
    BY <1>1, <2>3 DEF HasRoom
  <2>5. k = i
    <3>1. i \in Nat \ {0} /\ k \in Nat \ {0}
      BY <1>2
    <3>2. ~ (k < i)
      BY <2>4, <3>1
    <3>3. ~ (i < k)
      BY <2>2, <3>1 DEF IsPartial
    <3> QED
      BY <3>1, <3>2, <3>3
  <2> QED
    BY <2>2, <2>5 DEF IsPartial
<1> QED
  BY <1>3, <1>4

(* One column more on it: it is whole, or still the one at hand.           *)
LEMMA OneColumnMore ==
    ASSUME CoreInv, OnOnePageEach, pc = "register", column < columns[table],
           UNCHANGED <<pc, table, columns>>, column' = column + 1,
           pool' \in PageLists, NEW i \in DOMAIN pool',
           pool'[i] = [s \in 1 .. column + 1 |-> Row(table, s - 1)],
           \A j \in DOMAIN pool' \ {i} : IsDiskPage(pool'[j]),
           \A j \in 1 .. i - 1 : ~ HasRoom(j)',
           Tidy(disk')
    PROVE  LayoutInv'
<1>1. /\ column \in Nat /\ RowsPerPage \in Nat \ {0} /\ column < RowsPerPage
      /\ table \in Tables
  BY CatalogAssumption DEF CoreInv, TypeInv, InStatement, OnOnePageEach
<1>2. CASE column + 1 = RowsPerPage
  <2>1. WholePage(pool'[i], table)
    BY <1>2 DEF WholePage
  <2>2. Tidy(pool')
    BY <1>1, <2>1 DEF IsDiskPage, Tidy
  <2>3. ~ Partial'
    BY <1>1, <1>2 DEF Partial
  <2> QED
    BY <2>2, <2>3 DEF LayoutInv
<1>3. CASE column + 1 # RowsPerPage
  <2>1. Partial'
    BY <1>1, <1>3 DEF Partial
  <2>2. IsPartial(i)'
    BY DEF IsPartial
  <2> QED
    BY <2>1, <2>2 DEF LayoutInv
<1> QED
  BY <1>2, <1>3

LEMMA RowOnThePage ==
    ASSUME NEW t \in Tables, NEW k \in Nat, NEW page,
           page = [s \in 1 .. k |-> Row(t, s - 1)]
    PROVE  Append(page, Row(t, k)) = [s \in 1 .. k + 1 |-> Row(t, s - 1)]
<1>1. \A s \in 1 .. k + 1 : Row(t, s - 1) \in Slots
  BY SlotKinds
<1>2. page \in [1 .. k -> Slots] /\ \A s \in 1 .. k : page[s] = Row(t, s - 1)
  BY <1>1
<1>3. page \in Seq(Slots) /\ Len(page) = k
  BY <1>2
<1>4. Row(t, k) \in Slots /\ Row(t, (k + 1) - 1) = Row(t, k)
  BY SlotKinds
<1> DEFINE longer == Append(page, Row(t, k))
<1>5. /\ longer \in Seq(Slots) /\ Len(longer) = k + 1
      /\ longer[k + 1] = Row(t, k)
      /\ \A s \in 1 .. k : longer[s] = page[s]
  BY <1>3, <1>4
<1> HIDE DEF longer
<1>6. longer \in [1 .. k + 1 -> Slots]
  BY <1>5
<1>7. \A s \in 1 .. k + 1 : longer[s] = Row(t, s - 1)
  BY <1>2, <1>4, <1>5
<1> QED
  BY <1>6, <1>7 DEF longer

LEMMA RegisterColumnLayout ==
    ASSUME CoreInv, CoreInv', LayoutInv, RegisterColumn
    PROVE  LayoutInv'
<1> SUFFICES ASSUME OnOnePageEach PROVE LayoutInv'
  <2>1. OnOnePageEach' => OnOnePageEach
    BY DEF OnOnePageEach, RegisterColumn, budget
  <2> QED
    BY <2>1 DEF LayoutInv
<1>1. /\ pc = "register" /\ column < columns[table] /\ column' = column + 1
      /\ UNCHANGED <<pc, table, disk, columns>>
  BY DEF RegisterColumn, files, budget
<1>2. PICK i \in DOMAIN pool :
          /\ HasRoom(i)
          /\ \A j \in 1 .. i - 1 : ~ HasRoom(j)
          /\ pool' = [pool EXCEPT ![i] = Append(@, Row(table, column))]
  BY DEF RegisterColumn
<1>3. /\ pool[i] = [s \in 1 .. column |-> Row(table, s - 1)]
      /\ \A j \in DOMAIN pool \ {i} : IsDiskPage(pool[j])
  BY <1>1, <1>2, PageAtHand
<1>4. /\ table \in Tables /\ column \in Nat /\ pool' \in PageLists
      /\ DOMAIN pool = 1 .. Len(pool) /\ Len(pool) \in Nat
  BY <1>1 DEF CoreInv, TypeInv, InStatement, PageLists
<1>5. /\ DOMAIN pool' = DOMAIN pool
      /\ pool'[i] = Append(pool[i], Row(table, column))
      /\ \A j \in DOMAIN pool : j # i => pool'[j] = pool[j]
  BY <1>2
<1>6. pool'[i] = [s \in 1 .. column + 1 |-> Row(table, s - 1)]
  BY <1>3, <1>4, <1>5, RowOnThePage
<1>7. \A j \in DOMAIN pool' \ {i} : IsDiskPage(pool'[j])
  BY <1>3, <1>5
<1>8. \A j \in 1 .. i - 1 : ~ HasRoom(j)'
  BY <1>2, <1>4, <1>5 DEF HasRoom
<1>9. Tidy(disk')
  BY <1>1 DEF LayoutInv
<1>10. i \in DOMAIN pool'
  BY <1>5
<1> HIDE DEF CoreInv, LayoutInv
<1> QED
  BY <1>1, <1>4, <1>6, <1>7, <1>8, <1>9, <1>10, OneColumnMore

(* A page begun has room.                                                  *)
LEMMA NoPageIsPartial ==
    ASSUME CoreInv, LayoutInv, OnOnePageEach, \A i \in DOMAIN pool : ~ HasRoom(i)
    PROVE  ~ Partial
<1> SUFFICES ASSUME Partial PROVE FALSE
  OBVIOUS
<1>1. PICK k \in DOMAIN pool : IsPartial(k)
  BY DEF LayoutInv
<1> DEFINE f == [s \in 1 .. column |-> Row(table, s - 1)]
<1>2. pool[k] \in Seq(Slots)
  BY <1>1 DEF CoreInv, TypeInv, PageLists
<1>3. pool[k] = f /\ DOMAIN f = 1 .. column
  BY <1>1 DEF IsPartial
<1> HIDE DEF f
<1>4. column \in Nat /\ column < RowsPerPage /\ RowsPerPage \in Nat
  BY CatalogAssumption DEF Partial
<1>5. Len(pool[k]) = column
  BY <1>2, <1>3, <1>4
<1> QED
  BY <1>4, <1>5 DEF HasRoom

LEMMA RegisterOnNewPageLayout ==
    ASSUME CoreInv, CoreInv', LayoutInv, RegisterOnNewPage
    PROVE  LayoutInv'
<1> SUFFICES ASSUME OnOnePageEach PROVE LayoutInv'
  <2>1. OnOnePageEach' => OnOnePageEach
    BY DEF OnOnePageEach, RegisterOnNewPage, budget
  <2> QED
    BY <2>1 DEF LayoutInv
<1>1. /\ pc = "register" /\ column < columns[table] /\ column' = column + 1
      /\ \A i \in DOMAIN pool : ~ HasRoom(i)
      /\ disk' = Append(disk, <<>>)
      /\ pool' = Append(pool, <<Row(table, column)>>)
      /\ UNCHANGED <<pc, table, columns>>
  BY DEF RegisterOnNewPage, budget
<1>2. /\ table \in Tables /\ column \in Nat /\ pool \in PageLists /\ disk \in PageLists
      /\ pool' \in PageLists /\ RowsPerPage \in Nat \ {0} /\ column < RowsPerPage
  BY <1>1, CatalogAssumption DEF CoreInv, TypeInv, InStatement, OnOnePageEach
<1>3. column = 0
  BY <1>1, <1>2, NoPageIsPartial DEF Partial
<1>4. \A j \in DOMAIN pool : IsDiskPage(pool[j])
  BY <1>2, <1>3 DEF LayoutInv, Partial, Tidy
<1> DEFINE n == Len(pool) + 1
<1>5. /\ Len(pool) \in Nat /\ DOMAIN pool = 1 .. Len(pool)
      /\ DOMAIN pool' = 1 .. n /\ pool'[n] = <<Row(table, column)>>
      /\ \A j \in DOMAIN pool : pool'[j] = pool[j]
  BY <1>1, <1>2 DEF PageLists
<1>6. pool'[n] = [s \in 1 .. column + 1 |-> Row(table, s - 1)]
  <2>1. <<>> = [s \in 1 .. column |-> Row(table, s - 1)]
    BY <1>3
  <2>2. Append(<<>>, Row(table, column)) = [s \in 1 .. column + 1 |-> Row(table, s - 1)]
    BY <1>2, <2>1, RowOnThePage
  <2> QED
    BY <1>5, <2>2
<1>7. Tidy(disk')
  <2>1. EmptyPage(<<>>)
    BY DEF EmptyPage
  <2>2. Tidy(disk)
    BY DEF LayoutInv
  <2>3. /\ Len(disk) \in Nat /\ DOMAIN disk = 1 .. Len(disk)
        /\ DOMAIN disk' = 1 .. Len(disk) + 1 /\ disk'[Len(disk) + 1] = <<>>
        /\ \A j \in DOMAIN disk : disk'[j] = disk[j]
    BY <1>1, <1>2 DEF PageLists
  <2> QED
    BY <2>1, <2>2, <2>3 DEF IsDiskPage, Tidy
<1>8. \A j \in DOMAIN pool' \ {n} : IsDiskPage(pool'[j])
  BY <1>4, <1>5
<1>9. \A j \in 1 .. n - 1 : ~ HasRoom(j)'
  BY <1>1, <1>5 DEF HasRoom
<1>10. n \in DOMAIN pool'
  BY <1>5
<1> HIDE DEF n
<1> QED
  BY <1>1, <1>2, <1>6, <1>7, <1>8, <1>9, <1>10, OneColumnMore

LEMMA ErasedLayout ==
    ASSUME pool \in PageLists, NEW t \in Tables,
           Tidy(pool)
    PROVE  Tidy(Erased(t))
<1> SUFFICES ASSUME NEW i \in DOMAIN pool
             PROVE  IsDiskPage(Erased(t)[i])
  BY DEF Erased, Tidy
<1> DEFINE page == pool[i]
           new == Erased(t)[i]
<1>1. new = [s \in DOMAIN page |-> IF page[s].table = t THEN Gone ELSE page[s]]
  BY DEF Erased
<1>2. page \in Seq(Slots) /\ Len(page) \in Nat /\ DOMAIN page = 1 .. Len(page)
  BY DEF PageLists
<1>3. /\ new \in Seq(Slots) /\ Len(new) = Len(page) /\ DOMAIN new = DOMAIN page
      /\ \A s \in DOMAIN page : new[s] = IF page[s].table = t THEN Gone ELSE page[s]
  <2>1. new \in [1 .. Len(page) -> Slots]
    BY <1>1, <1>2, SlotKinds
  <2> HIDE DEF page, new
  <2> QED
    BY <1>1, <1>2, <2>1
<1>4. IsDiskPage(page)
  BY DEF Tidy
<1> HIDE DEF page, new
<1>5. ASSUME EmptyPage(page)
      PROVE  IsDiskPage(new)
  <2>1. EmptyPage(new)
    BY <1>3, <1>5 DEF EmptyPage
  <2> QED
    BY <2>1 DEF IsDiskPage
<1>6. ASSUME NEW u \in Tables, WholePage(page, u)
      PROVE  IsDiskPage(new)
  <2>1. /\ DOMAIN page = 1 .. RowsPerPage /\ Len(page) = RowsPerPage
        /\ \A s \in 1 .. RowsPerPage : page[s].table = u
    BY <1>6, WholePages
  <2>2. CASE u = t
    <3>1. EmptyPage(new)
      BY <1>3, <2>1, <2>2 DEF EmptyPage
    <3> QED
      BY <3>1 DEF IsDiskPage
  <2>3. CASE u # t
    <3>1. new = page
      BY <1>1, <1>2, <2>1, <2>3
    <3> QED
      BY <1>4, <3>1
  <2> QED
    BY <2>2, <2>3
<1> QED
  BY <1>4, <1>5, <1>6 DEF IsDiskPage, new

LEMMA LayoutStep ==
    ASSUME CoreInv, CoreInv', LayoutInv, [Next]_vars
    PROVE  LayoutInv'
<1>1. columns' = columns
  BY DEF Next, vars, budget, Bootstrap, Bootstrapped, Load, LoadRejected,
         CreateBlocked, CreateFile, DropRows, FileCreated, CreateFileFails,
         RegisterColumn, RegisterOnNewPage, NewPageFails, RegisterDone, FlushPage,
         Publish, UndoFlushed, Forget, RegisterFlushFails, UndoFlushFails,
         DropFlushFails, RemoveFile, RemoveFails, Close, Closed, CloseFails, Crash,
         Fault
<1> SUFFICES ASSUME OnOnePageEach PROVE LayoutInv'
  BY <1>1 DEF LayoutInv, OnOnePageEach
<1>2. /\ Tidy(disk)
      /\ ~ Partial => Tidy(pool)
      /\ pool \in PageLists /\ disk \in PageLists
      /\ InStatement => table \in Tables
  BY DEF LayoutInv, CoreInv, TypeInv
<1>3. ASSUME Tidy(disk'), Tidy(pool'), ~ Partial'
      PROVE  LayoutInv'
  BY <1>3 DEF LayoutInv
<1>4. ASSUME UNCHANGED <<pool, disk>>, ~ Partial, ~ Partial'
      PROVE  LayoutInv'
  <2> QED
    BY <1>2, <1>3, <1>4
<1>5. CASE RegisterColumn
  BY <1>5, RegisterColumnLayout
<1>6. CASE RegisterOnNewPage
  BY <1>6, RegisterOnNewPageLayout
<1>7. ASSUME NEW t \in Tables, DeleteWhere(t), disk' = disk, ~ Partial, ~ Partial'
      PROVE  LayoutInv'
  <2>1. Tidy(pool')
    BY <1>2, <1>7, ErasedLayout DEF DeleteWhere
  <2> QED
    BY <1>2, <1>3, <1>7, <2>1
<1>8. ASSUME NEW t \in Tables, DropRows(t)
      PROVE  LayoutInv'
  BY <1>7, <1>8 DEF DropRows, Partial, files
<1>9. CASE RegisterFlushFails
  BY <1>2, <1>7, <1>9 DEF RegisterFlushFails, Undo, files, Partial, InStatement
<1>21. CASE NewPageFails
  <2>1. Tidy(pool)
    BY <1>2, <1>21, NoPageIsPartial DEF NewPageFails
  <2>2. table \in Tables /\ ~ Partial'
    BY <1>2, <1>21 DEF NewPageFails, InStatement, Partial
  <2>3. Tidy(Erased(table)) /\ Erased(table) \in PageLists
    BY <1>2, <2>1, <2>2, ErasedLayout, ErasedPages
  <2>4. PICK page \in UnwrittenPages :
            disk' = Append(disk, page) /\ pool' = Append(Erased(table), page)
    BY <1>21 DEF NewPageFails
  <2>5. IsDiskPage(page)
    BY CatalogAssumption DEF UnwrittenPages, EmptyPage, IsDiskPage
  <2>6. ASSUME NEW pages \in PageLists, Tidy(pages)
        PROVE  Tidy(Append(pages, page))
    <3> DEFINE more == Append(pages, page)
    <3>1. /\ more \in PageLists /\ Len(more) = Len(pages) + 1
          /\ more[Len(pages) + 1] = page
          /\ \A i \in DOMAIN pages : more[i] = pages[i]
      BY UnwrittenPage
    <3> HIDE DEF more
    <3>2. DOMAIN more = 1 .. Len(pages) + 1 /\ DOMAIN pages = 1 .. Len(pages)
          /\ Len(pages) \in Nat
      BY <3>1 DEF PageLists
    <3>3. Tidy(more)
      BY <2>5, <2>6, <3>1, <3>2 DEF Tidy
    <3> QED
      BY <3>3 DEF more
  <2> QED
    BY <1>2, <1>3, <2>2, <2>3, <2>4, <2>6
<1>10. CASE FlushPage
  <2>1. PICK i \in dirty : disk' = [disk EXCEPT ![i] = pool[i]]
    BY <1>10 DEF FlushPage
  <2>2. pool' = pool /\ ~ Partial /\ ~ Partial'
    BY <1>10 DEF FlushPage, Partial
  <2>3. i \in DOMAIN pool /\ Tidy(pool)
    BY <1>2, <2>2 DEF CoreInv, TypeInv
  <2>4. Tidy(disk')
    BY <1>2, <2>1, <2>3 DEF Tidy
  <2> QED
    BY <1>3, <2>2, <2>3, <2>4
<1>11. CASE Load
  <2>1. pool' = disk /\ disk' = disk /\ ~ Partial'
    BY <1>11 DEF Load, files, Partial
  <2> QED
    BY <1>2, <1>3, <2>1
<1>12. CASE Closed \/ CloseFails \/ Crash
  <2>1. pool' = <<>> /\ disk' = disk /\ ~ Partial'
    BY <1>12 DEF Closed, CloseFails, Crash, Stopped, files, Partial
  <2>2. Tidy(pool')
    BY <2>1 DEF Tidy
  <2> QED
    BY <1>2, <1>3, <2>1, <2>2
<1>13. CASE RegisterDone
  <2>1. ~ Partial /\ ~ Partial' /\ UNCHANGED <<pool, disk>>
    <3>1. table \in Tables /\ column = RowsPerPage /\ RowsPerPage \in Nat
      BY <1>2, <1>13, CatalogAssumption DEF RegisterDone, InStatement, OnOnePageEach
    <3> QED
      BY <1>13, <3>1 DEF RegisterDone, Partial, cache, files
  <2> QED
    BY <1>4, <2>1
<1>14. CASE UNCHANGED vars
  BY <1>14 DEF vars, statement, cache, files, budget, LayoutInv, Partial, IsPartial,
               HasRoom, OnOnePageEach
<1>15. CASE FileCreated
  <2>1. column = 0 /\ column' = column
    BY <1>15 DEF FileCreated, CoreInv, TypeInv, statement
  <2> QED
    BY <1>4, <1>15, <2>1 DEF FileCreated, Partial, cache
<1>16. ASSUME NEW t \in Tables, CreateFile(t)
       PROVE  LayoutInv'
  BY <1>4, <1>16 DEF CreateFile, Partial, cache
<1>17. CASE Bootstrap \/ Bootstrapped \/ CreateFileFails
  BY <1>4, <1>17 DEF Bootstrap, Bootstrapped, CreateFileFails, Partial, cache, files
<1>18. CASE Publish \/ UndoFlushed \/ Forget \/ UndoFlushFails
  BY <1>4, <1>18 DEF Publish, UndoFlushed, Forget, UndoFlushFails, Partial, cache, files
<1>19. CASE DropFlushFails \/ RemoveFile \/ RemoveFails \/ Close
  BY <1>4, <1>19 DEF DropFlushFails, RemoveFile, RemoveFails, Close, Partial, cache, files
<1>20. LoadRejected \/ (\E t \in Tables : CreateBlocked(t)) => UNCHANGED vars
  BY DEF LoadRejected, CreateBlocked
<1> QED
  BY <1>5, <1>6, <1>8, <1>9, <1>10, <1>11, <1>12, <1>13, <1>14, <1>15, <1>16, <1>17,
     <1>18, <1>19, <1>20, <1>21 DEF Next

-----------------------------------------------------------------------------
(* What the memory has of a schema is all of it.                           *)

LEMMA SchemasWholeStep ==
    ASSUME CoreInv, UndisturbedInv, LayoutInv, SchemasWhole, [Next]_vars,
           Undisturbed' => Undisturbed, columns' = columns
    PROVE  SchemasWhole'
<1> SUFFICES ASSUME Undisturbed \/ OnOnePageEach, NEW t \in DOMAIN catalog'
             PROVE  catalog'[t] = columns[t]
  BY DEF SchemasWhole, OnOnePageEach
<1>1. \A u \in DOMAIN catalog : catalog[u] = columns[u]
  BY DEF SchemasWhole
<1>2. CASE UNCHANGED catalog
  BY <1>1, <1>2
<1>3. CASE Load
  <2>1. /\ t \in Tables /\ RowsOf(t, disk) # {} /\ Contiguous(t, disk)
        /\ catalog'[t] = Cardinality(RowsOf(t, disk))
    BY <1>3 DEF Load, Loadable, Registered
  <2>2. CASE Undisturbed
    <3>1. told[t] = "present"
      <4>1. told[t] # "unknown" /\ pc = "down"
        BY <1>3, <2>1, <2>2 DEF UndisturbedInv, Settled, InStatement, Load
      <4>2. told[t] # "absent"
        BY <2>1 DEF CoreInv, DiskInv
      <4> QED
        BY <2>1, <4>1, <4>2 DEF CoreInv, TypeInv
    <3> QED
      BY <2>1, <3>1 DEF CoreInv, DiskInv, PublishedIsDurable
  <2>3. CASE OnOnePageEach
    <3>1. disk \in PageLists /\ Tidy(disk)
      BY <2>3 DEF CoreInv, TypeInv, LayoutInv
    <3>2. Positions(t, disk) = 0 .. RowsPerPage - 1
      BY <2>1, <3>1, AllPositions
    <3>3. 0 .. Cardinality(RowsOf(t, disk)) - 1 = 0 .. RowsPerPage - 1
      BY <2>1, <3>2 DEF Contiguous
    <3>4. Cardinality(RowsOf(t, disk)) \in Nat /\ RowsPerPage \in Nat
      BY <3>1, PlacesFinite, CatalogAssumption
    <3>5. Cardinality(RowsOf(t, disk)) = RowsPerPage
      <4> DEFINE c == Cardinality(RowsOf(t, disk))
      <4> HIDE DEF c
      <4>1. \A k \in Nat : k \in 0 .. c - 1 <=> k \in 0 .. RowsPerPage - 1
        BY <3>3 DEF c
      <4>2. c \in Nat
        BY <3>4 DEF c
      <4>3. ~ (c < RowsPerPage) /\ ~ (RowsPerPage < c)
        BY <3>4, <4>1, <4>2
      <4> QED
        BY <3>4, <4>2, <4>3 DEF c
    <3> QED
      BY <2>1, <2>3, <3>5 DEF OnOnePageEach
  <2> QED
    BY <2>2, <2>3
<1>4. CASE Publish
  BY <1>1, <1>4 DEF Publish
<1>5. CASE Forget
  BY <1>1, <1>5 DEF Forget
<1>6. CASE Closed \/ CloseFails \/ Crash
  BY <1>6 DEF Closed, CloseFails, Crash, Stopped
<1> QED
  <2>1. ASSUME NEW u \in Tables, CreateBlocked(u) \/ CreateFile(u) \/ DropRows(u)
        PROVE  UNCHANGED catalog
    BY <2>1 DEF CreateBlocked, CreateFile, DropRows, vars
  <2>2. CASE Bootstrap \/ Bootstrapped \/ LoadRejected \/ FileCreated
             \/ CreateFileFails \/ UNCHANGED vars
    BY <1>2, <2>2 DEF Bootstrap, Bootstrapped, LoadRejected, FileCreated,
                      CreateFileFails, vars
  <2>3. CASE RegisterColumn \/ RegisterOnNewPage \/ NewPageFails \/ RegisterDone
    BY <1>2, <2>3 DEF RegisterColumn, RegisterOnNewPage, NewPageFails, RegisterDone,
                      Undo
  <2>4. CASE FlushPage \/ UndoFlushed \/ RegisterFlushFails \/ UndoFlushFails
    BY <1>2, <2>4 DEF FlushPage, UndoFlushed, RegisterFlushFails, UndoFlushFails, Undo
  <2>5. CASE DropFlushFails \/ RemoveFile \/ RemoveFails \/ Close
    BY <1>2, <2>5 DEF DropFlushFails, RemoveFile, RemoveFails, Close
  <2> QED
    BY <1>2, <1>3, <1>4, <1>5, <1>6, <2>1, <2>2, <2>3, <2>4, <2>5 DEF Next

-----------------------------------------------------------------------------
(* Schemas written at once, and one failing write at most: the rows of a   *)
(* table are on one page, the same in the pool and in the file, and the    *)
(* file has none without a data file.  Rows of a table the memory does not *)
(* have are in the file only while its CREATE is being flushed or undone.  *)

AtOnce == OnOnePageEach /\ faults <= 1
InDoubt(t) == table = t /\ pc = "flush" /\ op \in {"create", "undo"}

AtOnceInv ==
    AtOnce =>
        /\ Undoing => faults = 1
        /\ InStatement => ~ undoFailed
        /\ \A t \in Tables :
              /\ RowsOf(t, disk) # {} => file[t] = "usable"
              /\ \A x, y \in RowsOf(t, disk) \cup RowsOf(t, pool) : x[1] = y[1]
              /\ Up /\ t \notin DOMAIN catalog => RowsOf(t, disk) = {} \/ InDoubt(t)

(* No row comes to the pool or to the file.                                *)
LEMMA NoNewRows ==
    ASSUME AtOnce', AtOnceInv, AtOnce, Undoing' => faults' = 1,
           InStatement' => ~ undoFailed',
           \A t \in Tables :
              /\ RowsOf(t, disk') \cup RowsOf(t, pool')
                    \subseteq RowsOf(t, disk) \cup RowsOf(t, pool)
              /\ RowsOf(t, disk') # {} => file'[t] = "usable"
              /\ Up' /\ t \notin DOMAIN catalog' => RowsOf(t, disk') = {} \/ InDoubt(t)'
    PROVE  AtOnceInv'
<1>1. \A t \in Tables : \A x, y \in RowsOf(t, disk) \cup RowsOf(t, pool) : x[1] = y[1]
  BY DEF AtOnceInv
<1>2. ASSUME NEW t \in Tables
      PROVE  \A x, y \in RowsOf(t, disk') \cup RowsOf(t, pool') : x[1] = y[1]
  BY <1>1
<1> QED
  BY <1>2 DEF AtOnceInv

(* The row registered is on the page of those before it, or the first.     *)
LEMMA RegisteredOnOnePage ==
    ASSUME CoreInv, CoreInv', LayoutInv, AtOnceInv, AtOnce, AtOnce',
           RegisterColumn \/ RegisterOnNewPage,
           NEW p, RowsOf(table, pool') \subseteq RowsOf(table, pool) \cup {p},
           \A t \in Tables : RowsOf(t, disk') = RowsOf(t, disk),
           \A t \in Tables : t # table => RowsOf(t, pool') = RowsOf(t, pool),
           \A x \in RowsOf(table, pool) : x[1] = p[1]
    PROVE  AtOnceInv'
<1>1. /\ pc = "register" /\ table \in Tables /\ ~ undoFailed
      /\ table \notin DOMAIN catalog
      /\ UNCHANGED <<pc, op, table, undoFailed, catalog, file, faults>>
  BY DEF RegisterColumn, RegisterOnNewPage, CoreInv, TypeInv, StatementInv,
         InStatement, AtOnceInv, files, budget
<1>2. \A t \in Tables :
          /\ RowsOf(t, disk) # {} => file[t] = "usable"
          /\ \A x, y \in RowsOf(t, disk) \cup RowsOf(t, pool) : x[1] = y[1]
          /\ t \notin DOMAIN catalog => RowsOf(t, disk) = {}
  BY <1>1 DEF AtOnceInv, Up, InDoubt
<1>3. \A t \in Tables :
          \A x, y \in RowsOf(t, disk') \cup RowsOf(t, pool') : x[1] = y[1]
  <2> TAKE t \in Tables
  <2>1. CASE t = table
    BY <1>1, <1>2, <2>1
  <2>2. CASE t # table
    BY <1>2, <2>2
  <2> QED
    BY <2>1, <2>2
<1> QED
  BY <1>1, <1>2, <1>3 DEF AtOnceInv, Up, Undoing

LEMMA RegisterColumnAtOnce ==
    ASSUME CoreInv, CoreInv', LayoutInv, AtOnceInv, AtOnce, AtOnce', RegisterColumn
    PROVE  AtOnceInv'
<1>1. /\ pc = "register" /\ column < columns[table] /\ OnOnePageEach
      /\ disk' = disk
  BY DEF RegisterColumn, AtOnce, files
<1>2. PICK i \in DOMAIN pool :
          /\ HasRoom(i)
          /\ \A j \in 1 .. i - 1 : ~ HasRoom(j)
          /\ pool' = [pool EXCEPT ![i] = Append(@, Row(table, column))]
  BY DEF RegisterColumn
<1>3. /\ table \in Tables /\ column \in Nat /\ pool \in PageLists /\ pool' \in PageLists
      /\ Row(table, column) \in Slots
  BY <1>1, SlotKinds DEF CoreInv, TypeInv, InStatement
<1> DEFINE p == <<i, Len(pool[i]) + 1>>
<1>4. /\ p \notin Places(pool) /\ Places(pool') = Places(pool) \cup {p}
      /\ \A x \in Places(pool) : Cell(pool', x) = Cell(pool, x)
      /\ Cell(pool', p) = Row(table, column)
  <2>1. pool' = RowAdded(pool, i, Row(table, column))
    BY <1>2 DEF RowAdded
  <2> QED
    BY <1>3, <2>1, AppendedRow
<1>5. p[1] = i
  OBVIOUS
<1> HIDE DEF p
<1>6. /\ RowsOf(table, pool') = RowsOf(table, pool) \cup {p}
      /\ \A t \in Tables : t # table => RowsOf(t, pool') = RowsOf(t, pool)
  BY <1>3, <1>4, OneRowMore DEF SameRows
<1>7. \A x \in RowsOf(table, pool) : x[1] = i
  <2>1. CASE column = 0
    <3>1. Cardinality(RowsOf(table, pool)) = 0
      BY <1>1, <2>1 DEF CoreInv, StatementInv, Registering
    <3>2. RowsOf(table, pool) = {}
      BY <1>3, <3>1, PlacesFinite, FS_EmptySet
    <3> QED
      BY <3>2
  <2>2. CASE column # 0
    <3> DEFINE f == [s \in 1 .. column |-> Row(table, s - 1)]
    <3>1. pool[i] = f
      BY <1>1, <1>2, PageAtHand
    <3>2. 1 \in DOMAIN f /\ f[1] = Row(table, 0)
      BY <1>3, <2>2
    <3> HIDE DEF f
    <3>3. <<i, 1>> \in RowsOf(table, pool)
      BY <1>3, <3>1, <3>2, PlaceOf, RowsAreCells, SlotKinds DEF Cell
    <3>4. \A x, y \in RowsOf(table, pool) : x[1] = y[1]
      BY <1>3 DEF AtOnceInv
    <3> QED
      BY <3>3, <3>4
  <2> QED
    BY <2>1, <2>2
<1> QED
  BY <1>1, <1>5, <1>6, <1>7, RegisteredOnOnePage

LEMMA RegisterOnNewPageAtOnce ==
    ASSUME CoreInv, CoreInv', LayoutInv, AtOnceInv, AtOnce, AtOnce', RegisterOnNewPage
    PROVE  AtOnceInv'
<1>1. /\ pc = "register" /\ column < columns[table] /\ OnOnePageEach
      /\ \A i \in DOMAIN pool : ~ HasRoom(i)
  BY DEF RegisterOnNewPage, AtOnce
<1>2. /\ table \in Tables /\ column \in Nat /\ pool \in PageLists /\ pool' \in PageLists
  BY <1>1 DEF CoreInv, TypeInv, InStatement
<1>3. column = 0
  <2>1. RowsPerPage \in Nat /\ columns[table] = RowsPerPage
    BY <1>1, <1>2, CatalogAssumption DEF OnOnePageEach
  <2> QED
    BY <1>1, <1>2, <2>1, NoPageIsPartial DEF Partial
<1>4. RowsOf(table, pool) = {}
  <2>1. Cardinality(RowsOf(table, pool)) = 0
    BY <1>1, <1>3 DEF CoreInv, StatementInv, Registering
  <2> QED
    BY <1>2, <2>1, PlacesFinite, FS_EmptySet
<1> DEFINE p == <<Len(pool) + 1, 1>>
<1>5. /\ p \notin Places(pool) /\ Places(pool') = Places(pool) \cup {p}
      /\ \A x \in Places(pool) : Cell(pool', x) = Cell(pool, x)
      /\ Cell(pool', p) = Row(table, column)
      /\ \A t \in Tables : SameRows(t, disk, disk')
  BY RowOnNewPage
<1> HIDE DEF p
<1>6. /\ RowsOf(table, pool') = RowsOf(table, pool) \cup {p}
      /\ \A t \in Tables : t # table => RowsOf(t, pool') = RowsOf(t, pool)
  BY <1>2, <1>5, OneRowMore DEF SameRows
<1>7. \A t \in Tables : RowsOf(t, disk') = RowsOf(t, disk)
  BY <1>5 DEF SameRows
<1> QED
  BY <1>4, <1>6, <1>7, RegisteredOnOnePage

LEMMA AtOnceStep ==
    ASSUME CoreInv, CoreInv', FilesInv, LayoutInv, AtOnceInv, [Next]_vars,
           AtOnce' => AtOnce
    PROVE  AtOnceInv'
<1> SUFFICES ASSUME AtOnce, AtOnce' PROVE AtOnceInv'
  BY DEF AtOnceInv
<1> USE DEF InDoubt, Undoing, InStatement, Up
<1> DEFINE Rows(t) == RowsOf(t, disk) \cup RowsOf(t, pool)
<1>1. /\ Undoing => faults = 1
      /\ InStatement => ~ undoFailed
      /\ \A t \in Tables :
            /\ RowsOf(t, disk) # {} => file[t] = "usable"
            /\ Up /\ t \notin DOMAIN catalog => RowsOf(t, disk) = {} \/ InDoubt(t)
  BY DEF AtOnceInv
<1>2. /\ faults \in Nat /\ faults <= 1 /\ faults' \in Nat /\ faults' <= 1
      /\ InStatement => table \in Tables
      /\ pc = "remove" => op \in {"undo", "drop"}
      /\ file \in [Tables -> {"none", "unusable", "usable"}]
  BY DEF CoreInv, TypeInv, AtOnce
<1>3. ASSUME Undoing' => faults' = 1, InStatement' => ~ undoFailed',
             \A t \in Tables :
                /\ RowsOf(t, pool') \subseteq Rows(t) /\ RowsOf(t, disk') \subseteq Rows(t)
                /\ RowsOf(t, disk') # {} => file'[t] = "usable"
                /\ Up' /\ t \notin DOMAIN catalog' => RowsOf(t, disk') = {} \/ InDoubt(t)'
      PROVE  AtOnceInv'
  BY <1>3, NoNewRows
<1>4. CASE UNCHANGED <<pool, disk, file, catalog, undoFailed, table>>
           /\ (Undoing' => faults' = 1) /\ (InStatement' => ~ undoFailed)
           /\ (Up' => Up)
           /\ \A t \in Tables : InDoubt(t) /\ t \notin DOMAIN catalog =>
                 InDoubt(t)' \/ RowsOf(t, disk) = {}
  <2>1. ASSUME NEW t \in Tables
        PROVE  /\ RowsOf(t, disk') # {} => file'[t] = "usable"
               /\ Up' /\ t \notin DOMAIN catalog' => RowsOf(t, disk') = {} \/ InDoubt(t)'
    BY <1>1, <1>4, <2>1
  <2> QED
    BY <1>3, <1>4, <2>1
<1>5. CASE RegisterColumn
  BY <1>5, RegisterColumnAtOnce
<1>6. CASE RegisterOnNewPage
  BY <1>6, RegisterOnNewPageAtOnce
<1>7. CASE Bootstrap \/ UNCHANGED vars
  BY <1>1, <1>4, <1>7 DEF Bootstrap, vars, statement, cache, files, budget
<1>8. CASE CreateFileFails \/ RegisterDone \/ DropFlushFails \/ RemoveFails \/ Close
  <2>1. /\ UNCHANGED <<pool, disk, file, catalog, undoFailed, table>>
        /\ Up /\ ~ Undoing'
    BY <1>8 DEF CreateFileFails, RegisterDone, DropFlushFails, RemoveFails, Close,
                statement, cache, files, CoreInv, TypeInv
  <2>2. /\ ~ \E t \in Tables : InDoubt(t)
        /\ InStatement' => InStatement
    BY <1>8 DEF CreateFileFails, RegisterDone, DropFlushFails, RemoveFails, Close
  <2> HIDE DEF InDoubt
  <2> QED
    BY <1>1, <1>4, <2>1, <2>2
<1>9. CASE Bootstrapped
  <2>1. disk = <<>> /\ disk' = disk /\ pool' = pool /\ pc' = "idle"
    BY <1>9 DEF Bootstrapped, cache, CoreInv, CacheInv
  <2>2. \A t \in Tables : RowsOf(t, disk') = {} /\ RowsOf(t, pool') \subseteq Rows(t)
    BY <2>1, NoPlaces
  <2> HIDE DEF Rows
  <2> QED
    BY <1>3, <2>1, <2>2
<1>10. CASE Load
  <2>1. /\ disk' = disk /\ pool' = disk /\ file' = file /\ pc' = "idle"
        /\ DOMAIN catalog' = Registered(disk)
    BY <1>10 DEF Load, files
  <2>2. \A t \in Tables :
            /\ RowsOf(t, pool') \subseteq Rows(t) /\ RowsOf(t, disk') \subseteq Rows(t)
            /\ RowsOf(t, disk') # {} => file'[t] = "usable"
            /\ t \notin DOMAIN catalog' => RowsOf(t, disk') = {}
    BY <1>1, <2>1 DEF Registered
  <2> HIDE DEF Rows
  <2> QED
    BY <1>3, <2>1, <2>2
<1>11. ASSUME NEW t \in Tables, CreateFile(t)
       PROVE  AtOnceInv'
  <2>1. /\ pc = "idle" /\ pc' = "creating" /\ file[t] = "none" /\ ~ undoFailed'
        /\ file' = [file EXCEPT ![t] = "unusable"]
        /\ UNCHANGED <<pool, disk, catalog>>
    BY <1>11 DEF CreateFile, cache
  <2>2. ASSUME NEW u \in Tables
        PROVE  /\ RowsOf(u, disk) # {} => file'[u] = "usable"
               /\ u \notin DOMAIN catalog => RowsOf(u, disk) = {}
    BY <1>1, <1>2, <2>1
  <2>3. \A u \in Tables :
            /\ RowsOf(u, pool') \subseteq Rows(u) /\ RowsOf(u, disk') \subseteq Rows(u)
            /\ RowsOf(u, disk') # {} => file'[u] = "usable"
            /\ u \notin DOMAIN catalog' => RowsOf(u, disk') = {}
    BY <2>1, <2>2
  <2> HIDE DEF Rows
  <2> QED
    BY <1>3, <2>1, <2>3
<1>12. CASE FileCreated
  <2>1. /\ pc = "creating" /\ pc' = "register" /\ ~ undoFailed'
        /\ file' = [file EXCEPT ![table] = "usable"]
        /\ UNCHANGED <<pool, disk, catalog>>
    BY <1>1, <1>12 DEF FileCreated, cache, statement
  <2>2. \A u \in Tables :
            /\ RowsOf(u, pool') \subseteq Rows(u) /\ RowsOf(u, disk') \subseteq Rows(u)
            /\ RowsOf(u, disk') # {} => file'[u] = "usable"
            /\ u \notin DOMAIN catalog' => RowsOf(u, disk') = {}
    BY <1>1, <1>2, <2>1
  <2> HIDE DEF Rows
  <2> QED
    BY <1>3, <2>1, <2>2
<1>13. ASSUME NEW t \in Tables, DeleteWhere(t), Up, ~ undoFailed', pc' = "flush",
              UNCHANGED <<disk, file, catalog>>, Undoing' => faults' = 1,
              \A u \in Tables : u \notin DOMAIN catalog /\ RowsOf(u, disk) # {} =>
                 InDoubt(u)'
       PROVE  AtOnceInv'
  <2>1. \A u \in Tables : RowsOf(u, pool') \subseteq RowsOf(u, pool)
    BY <1>13, RowsDeleted DEF SameRows
  <2>2. \A u \in Tables :
            /\ RowsOf(u, pool') \subseteq Rows(u) /\ RowsOf(u, disk') \subseteq Rows(u)
            /\ RowsOf(u, disk') # {} => file'[u] = "usable"
            /\ u \notin DOMAIN catalog' => RowsOf(u, disk') = {} \/ InDoubt(u)'
    BY <1>1, <1>13, <2>1
  <2> HIDE DEF Rows
  <2> QED
    BY <1>3, <1>13, <2>2
<1>14. CASE RegisterFlushFails
  <2>1. /\ DeleteWhere(table) /\ Up /\ pc' = "flush" /\ op' = "undo"
        /\ UNCHANGED <<disk, file, catalog, undoFailed, table>>
        /\ faults' = faults + 1 /\ InStatement
    BY <1>14 DEF RegisterFlushFails, Undo, Fault, files
  <2>2. faults' = 1
    BY <1>2, <2>1
  <2>3. \A u \in Tables : u \notin DOMAIN catalog /\ RowsOf(u, disk) # {} => InDoubt(u)'
    BY <1>1, <2>1
  <2> QED
    BY <1>1, <1>2, <1>13, <2>1, <2>2, <2>3
<1>24. CASE NewPageFails
  <2>1. /\ Up /\ pc' = "flush" /\ op' = "undo" /\ InStatement /\ faults' = faults + 1
        /\ UNCHANGED <<file, catalog, undoFailed, table>> /\ pc = "register"
    BY <1>24 DEF NewPageFails, Fault
  <2>2. faults' = 1
    BY <1>2, <2>1
  <2>3. \A u \in Tables :
            /\ RowsOf(u, pool') \subseteq RowsOf(u, pool)
            /\ RowsOf(u, disk') = RowsOf(u, disk)
    BY <1>24, NewPageLost DEF SameRows
  <2>4. \A u \in Tables :
            /\ RowsOf(u, pool') \subseteq Rows(u) /\ RowsOf(u, disk') \subseteq Rows(u)
            /\ RowsOf(u, disk') # {} => file'[u] = "usable"
            /\ u \notin DOMAIN catalog' => RowsOf(u, disk') = {} \/ InDoubt(u)'
    BY <1>1, <2>1, <2>3
  <2> HIDE DEF Rows
  <2> QED
    BY <1>1, <1>3, <2>1, <2>2, <2>4
<1>15. ASSUME NEW t \in Tables, DropRows(t)
       PROVE  AtOnceInv'
  <2>1. /\ DeleteWhere(t) /\ pc = "idle" /\ pc' = "flush" /\ op' = "drop"
        /\ ~ undoFailed' /\ UNCHANGED <<disk, file, catalog>>
    BY <1>15 DEF DropRows, files
  <2> QED
    BY <1>1, <1>13, <2>1
<1>16. CASE FlushPage
  <2>1. /\ pc = "flush"
        /\ UNCHANGED <<pc, op, table, undoFailed, catalog, pool, file, faults>>
    BY <1>16 DEF FlushPage, statement, budget
  <2>2. PICK i \in dirty : disk' = [disk EXCEPT ![i] = pool[i]]
    BY <1>16 DEF FlushPage
  <2>3. /\ pool \in PageLists /\ disk \in PageLists /\ Len(pool) = Len(disk)
        /\ i \in DOMAIN pool
    BY <2>1, <2>2 DEF CoreInv, TypeInv, CacheInv
  <2>4. \A t : RowsOf(t, disk') \subseteq RowsOf(t, disk) \cup RowsOf(t, pool)
    BY <2>2, <2>3, WrittenPage
  <2>5. ASSUME NEW t \in Tables, RowsOf(t, pool) # {}
        PROVE  file[t] = "usable"
    <3>1. CASE t \in DOMAIN catalog
      BY <3>1 DEF FilesInv
    <3>2. CASE t \notin DOMAIN catalog
      <4>1. Registering /\ table = t
        BY <2>1, <2>5, <3>2 DEF CoreInv, MemoryInv
      <4> QED
        BY <4>1 DEF CoreInv, StatementInv
    <3> QED
      BY <3>1, <3>2
  <2>6. ASSUME NEW t \in Tables, t \notin DOMAIN catalog, ~ InDoubt(t)
        PROVE  RowsOf(t, disk) = {} /\ RowsOf(t, pool) = {}
    BY <1>1, <2>1, <2>6 DEF CoreInv, MemoryInv, Registering
  <2>7. \A t \in Tables :
            /\ RowsOf(t, pool') \subseteq Rows(t) /\ RowsOf(t, disk') \subseteq Rows(t)
            /\ RowsOf(t, disk') # {} => file'[t] = "usable"
            /\ t \notin DOMAIN catalog' => RowsOf(t, disk') = {} \/ InDoubt(t)'
    <3> TAKE t \in Tables
    <3>1. RowsOf(t, pool') \subseteq Rows(t) /\ RowsOf(t, disk') \subseteq Rows(t)
      BY <2>1, <2>4
    <3>2. RowsOf(t, disk') # {} => file'[t] = "usable"
      BY <1>1, <2>1, <2>4, <2>5
    <3>3. InDoubt(t)' <=> InDoubt(t)
      BY <2>1
    <3>4. t \notin DOMAIN catalog' => RowsOf(t, disk') = {} \/ InDoubt(t)'
      BY <2>1, <2>4, <2>6, <3>3
    <3> QED
      BY <3>1, <3>2, <3>4
  <2>8. (Undoing' => faults' = 1) /\ (InStatement' => ~ undoFailed')
    BY <1>1, <2>1
  <2> HIDE DEF Rows, Undoing, InStatement, InDoubt
  <2> QED
    BY <1>3, <2>7, <2>8
<1>17. CASE Publish
  <2>1. /\ pc = "flush" /\ op = "create" /\ pc' = "idle"
        /\ DOMAIN catalog' = DOMAIN catalog \cup {table}
        /\ UNCHANGED <<pool, disk, file>>
    BY <1>17 DEF Publish, cache, files
  <2>2. \A t \in Tables :
            /\ RowsOf(t, pool') \subseteq Rows(t) /\ RowsOf(t, disk') \subseteq Rows(t)
            /\ RowsOf(t, disk') # {} => file'[t] = "usable"
            /\ t \notin DOMAIN catalog' => RowsOf(t, disk') = {}
    BY <1>1, <2>1
  <2> HIDE DEF Rows
  <2> QED
    BY <1>3, <2>1, <2>2
<1>18. CASE UndoFlushed
  <2>1. /\ pc = "flush" /\ op = "undo" /\ op' = op /\ pc' = "remove" /\ dirty = {}
        /\ UNCHANGED <<pool, disk, file, catalog, undoFailed, table, faults>>
    BY <1>18 DEF UndoFlushed, statement, cache, files, budget
  <2>2. pool = disk
    BY <2>1, CleanIsFlushed
  <2>3. table \in Tables /\ table \notin DOMAIN catalog /\ RowsOf(table, disk) = {}
    BY <1>2, <2>1, <2>2 DEF CoreInv, StatementInv, MemoryInv, Registering
  <2> QED
    BY <1>1, <1>4, <2>1, <2>3
<1>19. CASE Forget
  <2>1. /\ pc = "flush" /\ op = "drop" /\ pc' = "remove" /\ op' = op /\ dirty = {}
        /\ DOMAIN catalog' = DOMAIN catalog \ {table}
        /\ UNCHANGED <<pool, disk, file, undoFailed>>
    BY <1>19 DEF Forget, statement, cache, files
  <2>2. pool = disk
    BY <2>1, CleanIsFlushed
  <2>3. RowsOf(table, disk) = {}
    BY <2>1, <2>2 DEF CoreInv, StatementInv
  <2>4. \A t \in Tables :
            /\ RowsOf(t, pool') \subseteq Rows(t) /\ RowsOf(t, disk') \subseteq Rows(t)
            /\ RowsOf(t, disk') # {} => file'[t] = "usable"
            /\ t \notin DOMAIN catalog' => RowsOf(t, disk') = {}
    BY <1>1, <2>1, <2>3
  <2> HIDE DEF Rows
  <2> QED
    BY <1>1, <1>3, <2>1, <2>4
<1>20. CASE RemoveFile
  <2>1. /\ pc = "remove" /\ pc' = "idle" /\ file' = [file EXCEPT ![table] = "none"]
        /\ UNCHANGED <<pool, disk, catalog>>
    BY <1>20 DEF RemoveFile, cache
  <2>2. RowsOf(table, disk) = {}
    BY <1>1, <1>2, <2>1 DEF CoreInv, StatementInv
  <2>3. \A t \in Tables :
            /\ RowsOf(t, pool') \subseteq Rows(t) /\ RowsOf(t, disk') \subseteq Rows(t)
            /\ RowsOf(t, disk') # {} => file'[t] = "usable"
            /\ t \notin DOMAIN catalog' => RowsOf(t, disk') = {}
    BY <1>1, <1>2, <2>1, <2>2
  <2> HIDE DEF Rows
  <2> QED
    BY <1>3, <2>1, <2>3
<1>21. ~ UndoFlushFails
  BY <1>1, <1>2 DEF UndoFlushFails, Fault
<1>22. CASE Closed \/ CloseFails \/ Crash
  <2>1. pool' = <<>> /\ pc' = "down" /\ UNCHANGED <<disk, file>>
    BY <1>22 DEF Closed, CloseFails, Crash, Stopped, files
  <2>2. \A t \in Tables :
            /\ RowsOf(t, pool') \subseteq Rows(t) /\ RowsOf(t, disk') \subseteq Rows(t)
            /\ RowsOf(t, disk') # {} => file'[t] = "usable"
    BY <1>1, <2>1, NoPlaces
  <2> HIDE DEF Rows
  <2> QED
    BY <1>3, <2>1, <2>2
<1>23. LoadRejected \/ (\E t \in Tables : CreateBlocked(t)) => UNCHANGED vars
  BY DEF LoadRejected, CreateBlocked
<1> QED
  BY <1>5, <1>6, <1>7, <1>8, <1>9, <1>10, <1>11, <1>12, <1>14, <1>15, <1>16, <1>17,
     <1>18, <1>19, <1>20, <1>21, <1>22, <1>23, <1>24 DEF Next

-----------------------------------------------------------------------------
(* The inductive invariant as a whole, and what follows from it.           *)

CatalogInv ==
    /\ CoreInv
    /\ UndisturbedInv
    /\ FilesInv
    /\ LayoutInv
    /\ SchemasWhole
    /\ AtOnceInv

LEMMA CatalogInit == Init => CatalogInv
<1> SUFFICES ASSUME Init PROVE CatalogInv
  OBVIOUS
<1>1. CoreInv
  BY CoreInit
<1>2. UndisturbedInv /\ FilesInv /\ SchemasWhole
  BY DEF Init, UndisturbedInv, FilesInv, SchemasWhole, Undoing
<1>3. LayoutInv
  BY DEF Init, LayoutInv, Tidy, Partial
<1>4. AtOnceInv
  <2>1. \A t \in Tables : RowsOf(t, disk) = {} /\ RowsOf(t, pool) = {}
    BY NoPlaces DEF Init
  <2> QED
    BY <2>1 DEF Init, AtOnceInv, Undoing, InStatement, Up
<1> QED
  BY <1>1, <1>2, <1>3, <1>4 DEF CatalogInv

(* Faults and kills are only counted up, and no table changes its columns. *)
LEMMA BudgetStep ==
    ASSUME CoreInv, [Next]_vars
    PROVE  /\ columns' = columns
           /\ Undisturbed' => Undisturbed
           /\ AtOnce' => AtOnce
<1>1. faults \in Nat /\ crashes \in Nat
  BY DEF CoreInv, TypeInv
<1>2. columns' = columns /\ faults' >= faults /\ crashes' >= crashes
  BY <1>1 DEF Next, vars, budget, Bootstrap, Bootstrapped, Load, LoadRejected,
         CreateBlocked, CreateFile, DropRows, FileCreated, CreateFileFails,
         RegisterColumn, RegisterOnNewPage, NewPageFails, RegisterDone, FlushPage,
         Publish, UndoFlushed, Forget, RegisterFlushFails, UndoFlushFails,
         DropFlushFails, RemoveFile, RemoveFails, Close, Closed, CloseFails, Crash,
         Fault
<1>3. faults' \in Nat /\ crashes' \in Nat
  BY CoreStep DEF CoreInv, TypeInv
<1>4. Undisturbed' => Undisturbed
  BY <1>1, <1>2 DEF Undisturbed
<1>5. AtOnce' => AtOnce
  BY <1>1, <1>2, <1>3 DEF AtOnce, OnOnePageEach
<1> QED
  BY <1>2, <1>4, <1>5

LEMMA CatalogStep == CatalogInv /\ [Next]_vars => CatalogInv'
<1> SUFFICES ASSUME CatalogInv, [Next]_vars PROVE CatalogInv'
  OBVIOUS
<1>1. CoreInv /\ UndisturbedInv /\ FilesInv /\ LayoutInv /\ SchemasWhole /\ AtOnceInv
  BY DEF CatalogInv
<1>2. CoreInv'
  BY <1>1, CoreStep
<1>3. columns' = columns /\ (Undisturbed' => Undisturbed) /\ (AtOnce' => AtOnce)
  BY <1>1, BudgetStep
<1>4. UndisturbedInv' /\ FilesInv'
  BY <1>1, UndisturbedStep, FilesStep
<1>5. LayoutInv'
  BY <1>1, <1>2, LayoutStep
<1>6. SchemasWhole'
  BY <1>1, <1>3, SchemasWholeStep
<1>7. AtOnceInv'
  BY <1>1, <1>2, <1>3, AtOnceStep
<1> QED
  BY <1>2, <1>4, <1>5, <1>6, <1>7 DEF CatalogInv

(* CatalogInvariant: every reachable state satisfies the inductive         *)
(* invariant, its types among it.                                          *)
THEOREM CatalogInvariant == Spec => []CatalogInv
<1> QED
  BY CatalogInit, CatalogStep, PTL DEF Spec

(* WhatWasCreatedStays: a table whose CREATE has succeeded is in the       *)
(* catalog's file, row by row, and has a data file, whatever is undone,    *)
(* dropped, fails or is killed afterwards.                                 *)
THEOREM WhatWasCreatedStays == Spec => []PublishedIsDurable
<1>1. CatalogInv => PublishedIsDurable
  BY DEF CatalogInv, CoreInv, DiskInv
<1> QED
  BY <1>1, CatalogInvariant, PTL

LEMMA UntouchedIsKnown ==
    ASSUME CatalogInv, Undisturbed, pc \in {"idle", "down"}, NEW t \in Tables
    PROVE  told[t] \in {"absent", "present"}
<1>1. told[t] \in {"absent", "present", "unknown"}
  BY DEF CatalogInv, CoreInv, TypeInv
<1> QED
  BY <1>1 DEF CatalogInv, UndisturbedInv, Settled, InStatement

(* WhatWasDroppedIsGone: a table dropped, or undone without a clean-up     *)
(* error, has left no row and no file behind; while nothing has failed,    *)
(* each name without a table is free.                                      *)
THEOREM WhatWasDroppedIsGone == Spec => []AbsentLeavesNoTrace
<1>1. CatalogInv => AbsentLeavesNoTrace
  <2> SUFFICES ASSUME CatalogInv PROVE AbsentLeavesNoTrace
    OBVIOUS
  <2>1. \A t \in Tables : told[t] = "absent" =>
            RowsOf(t, disk) = {} /\ file[t] = "none"
    BY DEF CatalogInv, CoreInv, DiskInv
  <2>2. ASSUME Undisturbed, pc = "idle", NEW t \in Tables \ DOMAIN catalog
        PROVE  file[t] = "none"
    <3>1. told[t] \in {"absent", "present"}
      BY <2>2, UntouchedIsKnown
    <3>2. told[t] # "present"
      BY <2>2 DEF CatalogInv, CoreInv, MemoryInv, Up
    <3> QED
      BY <2>1, <3>1, <3>2
  <2> QED
    BY <2>1, <2>2 DEF AbsentLeavesNoTrace, NameIsFree
<1> QED
  BY <1>1, CatalogInvariant, PTL

(* MemorySaysWhatWasTold: between statements the in-memory catalog and the *)
(* pool agree with what the user was told, and no schema is cut short when *)
(* nothing has failed or each is written at once.                          *)
THEOREM MemorySaysWhatWasTold == Spec => []MemoryAgrees
<1>1. CatalogInv => MemoryAgrees
  <2> SUFFICES ASSUME CatalogInv PROVE MemoryAgrees
    OBVIOUS
  <2> SUFFICES ASSUME pc = "idle", NEW t \in Tables
               PROVE  /\ told[t] = "present" =>
                            /\ t \in DOMAIN catalog /\ catalog[t] = columns[t]
                            /\ RowsOf(t, pool) # {}
                      /\ told[t] = "absent" =>
                            t \notin DOMAIN catalog /\ RowsOf(t, pool) = {}
    BY DEF MemoryAgrees, CatalogInv
  <2>1. /\ told[t] = "present" =>
              /\ t \in DOMAIN catalog /\ catalog[t] = columns[t]
              /\ RowsOf(t, pool) = RowsOf(t, disk)
        /\ told[t] = "absent" => t \notin DOMAIN catalog
        /\ t \notin DOMAIN catalog => RowsOf(t, pool) = {}
    BY DEF CatalogInv, CoreInv, MemoryInv, Up, Registering, SameRows
  <2>2. told[t] = "present" => RowsOf(t, disk) # {}
    <3>1. told[t] = "present" => Cardinality(RowsOf(t, disk)) # 0
      BY DEF CatalogInv, CoreInv, DiskInv, PublishedIsDurable, TypeInv
    <3> QED
      BY <3>1, FS_EmptySet
  <2> QED
    BY <2>1, <2>2
<1> QED
  BY <1>1, CatalogInvariant, PTL

(* TheDatabaseOpens: load() accepts what is in the files whenever the      *)
(* process stops, when nothing has failed, and also after one failing      *)
(* write and any kills when each schema fills one page.                    *)
THEOREM TheDatabaseOpens == Spec => []ReopensIfWrittenAtOnce
<1>1. CatalogInv => ReopensIfWrittenAtOnce
  <2> SUFFICES ASSUME CatalogInv, Undisturbed \/ (OnOnePageEach /\ faults <= 1),
                      pc = "down", NEW t \in Tables, RowsOf(t, disk) # {}
               PROVE  Contiguous(t, disk) /\ file[t] = "usable"
    BY DEF ReopensIfWrittenAtOnce, Reopens, Loadable, Registered
  <2>1. CASE Undisturbed
    <3>1. told[t] \in {"absent", "present"}
      BY <2>1, UntouchedIsKnown
    <3>2. told[t] = "present"
      BY <3>1 DEF CatalogInv, CoreInv, DiskInv
    <3> QED
      BY <3>2 DEF CatalogInv, CoreInv, DiskInv, PublishedIsDurable, Contiguous
  <2>2. CASE OnOnePageEach /\ faults <= 1
    <3>1. /\ disk \in PageLists /\ Tidy(disk)
          /\ file[t] = "usable"
          /\ \A x, y \in RowsOf(t, disk) : x[1] = y[1]
      BY <2>2 DEF CatalogInv, CoreInv, TypeInv, LayoutInv, AtOnceInv, AtOnce
    <3>2. /\ Positions(t, disk) = 0 .. RowsPerPage - 1
          /\ Cardinality(RowsOf(t, disk)) = RowsPerPage
      BY <3>1, AllPositions
    <3> QED
      BY <3>1, <3>2 DEF Contiguous
  <2> QED
    BY <2>1, <2>2
<1> QED
  BY <1>1, CatalogInvariant, PTL
=============================================================================
