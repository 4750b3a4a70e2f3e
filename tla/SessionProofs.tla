---------------------------- MODULE SessionProofs ----------------------------
(***************************************************************************)
(* The statements of a text run one by one, and what they did is shown:    *)
(* whatever the lexer and the parser make of the text, for any inputs.     *)
(***************************************************************************)
EXTENDS Session, WellFoundedInduction, SequenceTheorems, FiniteSetTheorems,
        TLAPS
-----------------------------------------------------------------------------
(* Numbers and lists.                                                      *)

(* Induction up to a bound: a set with 0 and the successor of each of its  *)
(* members below the bound has every number up to it.                      *)
LEMMA UpTo ==
    ASSUME NEW b \in Nat, NEW T, 0 \in T,
           \A k \in 0 .. b : k # 0 /\ k - 1 \in T => k \in T
    PROVE  0 .. b \subseteq T
<1> DEFINE out == (0 .. b) \ T
           below == OpToRel(<, Nat)
<1>1. SUFFICES ASSUME out # {}
               PROVE  FALSE
  OBVIOUS
<1>2. PICK n \in out : \A m \in out : <<m, n>> \notin below
  <2>1. out \subseteq Nat
    OBVIOUS
  <2>2. IsWellFoundedOn(below, Nat)
    BY NatLessThanWellFounded, Zenon
  <2> HIDE DEF out, below
  <2> QED
    BY <1>1, <2>1, <2>2, WFMin, Zenon
<1>3. FALSE
  <2>1. n \in 0 .. b /\ n # 0
    BY <1>2
  <2>2. ASSUME n - 1 \notin T
        PROVE  n - 1 \in out
    BY <2>1, <2>2
  <2>3. n - 1 \in Nat /\ n \in Nat /\ n - 1 < n
    BY <2>1
  <2>4. <<n - 1, n>> \in below
    BY <2>3 DEF OpToRel
  <2>5. n - 1 \in T
    <3> HIDE DEF out, below
    <3> QED
      BY <1>2, <2>2, <2>4
  <2>6. n \in T
    BY <2>1, <2>5
  <2>7. n \notin T
    BY <1>2
  <2> QED
    BY <2>6, <2>7
<1> QED
  BY <1>3

(* A set of numbers up to a bound that is not empty has a greatest one.    *)
LEMMA MaxIs ==
    ASSUME NEW b \in Nat, NEW S, S \subseteq 0 .. b, S # {}
    PROVE  Max(S) \in S /\ \A x \in S : Max(S) >= x
<1> DEFINE T == {n \in 0 .. b : (\E x \in S : x <= n) =>
                                   \E m \in S : \A x \in S : x <= n => m >= x}
<1>1. 0 \in T
  BY SMT
<1>2. ASSUME NEW k \in 0 .. b, k # 0, k - 1 \in T
      PROVE  k \in T
  <2>1. CASE k \in S
    <3>1. \A x \in S : x <= k => k >= x
      OBVIOUS
    <3> QED
      BY <2>1, <3>1
  <2>2. CASE k \notin S
    <3>1. \A x \in S : x <= k <=> x <= k - 1
      BY <2>2
    <3> QED
      BY <1>2, <3>1
  <2> QED
    BY <2>1, <2>2
<1>3. b \in T
  <2> HIDE DEF T
  <2>1. 0 .. b \subseteq T
    BY <1>1, <1>2, UpTo
  <2> QED
    BY <2>1
<1>4. \E x \in S : x <= b
  <2>1. \A x \in S : x <= b
    BY SMT
  <2>2. \E x \in S : TRUE
    BY Zenon
  <2> QED
    BY <2>1, <2>2
<1>5. \E m \in S : \A x \in S : x <= b => m >= x
  BY <1>3, <1>4
<1>6. PICK m \in S : \A x \in S : m >= x
  BY <1>5
<1> QED
  BY <1>6 DEF Max

(* The least and the greatest of the places from a to z.                   *)
LEMMA Bounds ==
    ASSUME NEW a \in Nat, NEW z \in Nat, a <= z
    PROVE  Min(a .. z) = a /\ Max(a .. z) = z
<1>1. a \in a .. z /\ z \in a .. z
  OBVIOUS
<1>2. \A x \in a .. z : (\A y \in a .. z : x <= y) => x = a
  BY <1>1
<1>3. \A x \in a .. z : (\A y \in a .. z : x >= y) => x = z
  BY <1>1
<1>4. (\A y \in a .. z : a <= y) /\ \A y \in a .. z : z >= y
  OBVIOUS
<1> QED
  BY <1>1, <1>2, <1>3, <1>4 DEF Min, Max

(* What is left of a list from a place on.                                 *)
LEMMA Rest ==
    ASSUME NEW T, NEW list \in Seq(T), NEW m \in 0 .. Len(list)
    PROVE  LET rest == SubSeq(list, m + 1, Len(list))
           IN  /\ rest \in Seq(T)
               /\ rest = <<>> => m = Len(list)
               /\ rest # <<>> =>
                     /\ m + 1 \in DOMAIN list /\ Head(rest) = list[m + 1]
                     /\ Tail(rest) = SubSeq(list, m + 2, Len(list))
<1> DEFINE n == Len(list)
           rest == SubSeq(list, m + 1, n)
           next == SubSeq(list, m + 2, n)
<1>1. n \in Nat /\ m \in Nat /\ m <= n /\ DOMAIN list = 1 .. n
  OBVIOUS
<1>0. ASSUME NEW q \in 0 .. n
      PROVE  LET part == SubSeq(list, q + 1, n)
             IN  /\ part \in Seq(T) /\ Len(part) = n - q
                 /\ \A i \in 1 .. n - q : part[i] = list[q + i]
  OBVIOUS
<1>2. /\ rest \in Seq(T) /\ Len(rest) = n - m
      /\ \A i \in 1 .. n - m : rest[i] = list[m + i]
  BY <1>0
<1>3. ASSUME m < n
      PROVE  /\ next \in Seq(T) /\ Len(next) = n - m - 1
             /\ \A i \in 1 .. n - m - 1 : next[i] = list[m + 1 + i]
  <2>1. m + 1 \in 0 .. n /\ (m + 1) + 1 = m + 2 /\ n - (m + 1) = n - m - 1
    BY <1>1, <1>3
  <2>2. LET part == SubSeq(list, (m + 1) + 1, n)
        IN  /\ part \in Seq(T) /\ Len(part) = n - (m + 1)
            /\ \A i \in 1 .. n - (m + 1) : part[i] = list[(m + 1) + i]
    <3> HIDE DEF n
    <3> QED
      BY <1>0, <2>1
  <2> QED
    BY <2>1, <2>2
<1> HIDE DEF rest, next, n
<1>4. rest = <<>> => m = n
  BY <1>1, <1>2
<1>5. ASSUME rest # <<>>
      PROVE  /\ m + 1 \in DOMAIN list /\ Head(rest) = list[m + 1]
             /\ Tail(rest) = next
  <2>1. m < n
    BY <1>1, <1>2, <1>5
  <2>2. Head(rest) = rest[1] /\ rest[1] = list[m + 1]
    BY <1>1, <1>2, <2>1
  <2>3. /\ Tail(rest) \in Seq(T) /\ Len(Tail(rest)) = n - m - 1
        /\ \A i \in 1 .. n - m - 1 : Tail(rest)[i] = rest[i + 1]
    BY <1>1, <1>2, <1>5, <2>1
  <2>4. \A i \in 1 .. n - m - 1 : Tail(rest)[i] = next[i]
    BY <1>1, <1>2, <1>3, <2>1, <2>3
  <2>5. Tail(rest) = next
    BY <1>3, <2>1, <2>3, <2>4, SeqEqual
  <2> QED
    BY <1>1, <2>1, <2>2, <2>5
<1> QED
  BY <1>2, <1>4, <1>5 DEF rest, next, n

-----------------------------------------------------------------------------
(* The tables a log explains.                                              *)

After(entry, known, mode) ==
    IF entry.end = "ok" THEN TablesAfter(entry.stmt, known, mode) ELSE known

Replays(f, entries, mode, n) ==
    /\ f[1] = FirstTables(mode)
    /\ \A j \in 1 .. n : f[j + 1] = After(entries[j], f[j], mode)

LEMMA ReplayExists ==
    ASSUME NEW entries, NEW mode, NEW n \in Nat
    PROVE  \E f : f = [j \in 1 .. n + 1 |-> f[j]] /\ Replays(f, entries, mode, n)
<1> DEFINE Fine(f, m) == f = [j \in 1 .. m + 1 |-> f[j]] /\ Replays(f, entries, mode, m)
           T == {m \in 0 .. n : \E f : Fine(f, m)}
<1>1. 0 \in T
  <2> DEFINE f == [j \in 1 .. 0 + 1 |-> FirstTables(mode)]
  <2>1. f = [j \in 1 .. 0 + 1 |-> f[j]] /\ f[1] = FirstTables(mode)
    OBVIOUS
  <2> HIDE DEF f
  <2>2. Fine(f, 0)
    BY <2>1 DEF Replays
  <2> QED
    BY <2>2
<1>2. ASSUME NEW m \in 0 .. n, m # 0, m - 1 \in T
      PROVE  m \in T
  <2>1. PICK f : Fine(f, m - 1)
    BY <1>2
  <2> DEFINE w == After(entries[m], f[m], mode)
             g == [j \in 1 .. m + 1 |-> IF j = m + 1 THEN w ELSE f[j]]
  <2>2. m \in Nat /\ m >= 1
    BY <1>2
  <2>3. /\ g = [j \in 1 .. m + 1 |-> g[j]]
        /\ g[m + 1] = w /\ \A j \in 1 .. m : g[j] = f[j]
    <3> HIDE DEF w
    <3> QED
      BY <2>2
  <2> HIDE DEF g
  <2>4. g[1] = FirstTables(mode)
    <3>1. f[1] = FirstTables(mode)
      BY <2>1 DEF Replays
    <3>2. 1 \in 1 .. m
      BY <2>2
    <3> QED
      BY <2>3, <3>1, <3>2
  <2>5. ASSUME NEW j \in 1 .. m
        PROVE  g[j + 1] = After(entries[j], g[j], mode)
    <3>1. CASE j = m
      BY <2>2, <2>3, <3>1
    <3>2. CASE j # m
      <4>1. j \in 1 .. m - 1 /\ j + 1 \in 1 .. m
        BY <2>2, <3>2
      <4>2. f[j + 1] = After(entries[j], f[j], mode)
        BY <2>1, <4>1 DEF Replays
      <4> QED
        BY <2>3, <4>1, <4>2
    <3> QED
      BY <3>1, <3>2
  <2>6. Fine(g, m)
    BY <2>3, <2>4, <2>5 DEF Replays
  <2> HIDE DEF Fine
  <2> QED
    BY <2>6
<1>3. n \in T
  <2> HIDE DEF T
  <2>1. 0 .. n \subseteq T
    BY <1>1, <1>2, UpTo
  <2> QED
    BY <2>1
<1> QED
  BY <1>3

LEMMA ReplayIs ==
    ASSUME NEW entries, NEW mode, Len(entries) \in Nat
    PROVE  Replays(Replay(entries, mode), entries, mode, Len(entries))
<1> DEFINE n == Len(entries)
           Rec(f) == [j \in 1 .. n + 1 |->
                        IF j = 1 THEN FirstTables(mode)
                        ELSE IF entries[j - 1].end = "ok"
                          THEN TablesAfter(entries[j - 1].stmt, f[j - 1], mode)
                        ELSE f[j - 1]]
           known == CHOOSE f : f = Rec(f)
<1>1. Replay(entries, mode) = known
  BY DEF Replay
<1>2. \E f : f = Rec(f)
  <2>1. PICK f : f = [j \in 1 .. n + 1 |-> f[j]] /\ Replays(f, entries, mode, n)
    BY ReplayExists
  <2>2. ASSUME NEW j \in 1 .. n + 1
        PROVE  f[j] = Rec(f)[j]
    <3>1. CASE j = 1
      BY <2>1, <3>1 DEF Replays
    <3>2. CASE j # 1
      <4>1. j - 1 \in 1 .. n /\ (j - 1) + 1 = j
        BY <3>2
      <4>2. f[j] = After(entries[j - 1], f[j - 1], mode)
        BY <2>1, <4>1 DEF Replays
      <4> QED
        BY <3>2, <4>2 DEF After
    <3> QED
      BY <3>1, <3>2
  <2>3. f = Rec(f)
    BY <2>1, <2>2
  <2> QED
    BY <2>3
<1>3. known = Rec(known)
  <2> HIDE DEF Rec
  <2> QED
    BY <1>2
<1> HIDE DEF known
<1>4. known[1] = FirstTables(mode)
  BY <1>3
<1>5. ASSUME NEW j \in 1 .. n
      PROVE  known[j + 1] = After(entries[j], known[j], mode)
  <2>1. j + 1 \in 1 .. n + 1 /\ j + 1 # 1 /\ (j + 1) - 1 = j
    OBVIOUS
  <2>2. known[j + 1] = Rec(known)[j + 1]
    BY <1>3
  <2> QED
    BY <2>1, <2>2 DEF After
<1> QED
  BY <1>1, <1>4, <1>5 DEF Replays

(* One statement more changes nothing of what was before it.               *)
LEMMA ReplayAppended ==
    ASSUME NEW S, NEW entries \in Seq(S), NEW entry \in S, NEW mode
    PROVE  LET n == Len(entries)
               old == Replay(entries, mode)
               new == Replay(Append(entries, entry), mode)
           IN  /\ \A j \in 1 .. n + 1 : new[j] = old[j]
               /\ new[n + 2] = After(entry, old[n + 1], mode)
<1> DEFINE n == Len(entries)
           more == Append(entries, entry)
           old == Replay(entries, mode)
           new == Replay(more, mode)
<1>1. /\ n \in Nat /\ Len(more) = n + 1 /\ more[n + 1] = entry
      /\ \A j \in 1 .. n : more[j] = entries[j]
  OBVIOUS
<1>2. Replays(old, entries, mode, n) /\ Replays(new, more, mode, n + 1)
  <2>1. Replays(old, entries, mode, n)
    BY <1>1, ReplayIs
  <2> HIDE DEF more
  <2>2. Replays(new, more, mode, Len(more))
    BY <1>1, ReplayIs
  <2> QED
    BY <1>1, <2>1, <2>2
<1> HIDE DEF n, more, old, new
<1> DEFINE T == {m \in 0 .. n : new[m + 1] = old[m + 1]}
<1>3. 0 \in T
  BY <1>1, <1>2 DEF Replays
<1>4. ASSUME NEW k \in 0 .. n, k # 0, k - 1 \in T
      PROVE  k \in T
  <2>1. k \in 1 .. n /\ k \in 1 .. n + 1 /\ new[k] = old[k]
    BY <1>1, <1>4
  <2>2. new[k + 1] = After(more[k], new[k], mode)
    BY <1>2, <2>1 DEF Replays
  <2>3. old[k + 1] = After(entries[k], old[k], mode)
    BY <1>2, <2>1 DEF Replays
  <2> QED
    BY <1>1, <2>1, <2>2, <2>3
<1>5. 0 .. n \subseteq T
  <2> HIDE DEF T
  <2> QED
    BY <1>1, <1>3, <1>4, UpTo
<1>6. ASSUME NEW j \in 1 .. n + 1
      PROVE  new[j] = old[j]
  <2>1. j - 1 \in 0 .. n /\ (j - 1) + 1 = j
    BY <1>1
  <2> QED
    BY <1>5, <2>1
<1>7. new[n + 2] = After(entry, old[n + 1], mode)
  <2>1. n + 1 \in 1 .. n + 1 /\ (n + 1) + 1 = n + 2
    BY <1>1
  <2>2. new[(n + 1) + 1] = After(more[n + 1], new[n + 1], mode)
    BY <1>2, <2>1 DEF Replays
  <2> QED
    BY <1>1, <1>6, <2>1, <2>2
<1> QED
  BY <1>6, <1>7 DEF n, more, old, new

-----------------------------------------------------------------------------
(* The inductive invariant.                                                *)

Ends == {"ok", "error", "crash"}
Texts == UNION {TextsOf(in) : in \in Inputs}
Runnable == UNION {Range(Compiled(text).kids) :
                      text \in {t \in Texts : Grammatical(Compiled(t))}}
Entry == [stmt : Runnable, batch : Nat, end : Ends]

TypeInv ==
    /\ input \in Inputs
    /\ phase \in {"reading", "parsed", "running", "closed"}
    /\ read \in 0 .. Len(input.lines)
    /\ pending \in Seq(Range(input.lines)) /\ Len(pending) <= read
    /\ parsed \in Seq({Compiled(text) : text \in Texts})
    /\ Len(sent) = Len(parsed) /\ DOMAIN sent = 1 .. Len(parsed)
    /\ log \in Seq(Entry)
    /\ \A k \in DOMAIN log : log[k].batch \in DOMAIN parsed
    /\ shown \subseteq DOMAIN log
    /\ phase \in {"parsed", "running"} => parsed # <<>>

(* The tables are those that the log explains.                             *)
TablesInv ==
    /\ tables = Replay(log, input.mode)[Len(log) + 1]
    /\ \A k \in DOMAIN log :
          Refused(log[k].stmt, Replay(log, input.mode)[k]) => log[k].end = "error"

(* The statements of batch b that have run are the first of its tree, and  *)
(* are at the places a to z of the log.                                    *)
Ran(b, a, z) ==
    /\ Mates(b) = a .. z /\ a <= z + 1
    /\ a <= z => Grammatical(parsed[b])
    /\ \A k \in a .. z :
          /\ k - a + 1 \in DOMAIN parsed[b].kids
          /\ log[k].stmt = parsed[b].kids[k - a + 1]
          /\ GoesOn(log[k].end) \/ k = z

(* While it runs, the others are in batch, and what was done is yet to be  *)
(* shown.                                                                  *)
Runs(b, a, z) ==
    /\ Grammatical(parsed[b]) /\ z = Len(log)
    /\ a <= z => GoesOn(log[z].end)
    /\ batch = SubSeq(parsed[b].kids, z - a + 2, Len(parsed[b].kids))
    /\ z - a + 1 <= Len(parsed[b].kids)
    /\ results = {k \in a .. z : log[k].end = "ok"}
    /\ \A k \in a .. z : k \notin shown

(* When it is over, nothing is left unless one failed, and what is to be   *)
(* shown has been.                                                         *)
IsOver(b, a, z) ==
    /\ Grammatical(parsed[b]) /\ (a <= z => GoesOn(log[z].end)) =>
          z - a + 1 = Len(parsed[b].kids)
    /\ \A k \in a .. z : log[k].end = "ok" =>
          (k \in shown <=>
              IF input.mode = "gui" THEN \A j \in k + 1 .. z : log[j].end # "ok"
              ELSE GoesOn(log[z].end))

BatchInv(b) ==
    \E a \in 1 .. Len(log) + 1, z \in 0 .. Len(log) :
        /\ Ran(b, a, z)
        /\ Over(b) => IsOver(b, a, z)
        /\ ~Over(b) /\ phase = "parsed" => z < a
        /\ ~Over(b) /\ phase = "running" => Runs(b, a, z)

SessionInv == TypeInv /\ TablesInv /\ \A b \in DOMAIN sent : BatchInv(b)

(* Nothing else is shown than what took effect.                            *)
ShownInv == \A k \in shown : log[k].end = "ok"
-----------------------------------------------------------------------------
(* What follows from the types.                                            *)

LEMMA ResultTypes ==
    \A text \in Texts :
        /\ Compiled(text).verdict \in {"ok", "error", "crash"}
        /\ Grammatical(Compiled(text)) => Compiled(text).kids \in Seq(Runnable)
<1> SUFFICES ASSUME NEW text \in Texts
             PROVE  /\ Compiled(text).verdict \in {"ok", "error", "crash"}
                    /\ Grammatical(Compiled(text)) =>
                          Compiled(text).kids \in Seq(Runnable)
  OBVIOUS
<1>1. PICK in \in Inputs : text \in TextsOf(in)
  BY DEF Texts
<1>2. /\ Compiled(text).verdict \in {"ok", "error", "crash"}
      /\ Grammatical(Compiled(text)) =>
            Compiled(text).kids \in Seq(Range(Compiled(text).kids))
  BY <1>1, SessionAssumption
<1>3. ASSUME Grammatical(Compiled(text))
      PROVE  Compiled(text).kids \in Seq(Runnable)
  <2> DEFINE kids == Compiled(text).kids
             R == Range(kids)
  <2>1. kids \in Seq(R)
    BY <1>2, <1>3
  <2>2. R \subseteq Runnable
    BY <1>3 DEF Runnable
  <2> HIDE DEF kids, R
  <2>3. kids \in Seq(Runnable)
    BY <2>1, <2>2
  <2> QED
    BY <2>3 DEF kids
<1> QED
  BY <1>2, <1>3

LEMMA Types ==
    ASSUME TypeInv
    PROVE  /\ Len(log) \in Nat /\ DOMAIN log = 1 .. Len(log)
           /\ Len(sent) \in Nat /\ DOMAIN sent = 1 .. Len(sent)
           /\ Len(parsed) = Len(sent) /\ DOMAIN parsed = DOMAIN sent
           /\ \A k \in DOMAIN log : log[k] \in Entry
           /\ \A b \in DOMAIN sent :
                 /\ parsed[b].verdict \in {"ok", "error", "crash"}
                 /\ Grammatical(parsed[b]) => parsed[b].kids \in Seq(Runnable)
<1>1. /\ parsed \in Seq({Compiled(text) : text \in Texts})
      /\ Len(sent) = Len(parsed) /\ DOMAIN sent = 1 .. Len(parsed)
      /\ log \in Seq(Entry)
  BY DEF TypeInv
<1>2. /\ Len(log) \in Nat /\ DOMAIN log = 1 .. Len(log)
      /\ Len(parsed) \in Nat /\ DOMAIN parsed = 1 .. Len(parsed)
  BY <1>1
<1>3. \A k \in DOMAIN log : log[k] \in Entry
  BY <1>1, <1>2
<1>4. ASSUME NEW b \in DOMAIN sent
      PROVE  \E text \in Texts : parsed[b] = Compiled(text)
  <2>1. parsed[b] \in {Compiled(text) : text \in Texts}
    BY <1>1, <1>2
  <2> QED
    BY <2>1
<1> QED
  BY <1>1, <1>2, <1>3, <1>4, ResultTypes

(* The texts that may be handed over.                                      *)
LEMMA HandedOver ==
    ASSUME NEW in \in Inputs, NEW lines \in Seq(Range(in.lines)),
           Len(lines) <= Len(in.lines)
    PROVE  Joined(lines) \in Texts
<1> DEFINE R == Range(in.lines)
           n == Len(in.lines)
<1>1. in.lines \in Seq(R)
  BY SessionAssumption
<1>2. n \in Nat
  BY <1>1
<1>3. Len(lines) \in 0 .. n /\ lines \in [1 .. Len(lines) -> R]
  <2> HIDE DEF R, n
  <2>1. lines \in Seq(R)
    BY DEF R
  <2>2. Len(lines) <= n
    BY DEF n
  <2> QED
    BY <1>2, <2>1, <2>2
<1>4. lines \in UNION {[1 .. m -> R] : m \in 0 .. n}
  BY <1>3
<1>5. Joined(lines) \in TextsOf(in)
  BY <1>4 DEF TextsOf
<1> QED
  BY <1>5 DEF Texts

LEMMA LinesAre ==
    ASSUME NEW in \in Inputs
    PROVE  /\ in.lines \in Seq(Range(in.lines)) /\ Len(in.lines) \in Nat
           /\ \A i \in 1 .. Len(in.lines) :
                 in.lines[i] \in Range(in.lines) /\ in.lines[i] \in Texts
<1> DEFINE R == Range(in.lines)
           lines == in.lines
<1>1. lines \in Seq(R)
  BY SessionAssumption
<1>2. R \subseteq Texts
  BY DEF TextsOf, Texts
<1> HIDE DEF R, lines
<1>3. Len(lines) \in Nat /\ \A i \in 1 .. Len(lines) : lines[i] \in R
  BY <1>1
<1> QED
  BY <1>1, <1>2, <1>3 DEF R, lines

-----------------------------------------------------------------------------
(* The beginning.                                                          *)

LEMMA InitInv == Init => SessionInv
<1> SUFFICES ASSUME Init
             PROVE  SessionInv
  OBVIOUS
<1>1. /\ input \in Inputs /\ phase = "reading" /\ read = 0 /\ pending = <<>>
      /\ tables = FirstTables(input.mode)
      /\ sent = <<>> /\ parsed = <<>> /\ log = <<>> /\ shown = {}
  BY DEF Init
<1>2. Len(log) = 0 /\ DOMAIN log = {} /\ Len(sent) = 0 /\ DOMAIN sent = {}
  BY <1>1
<1>3. TypeInv
  <2>1. Len(input.lines) \in Nat
    BY <1>1, LinesAre
  <2>2. /\ pending \in Seq(Range(input.lines)) /\ Len(pending) = 0
        /\ parsed \in Seq({Compiled(text) : text \in Texts}) /\ Len(parsed) = 0
        /\ log \in Seq(Entry)
    BY <1>1
  <2> QED
    BY <1>1, <1>2, <2>1, <2>2 DEF TypeInv
<1>4. TablesInv
  <2>1. Replays(Replay(log, input.mode), log, input.mode, 0)
    BY <1>2, ReplayIs
  <2> QED
    BY <1>1, <1>2, <2>1 DEF TablesInv, Replays
<1> QED
  BY <1>2, <1>3, <1>4 DEF SessionInv

-----------------------------------------------------------------------------
(* Reading.                                                                *)

(* A step that hands nothing over.                                         *)
LEMMA IdleInv ==
    ASSUME SessionInv, phase = "reading", phase' \in {"reading", "closed"},
           UNCHANGED <<input, batch, results, tables, sent, parsed, log, shown>>,
           read' \in 0 .. Len(input.lines),
           pending' \in Seq(Range(input.lines)), Len(pending') <= read'
    PROVE  SessionInv'
<1>1. /\ input' = input /\ batch' = batch /\ results' = results
      /\ tables' = tables /\ sent' = sent /\ parsed' = parsed /\ log' = log
      /\ shown' = shown
  OBVIOUS
<1>2. TypeInv'
  BY <1>1 DEF SessionInv, TypeInv
<1>3. TablesInv'
  BY <1>1 DEF SessionInv, TablesInv
<1>4. ASSUME NEW b \in DOMAIN sent
      PROVE  BatchInv(b)'
  <2>1. Over(b) /\ Over(b)'
    BY DEF Over
  <2>2. PICK a \in 1 .. Len(log) + 1, z \in 0 .. Len(log) :
            Ran(b, a, z) /\ IsOver(b, a, z)
    BY <2>1 DEF SessionInv, BatchInv
  <2>3. Ran(b, a, z)'
    BY <1>1, <2>2 DEF Ran, Mates, GoesOn, Grammatical
  <2>4. IsOver(b, a, z)'
    BY <1>1, <2>2 DEF IsOver, GoesOn, Grammatical
  <2> QED
    BY <1>1, <2>1, <2>3, <2>4 DEF BatchInv
<1> QED
  BY <1>1, <1>2, <1>3, <1>4 DEF SessionInv

(* A step that hands a text over.                                          *)
LEMMA ExecuteInv ==
    ASSUME SessionInv, phase = "reading", NEW src \in Texts, Execute(src),
           input' = input, read' \in 0 .. Len(input.lines),
           pending' \in Seq(Range(input.lines)), Len(pending') <= read'
    PROVE  SessionInv'
<1>1. /\ sent' = Append(sent, src) /\ parsed' = Append(parsed, Compiled(src))
      /\ phase' = "parsed" /\ batch' = batch /\ results' = results
      /\ tables' = tables /\ log' = log /\ shown' = shown
  BY DEF Execute
<1> DEFINE R == {Compiled(text) : text \in Texts}
<1>0. PICK n \in Nat : n = Len(sent)
  BY Types DEF SessionInv
<1>2. /\ n = Len(sent) /\ DOMAIN sent = 1 .. n /\ Len(parsed) = n /\ parsed \in Seq(R)
      /\ Len(log) \in Nat /\ DOMAIN log = 1 .. Len(log)
      /\ \A k \in DOMAIN log : log[k].batch \in 1 .. n
  BY <1>0, Types DEF SessionInv, TypeInv
<1>3. Len(sent') = n + 1 /\ DOMAIN sent' = 1 .. n + 1
  BY <1>1, <1>2
<1>4. /\ parsed' \in Seq(R) /\ Len(parsed') = n + 1 /\ parsed' # <<>>
      /\ DOMAIN parsed' = 1 .. n + 1
      /\ \A b \in 1 .. n : parsed'[b] = parsed[b]
  <2>1. Compiled(src) \in R
    OBVIOUS
  <2> HIDE DEF R
  <2> QED
    BY <1>1, <1>2, <2>1
<1>5. TypeInv'
  BY <1>1, <1>2, <1>3, <1>4 DEF SessionInv, TypeInv
<1>6. TablesInv'
  BY <1>1 DEF SessionInv, TablesInv
<1>7. ASSUME NEW b \in 1 .. n
      PROVE  BatchInv(b)'
  <2>1. Over(b) /\ Over(b)'
    BY <1>2, <1>3 DEF Over
  <2>2. PICK a \in 1 .. Len(log) + 1, z \in 0 .. Len(log) :
            Ran(b, a, z) /\ IsOver(b, a, z)
    BY <1>2, <2>1 DEF SessionInv, BatchInv
  <2>3. Ran(b, a, z)'
    BY <1>1, <1>4, <2>2 DEF Ran, Mates, GoesOn, Grammatical
  <2>4. IsOver(b, a, z)'
    BY <1>1, <1>4, <2>2 DEF IsOver, GoesOn, Grammatical
  <2> QED
    BY <1>1, <2>1, <2>3, <2>4 DEF BatchInv
<1>8. BatchInv(n + 1)'
  <2>0. PICK z \in Nat : z = Len(log)
    BY <1>2
  <2> DEFINE a == z + 1
  <2>1. Mates(n + 1)' = {}
    BY <1>1, <1>2 DEF Mates
  <2>2. a .. z = {} /\ a \in 1 .. z + 1 /\ z \in 0 .. z /\ z < a
    BY <2>0
  <2>3. Ran(n + 1, a, z)'
    <3>1. \A k \in a .. z : FALSE
      BY <2>2
    <3> HIDE DEF a
    <3>2. ~(a <= z) /\ a <= z + 1
      BY <2>0, <2>2 DEF a
    <3> QED
      BY <2>1, <2>2, <3>1, <3>2, Zenon DEF Ran
  <2>4. ~Over(n + 1)'
    BY <1>1, <1>2, <1>3 DEF Over
  <2>5. a \in 1 .. Len(log') + 1 /\ z \in 0 .. Len(log')
    BY <1>1, <2>0, <2>2
  <2> QED
    BY <1>1, <2>2, <2>3, <2>4, <2>5 DEF BatchInv
<1>9. \A b \in DOMAIN sent' : b \in 1 .. n \/ b = n + 1
  BY <1>2, <1>3
<1> QED
  BY <1>5, <1>6, <1>7, <1>8, <1>9 DEF SessionInv

LEMMA ReadLineInv == SessionInv /\ ReadLine => SessionInv'
<1> SUFFICES ASSUME SessionInv, ReadLine
             PROVE  SessionInv'
  OBVIOUS
<1> DEFINE line == input.lines[read + 1]
           lines == Append(pending, line)
           R == Range(input.lines)
<1>1. /\ input \in Inputs /\ phase = "reading" /\ read < Len(input.lines)
      /\ read \in 0 .. Len(input.lines) /\ read' = read + 1 /\ input' = input
      /\ pending \in Seq(R) /\ Len(pending) <= read
  BY DEF ReadLine, SessionInv, TypeInv
<1>2. Len(input.lines) \in Nat /\ line \in R
  <2>1. Len(input.lines) \in Nat /\ \A i \in 1 .. Len(input.lines) :
            input.lines[i] \in R
    BY <1>1, LinesAre
  <2> HIDE DEF R
  <2> QED
    BY <1>1, <2>1
<1>3. read' \in 0 .. Len(input.lines) /\ Len(pending) \in Nat
  <2> HIDE DEF R
  <2> QED
    BY <1>1, <1>2
<1>4. lines \in Seq(R) /\ Len(lines) <= read'
  <2> HIDE DEF R, line
  <2> QED
    BY <1>1, <1>2
<1>5. /\ <<>> \in Seq(R) /\ Len(<<>>) <= read'
      /\ Len(pending) <= read'
  <2> HIDE DEF R
  <2> QED
    BY <1>1, <1>2, <1>3
<1>6. Joined(lines) \in Texts
  <2>1. Len(lines) <= Len(input.lines)
    <3>1. Len(lines) \in Nat
      <4> HIDE DEF R
      <4> QED
        BY <1>4
    <3> HIDE DEF lines
    <3> QED
      BY <1>2, <1>3, <1>4, <3>1
  <2> HIDE DEF lines
  <2> QED
    BY <1>1, <1>4, <2>1, HandedOver
<1> HIDE DEF R, lines
<1>7. \/ /\ pending' \in {pending, lines, <<>>}
         /\ phase' \in {"reading", "closed"}
         /\ UNCHANGED <<batch, results, tables, sent, parsed, log, shown>>
      \/ pending' = <<>> /\ Execute(Joined(lines))
  BY <1>1 DEF ReadLine, lines
<1>8. pending' \in Seq(R) /\ Len(pending') <= read'
  <2>1. pending' \in {pending, lines, <<>>}
    BY <1>7
  <2> QED
    BY <1>1, <1>4, <1>5, <2>1
<1>9. CASE /\ phase' \in {"reading", "closed"}
           /\ UNCHANGED <<batch, results, tables, sent, parsed, log, shown>>
  BY <1>1, <1>3, <1>8, <1>9, IdleInv DEF R
<1>10. CASE Execute(Joined(lines))
  BY <1>1, <1>3, <1>6, <1>8, <1>10, ExecuteInv DEF R
<1> QED
  BY <1>7, <1>9, <1>10

LEMMA EndOfInputInv == SessionInv /\ EndOfInput => SessionInv'
<1> SUFFICES ASSUME SessionInv, EndOfInput
             PROVE  SessionInv'
  OBVIOUS
<1>1. /\ phase = "reading" /\ phase' = "closed"
      /\ UNCHANGED <<input, read, pending, batch, results, tables, sent,
                     parsed, log, shown>>
  BY DEF EndOfInput
<1>2. /\ read' \in 0 .. Len(input.lines)
      /\ pending' \in Seq(Range(input.lines)) /\ Len(pending') <= read'
  BY <1>1 DEF SessionInv, TypeInv
<1> QED
  BY <1>1, <1>2, IdleInv

(* A text that is executed as a whole.                                     *)
LEMMA WholeTextInv ==
    ASSUME SessionInv, phase = "reading", read' = Len(input.lines),
           Execute(Joined(input.lines)), UNCHANGED <<input, pending>>
    PROVE  SessionInv'
<1>1. /\ input \in Inputs /\ read \in 0 .. Len(input.lines)
      /\ pending \in Seq(Range(input.lines)) /\ Len(pending) <= read
  BY DEF SessionInv, TypeInv
<1>2. Len(input.lines) \in Nat /\ input.lines \in Seq(Range(input.lines))
  BY <1>1, LinesAre
<1>3. Joined(input.lines) \in Texts
  BY <1>1, <1>2, HandedOver
<1>4. read' \in 0 .. Len(input.lines) /\ Len(pending') <= read'
  <2>1. Len(pending) \in Nat
    <3> DEFINE R == Range(input.lines)
    <3> HIDE DEF R
    <3>1. pending \in Seq(R)
      BY <1>1 DEF R
    <3> QED
      BY <3>1
  <2> QED
    BY <1>1, <1>2, <2>1
<1> QED
  BY <1>1, <1>3, <1>4, ExecuteInv

LEMMA ClickInv == SessionInv /\ Click => SessionInv'
<1> SUFFICES ASSUME SessionInv, Click
             PROVE  SessionInv'
  OBVIOUS
<1>1. /\ input \in Inputs /\ phase = "reading" /\ read < Len(input.lines)
      /\ read \in 0 .. Len(input.lines) /\ read' = read + 1
      /\ input' = input /\ pending' = pending
      /\ pending \in Seq(Range(input.lines)) /\ Len(pending) <= read
  BY DEF Click, SessionInv, TypeInv
<1>2. Len(input.lines) \in Nat /\ input.lines[read + 1] \in Texts
  <2>1. Len(input.lines) \in Nat /\ \A i \in 1 .. Len(input.lines) :
            input.lines[i] \in Texts
    BY <1>1, LinesAre
  <2> QED
    BY <1>1, <2>1
<1>3. read' \in 0 .. Len(input.lines) /\ Len(pending') <= read'
  <2>1. Len(pending) \in Nat
    <3> DEFINE R == Range(input.lines)
    <3> HIDE DEF R
    <3>1. pending \in Seq(R)
      BY <1>1 DEF R
    <3> QED
      BY <3>1
  <2> QED
    BY <1>1, <1>2, <2>1
<1>4. CASE UNCHANGED <<phase, batch, results, tables, sent, parsed, log, shown>>
  BY <1>1, <1>3, <1>4, IdleInv
<1>5. CASE Execute(input.lines[read + 1])
  BY <1>1, <1>2, <1>3, <1>5, ExecuteInv
<1> QED
  BY <1>4, <1>5 DEF Click

-----------------------------------------------------------------------------
(* Running.                                                                *)

(* A batch that is over stays as it was when only another batch's          *)
(* statements are logged and shown.                                        *)
LEMMA OverStays ==
    ASSUME NEW b, NEW a \in Nat, NEW z \in Nat, Ran(b, a, z), IsOver(b, a, z),
           input' = input, parsed' = parsed, Mates(b)' = Mates(b),
           \A k \in a .. z : log'[k] = log[k] /\ (k \in shown' <=> k \in shown)
    PROVE  Ran(b, a, z)' /\ IsOver(b, a, z)'
<1>1. Ran(b, a, z)'
  <2>1. Mates(b)' = a .. z /\ a <= z + 1 /\ (a <= z => Grammatical(parsed[b])')
    BY DEF Ran, Grammatical
  <2>2. ASSUME NEW k \in a .. z
        PROVE  /\ (k - a + 1 \in DOMAIN parsed[b].kids)'
               /\ (log[k].stmt = parsed[b].kids[k - a + 1])'
               /\ GoesOn(log[k].end)' \/ k = z
    <3>1. log'[k] = log[k]
      OBVIOUS
    <3> QED
      BY <3>1 DEF Ran, GoesOn
  <2> QED
    BY <2>1, <2>2 DEF Ran
<1>2. a <= z => log'[z] = log[z]
  OBVIOUS
<1>3. (Grammatical(parsed[b]) /\ (a <= z => GoesOn(log[z].end)) =>
          z - a + 1 = Len(parsed[b].kids))'
  BY <1>2 DEF IsOver, GoesOn, Grammatical
<1>4. ASSUME NEW k \in a .. z, (log[k].end = "ok")'
      PROVE  (k \in shown <=>
                IF input.mode = "gui" THEN \A j \in k + 1 .. z : log[j].end # "ok"
                ELSE GoesOn(log[z].end))'
  <2>1. \A j \in k + 1 .. z : log'[j] = log[j]
    OBVIOUS
  <2>2. log'[k] = log[k] /\ (k \in shown' <=> k \in shown) /\ a <= z
    OBVIOUS
  <2>3. k \in shown <=>
                IF input.mode = "gui" THEN \A j \in k + 1 .. z : log[j].end # "ok"
                ELSE GoesOn(log[z].end)
    BY <1>4, <2>2 DEF IsOver
  <2> QED
    BY <1>2, <2>1, <2>2, <2>3 DEF GoesOn
<1> QED
  BY <1>1, <1>3, <1>4 DEF IsOver

LEMMA StartBatchInv == SessionInv /\ StartBatch => SessionInv'
<1> SUFFICES ASSUME SessionInv, StartBatch
             PROVE  SessionInv'
  OBVIOUS
<1>1. /\ phase = "parsed" /\ input' = input /\ read' = read
      /\ pending' = pending /\ tables' = tables /\ sent' = sent
      /\ parsed' = parsed /\ log' = log /\ shown' = shown /\ results' = {}
  BY DEF StartBatch
<1>2. TypeInv /\ parsed # <<>>
  BY <1>1 DEF SessionInv, TypeInv
<1>3. PICK n \in Nat : n = Len(sent)
  BY <1>2, Types
<1>4. n \in DOMAIN sent /\ n = Len(parsed) /\ DOMAIN sent = 1 .. n
  <2>1. parsed \in Seq({Compiled(text) : text \in Texts})
    BY <1>2 DEF TypeInv
  <2>2. Len(parsed) # 0
    BY <1>2, <2>1
  <2> QED
    BY <1>2, <1>3, <2>2, Types
<1>5. CASE Grammatical(parsed[n])
  <2>1. phase' = "running" /\ batch' = parsed[n].kids
    BY <1>4, <1>5 DEF StartBatch, Grammatical
  <2>2. TypeInv'
    BY <1>1, <1>2, <2>1 DEF TypeInv
  <2>3. PICK z \in Nat : z = Len(log)
    BY <1>2, Types
  <2> DEFINE a == z + 1
             kids == parsed[n].kids
  <2>4. Mates(n)' = a .. z
    <3>1. ~Over(n)
      BY <1>1, <1>3 DEF Over
    <3>2. PICK c \in 1 .. Len(log) + 1, y \in 0 .. Len(log) :
              Ran(n, c, y) /\ y < c
      BY <1>1, <1>4, <3>1 DEF SessionInv, BatchInv
    <3>3. Mates(n) = {}
      BY <2>3, <3>2 DEF Ran
    <3> QED
      BY <1>1, <3>3 DEF Mates
  <2>5. \A k \in a .. z : FALSE
    OBVIOUS
  <2>6. ~(a <= z) /\ a <= z + 1
    OBVIOUS
  <2>7. Ran(n, a, z)'
    <3> HIDE DEF a
    <3> QED
      BY <2>4, <2>5, <2>6, Zenon DEF Ran
  <2>8. Runs(n, a, z)'
    <3>1. kids \in Seq(Runnable)
      BY <1>2, <1>4, <1>5, Types
    <3>2. Len(kids) \in Nat /\ kids = SubSeq(kids, z - a + 2, Len(kids))
      <4> HIDE DEF kids
      <4>1. z - a + 2 = 1
        OBVIOUS
      <4> QED
        BY <3>1, <4>1
    <3>3. z - a + 1 <= Len(kids)
      BY <3>2
    <3>4. results' = {k \in a .. z : log'[k].end = "ok"}
      BY <1>1, <2>5
    <3> HIDE DEF a
    <3> QED
      BY <1>1, <1>5, <2>1, <2>3, <2>5, <2>6, <3>2, <3>3, <3>4
      DEF Runs, Grammatical
  <2>9. BatchInv(n)'
    <3>1. a \in 1 .. Len(log') + 1 /\ z \in 0 .. Len(log')
      BY <1>1, <2>3
    <3>2. (phase = "parsed")' => z < a
      BY <2>1
    <3>3. ~Over(n)'
      BY <1>1, <1>3, <2>1 DEF Over
    <3> HIDE DEF a
    <3> QED
      BY <2>7, <2>8, <3>1, <3>2, <3>3 DEF BatchInv
  <2>10. ASSUME NEW b \in DOMAIN sent, b # n
         PROVE  BatchInv(b)'
    <3>1. Over(b) /\ Over(b)'
      BY <1>1, <1>3, <1>4, <2>10 DEF Over
    <3>2. PICK c \in 1 .. Len(log) + 1, y \in 0 .. Len(log) :
              Ran(b, c, y) /\ IsOver(b, c, y)
      BY <3>1 DEF SessionInv, BatchInv
    <3>3. c \in Nat /\ y \in Nat
      BY <2>3
    <3>4. Ran(b, c, y)' /\ IsOver(b, c, y)'
      <4>1. Mates(b)' = Mates(b)
        BY <1>1 DEF Mates
      <4> QED
        BY <1>1, <3>2, <3>3, <4>1, OverStays
    <3> QED
      BY <1>1, <3>1, <3>4 DEF BatchInv
  <2>11. TablesInv'
    BY <1>1 DEF SessionInv, TablesInv
  <2> QED
    BY <1>1, <2>2, <2>9, <2>10, <2>11 DEF SessionInv
<1>6. CASE ~Grammatical(parsed[n])
  <2>1. phase' \in {"reading", "closed"}
    <3>1. parsed[n].verdict \in {"error", "crash"}
      BY <1>2, <1>4, <1>6, Types DEF Grammatical
    <3> QED
      BY <1>4, <3>1 DEF StartBatch, AfterError, AfterCrash
  <2>2. TypeInv'
    BY <1>1, <1>2, <2>1 DEF TypeInv
  <2>3. Len(log) \in Nat
    BY <1>2, Types
  <2>4. ASSUME NEW b \in DOMAIN sent
        PROVE  BatchInv(b)'
    <3>1. Over(b)'
      BY <2>1 DEF Over
    <3>2. PICK c \in 1 .. Len(log) + 1, y \in 0 .. Len(log) :
              Ran(b, c, y) /\ IsOver(b, c, y)
      <4>1. CASE b = n
        <5>1. ~Over(n)
          BY <1>1, <1>3 DEF Over
        <5>2. PICK c \in 1 .. Len(log) + 1, y \in 0 .. Len(log) :
                  Ran(n, c, y) /\ y < c
          BY <1>1, <1>4, <5>1 DEF SessionInv, BatchInv
        <5>3. \A k \in c .. y : FALSE
          BY <2>3, <5>2
        <5>4. IsOver(n, c, y)
          BY <1>6, <5>3, Zenon DEF IsOver
        <5> QED
          BY <4>1, <5>2, <5>4
      <4>2. CASE b # n
        <5>1. Over(b)
          BY <1>3, <1>4, <4>2 DEF Over
        <5> QED
          BY <5>1 DEF SessionInv, BatchInv
      <4> QED
        BY <4>1, <4>2
    <3>3. c \in Nat /\ y \in Nat
      BY <2>3
    <3>4. Ran(b, c, y)' /\ IsOver(b, c, y)'
      <4>1. Mates(b)' = Mates(b)
        BY <1>1 DEF Mates
      <4> QED
        BY <1>1, <3>2, <3>3, <4>1, OverStays
    <3> QED
      BY <1>1, <3>1, <3>4 DEF BatchInv
  <2>5. TablesInv'
    BY <1>1 DEF SessionInv, TablesInv
  <2> QED
    BY <1>1, <2>2, <2>4, <2>5 DEF SessionInv
<1> QED
  BY <1>5, <1>6

(* What of a batch's results is displayed: all, or in the client the last. *)
LEMMA DisplayIs ==
    ASSUME NEW a \in Nat, NEW z \in Nat, NEW done, done \subseteq a .. z
    PROVE  /\ Display(done) \subseteq done
           /\ \A k \in done :
                 k \in Display(done) <=>
                    (input.mode = "gui" => \A j \in k + 1 .. z : j \notin done)
<1>1. CASE input.mode # "gui" \/ done = {}
  BY <1>1 DEF Display
<1>2. CASE input.mode = "gui" /\ done # {}
  <2>1. done \subseteq 0 .. z
    OBVIOUS
  <2>2. Max(done) \in done /\ \A x \in done : Max(done) >= x
    BY <1>2, <2>1, MaxIs
  <2>3. Display(done) = {Max(done)}
    BY <1>2 DEF Display
  <2>4. PICK m : m = Max(done)
    OBVIOUS
  <2>5. m \in done /\ \A x \in done : m >= x
    BY <2>2, <2>4
  <2>6. ASSUME NEW k \in done
        PROVE  k = m <=> \A j \in k + 1 .. z : j \notin done
    BY <2>5
  <2> QED
    BY <1>2, <2>3, <2>4, <2>5, <2>6
<1> QED
  BY <1>1, <1>2

LEMMA OutcomesAreEnds ==
    ASSUME NEW stmt
    PROVE  /\ Outcomes(stmt) \subseteq Ends
           /\ Refused(stmt, tables) => Outcomes(stmt) = {"error"}
  BY DEF Outcomes, Ends

(* The state in which a batch runs: the first statements of its tree have  *)
(* run, at the places a to z of the log.                                   *)
LEMMA Running ==
    ASSUME SessionInv, phase = "running"
    PROVE  \E n, a, z \in Nat :
              /\ n = Len(sent) /\ z = Len(log) /\ a \in 1 .. z + 1
              /\ n \in DOMAIN sent
              /\ Ran(n, a, z) /\ Runs(n, a, z)
              /\ parsed[n].kids \in Seq(Runnable)
              /\ z - a + 1 \in 0 .. Len(parsed[n].kids)
<1>1. TypeInv /\ parsed # <<>>
  BY DEF SessionInv, TypeInv
<1>2. PICK n \in Nat : n = Len(sent)
  BY <1>1, Types
<1>3. n \in DOMAIN sent
  <2>1. parsed \in Seq({Compiled(text) : text \in Texts})
    BY <1>1 DEF TypeInv
  <2>2. Len(parsed) # 0
    BY <1>1, <2>1
  <2> QED
    BY <1>1, <1>2, <2>2, Types
<1>4. ~Over(n)
  BY <1>2 DEF Over
<1>5. PICK a \in 1 .. Len(log) + 1, z \in 0 .. Len(log) :
          Ran(n, a, z) /\ Runs(n, a, z)
  BY <1>3, <1>4 DEF SessionInv, BatchInv
<1>6. Len(log) \in Nat
  BY <1>1, Types
<1>7. parsed[n].kids \in Seq(Runnable)
  BY <1>1, <1>3, <1>5, Types DEF Runs
<1>8. z - a + 1 \in 0 .. Len(parsed[n].kids)
  <2>1. Len(parsed[n].kids) \in Nat
    BY <1>7
  <2>2. z - a + 1 <= Len(parsed[n].kids) /\ a <= z + 1
    BY <1>5 DEF Runs, Ran
  <2> QED
    BY <1>5, <1>6, <2>1, <2>2
<1>9. z = Len(log) /\ a \in Nat /\ z \in Nat /\ a \in 1 .. z + 1
  BY <1>5, <1>6 DEF Runs
<1> QED
  BY <1>2, <1>3, <1>5, <1>7, <1>8, <1>9

(* The other batches while one runs.                                       *)
LEMMA OthersStay ==
    ASSUME SessionInv, phase = "running", input' = input, parsed' = parsed,
           sent' = sent, NEW n, n = Len(sent), NEW b \in DOMAIN sent, b # n,
           Len(log') \in Nat, Len(log') >= Len(log), Mates(b)' = Mates(b),
           \A k \in Mates(b) : log'[k] = log[k] /\ (k \in shown' <=> k \in shown)
    PROVE  BatchInv(b)'
<1>1. TypeInv
  BY DEF SessionInv
<1>2. /\ Len(log) \in Nat /\ b \in Nat /\ b < n /\ n \in Nat
      /\ DOMAIN sent = 1 .. n
  BY <1>1, Types
<1>3. Over(b) /\ Over(b)'
  BY <1>2 DEF Over
<1>4. PICK a \in 1 .. Len(log) + 1, z \in 0 .. Len(log) :
          Ran(b, a, z) /\ IsOver(b, a, z)
  BY <1>3 DEF SessionInv, BatchInv
<1>5. Mates(b) = a .. z
  BY <1>4 DEF Ran
<1>6. /\ a \in Nat /\ z \in Nat
      /\ a \in 1 .. Len(log') + 1 /\ z \in 0 .. Len(log')
  BY <1>2
<1>7. Ran(b, a, z)' /\ IsOver(b, a, z)'
  BY <1>4, <1>5, <1>6, OverStays
<1> QED
  BY <1>3, <1>6, <1>7 DEF BatchInv

LEMMA RunStatementInv == SessionInv /\ RunStatement => SessionInv'
<1> SUFFICES ASSUME SessionInv, RunStatement
             PROVE  SessionInv'
  OBVIOUS
<1>1. /\ phase = "running" /\ batch # <<>> /\ input' = input /\ read' = read
      /\ pending' = pending /\ sent' = sent /\ parsed' = parsed
  BY DEF RunStatement
<1>2. TypeInv /\ TablesInv
  BY DEF SessionInv
<1>3. PICK n, a, z \in Nat :
         /\ n = Len(sent) /\ z = Len(log) /\ a \in 1 .. z + 1
         /\ n \in DOMAIN sent
         /\ Ran(n, a, z) /\ Runs(n, a, z)
         /\ parsed[n].kids \in Seq(Runnable)
         /\ z - a + 1 \in 0 .. Len(parsed[n].kids)
  BY <1>1, Running
<1> DEFINE kids == parsed[n].kids
           m == z - a + 1
<1>4. PICK stmt : stmt = Head(batch)
  OBVIOUS
<1>5. /\ m + 1 \in DOMAIN kids /\ stmt = kids[m + 1] /\ stmt \in Runnable
      /\ Tail(batch) = SubSeq(kids, m + 2, Len(kids))
      /\ m + 1 <= Len(kids)
  <2>1. batch = SubSeq(kids, m + 1, Len(kids))
    <3>1. z - a + 2 = m + 1
      BY <1>3
    <3> HIDE DEF m
    <3> QED
      BY <1>3, <3>1 DEF Runs
  <2>2. /\ m + 1 \in DOMAIN kids /\ Head(batch) = kids[m + 1]
        /\ Tail(batch) = SubSeq(kids, m + 2, Len(kids))
    <3> HIDE DEF m, kids
    <3>1. kids \in Seq(Runnable) /\ m \in 0 .. Len(kids)
      BY <1>3 DEF kids, m
    <3> QED
      BY <1>1, <2>1, <3>1, Rest
  <2> HIDE DEF m, kids
  <2>3. kids \in Seq(Runnable)
    BY <1>3 DEF kids
  <2>4. m + 1 <= Len(kids) /\ kids[m + 1] \in Runnable
    BY <2>2, <2>3
  <2> QED
    BY <1>4, <2>2, <2>4, Zenon
<1>6. PICK end \in Outcomes(stmt) :
         /\ log' = Append(log, [stmt |-> stmt, batch |-> n, end |-> end])
         /\ tables' = IF end = "ok" THEN TablesAfter(stmt, tables, input.mode)
                      ELSE tables
         /\ results' = IF end = "ok" THEN results \cup {z + 1}
                       ELSE IF GoesOn(end) THEN results ELSE {}
         /\ batch' = IF GoesOn(end) THEN Tail(batch) ELSE <<>>
         /\ phase' = IF GoesOn(end) THEN "running"
                     ELSE IF end = "error" THEN AfterError(input.mode)
                     ELSE AfterCrash(input.mode)
         /\ shown' = IF ~GoesOn(end) /\ input.mode = "gui"
                       THEN shown \cup Display(results) ELSE shown
  BY <1>3, <1>4 DEF RunStatement
<1> DEFINE entry == [stmt |-> stmt, batch |-> n, end |-> end]
<1>7. /\ end \in Ends /\ (Refused(stmt, tables) => end = "error")
      /\ entry \in Entry
  BY <1>5, <1>6, OutcomesAreEnds DEF Entry
<1>8. /\ log \in Seq(Entry) /\ log' \in Seq(Entry) /\ Len(log') = z + 1
      /\ DOMAIN log = 1 .. z /\ DOMAIN log' = 1 .. z + 1
      /\ log'[z + 1] = entry /\ \A k \in 1 .. z : log'[k] = log[k]
  <2>1. log \in Seq(Entry)
    BY <1>2 DEF TypeInv
  <2> HIDE DEF entry
  <2>2. log' = Append(log, entry)
    BY <1>6 DEF entry
  <2> QED
    BY <1>3, <1>7, <2>1, <2>2
<1>9. /\ Mates(n) = a .. z /\ Mates(n)' = a .. z + 1
      /\ \A b : b # n => Mates(b)' = Mates(b)
  <2>1. \A b : Mates(b)' = Mates(b) \cup (IF b = n THEN {z + 1} ELSE {})
    BY <1>3, <1>8 DEF Mates
  <2>2. Mates(n) = a .. z
    BY <1>3 DEF Ran
  <2>3. (a .. z) \cup {z + 1} = a .. z + 1
    BY <1>3
  <2>4. Mates(n)' = a .. z + 1
    BY <2>1, <2>2, <2>3, Zenon
  <2>5. ASSUME NEW b, b # n
        PROVE  Mates(b)' = Mates(b)
    BY <2>1, <2>5
  <2> QED
    BY <2>2, <2>4, <2>5
<1>10. Display(results) \subseteq a .. z
  <2>1. results \subseteq a .. z
    BY <1>3 DEF Runs
  <2> QED
    BY <1>3, <2>1, DisplayIs
<1>11. shown \subseteq 1 .. z /\ z + 1 \notin shown'
  <2>1. shown \subseteq 1 .. z
    BY <1>2, <1>8 DEF TypeInv
  <2> QED
    BY <1>6, <1>10, <2>1
<1>12. phase' \in {"running", "reading", "closed"} /\ (phase' = "running" <=> GoesOn(end))
  BY <1>6 DEF AfterError, AfterCrash
<1>13. TypeInv'
  <2>1. shown' \subseteq DOMAIN log'
    <3>1. shown' \subseteq shown \cup Display(results)
      BY <1>6
    <3>2. a .. z \subseteq 1 .. z + 1 /\ 1 .. z \subseteq 1 .. z + 1
      BY <1>3
    <3>3. DOMAIN log' = 1 .. z + 1
      BY <1>8
    <3> QED
      BY <1>10, <1>11, <3>1, <3>2, <3>3
  <2>2. \A k \in DOMAIN log' : log'[k].batch \in DOMAIN parsed
    <3>1. n \in DOMAIN parsed
      BY <1>2, <1>3, Types
    <3>2. \A k \in 1 .. z : log[k].batch \in DOMAIN parsed
      BY <1>2, <1>8 DEF TypeInv
    <3> QED
      BY <1>3, <1>8, <3>1, <3>2
  <2> QED
    BY <1>1, <1>2, <1>8, <1>12, <2>1, <2>2 DEF TypeInv
<1>14. TablesInv'
  <2> DEFINE old == Replay(log, input.mode)
             new == Replay(log', input.mode)
  <2>1. /\ \A j \in 1 .. z + 1 : new[j] = old[j]
        /\ new[z + 2] = After(entry, old[z + 1], input.mode)
    BY <1>3, <1>6, <1>7, <1>8, ReplayAppended
  <2>2. tables = old[z + 1]
    BY <1>2, <1>3 DEF TablesInv
  <2>3. tables' = new[Len(log') + 1]
    <3>1. Len(log') + 1 = z + 2
      BY <1>3, <1>8
    <3>2. tables' = After(entry, tables, input.mode)
      BY <1>6 DEF After
    <3> HIDE DEF old, new, entry
    <3> QED
      BY <2>1, <2>2, <3>1, <3>2
  <2>4. ASSUME NEW k \in DOMAIN log', Refused(log'[k].stmt, new[k])
        PROVE  log'[k].end = "error"
    <3>1. CASE k = z + 1
      <4>1. new[k] = tables
        <5> HIDE DEF old, new
        <5> QED
          BY <1>3, <2>1, <2>2, <3>1
      <4> QED
        BY <1>7, <1>8, <2>4, <3>1, <4>1
    <3>2. CASE k # z + 1
      <4>1. k \in 1 .. z /\ k \in 1 .. z + 1
        BY <1>3, <1>8, <3>2
      <4>2. new[k] = old[k] /\ log'[k] = log[k]
        <5> HIDE DEF old, new
        <5> QED
          BY <1>8, <2>1, <4>1
      <4> QED
        BY <1>2, <1>8, <2>4, <4>1, <4>2 DEF TablesInv
    <3> QED
      BY <3>1, <3>2
  <2> QED
    BY <1>1, <2>3, <2>4 DEF TablesInv
<1>15. Ran(n, a, z + 1)'
  <2>1. a <= (z + 1) + 1 /\ Grammatical(parsed[n])'
    BY <1>1, <1>3 DEF Runs, Grammatical
  <2>2. ASSUME NEW k \in a .. z + 1
        PROVE  /\ (k - a + 1 \in DOMAIN parsed[n].kids)'
               /\ (log[k].stmt = parsed[n].kids[k - a + 1])'
               /\ GoesOn(log[k].end)' \/ k = z + 1
    <3>1. CASE k = z + 1
      <4>1. k - a + 1 = m + 1
        BY <1>3, <3>1
      <4> HIDE DEF m
      <4> QED
        BY <1>1, <1>5, <1>8, <3>1, <4>1
    <3>2. CASE k # z + 1
      <4>1. k \in a .. z /\ k \in 1 .. z /\ log'[k] = log[k]
        BY <1>3, <1>8, <3>2
      <4>2. k = z => GoesOn(log[z].end)
        BY <1>3, <4>1 DEF Runs
      <4>3. GoesOn(log[k].end)
        BY <1>3, <4>1, <4>2 DEF Ran
      <4>4. GoesOn(log[k].end)'
        BY <1>1, <4>1, <4>3 DEF GoesOn
      <4> QED
        BY <1>1, <1>3, <4>1, <4>4 DEF Ran
    <3> QED
      BY <3>1, <3>2
  <2> QED
    BY <1>9, <2>1, <2>2 DEF Ran
<1>16. CASE GoesOn(end)
  <2>1. /\ phase' = "running" /\ batch' = Tail(batch) /\ shown' = shown
        /\ results' = IF end = "ok" THEN results \cup {z + 1} ELSE results
    BY <1>6, <1>16
  <2>2. Runs(n, a, z + 1)'
    <3>1. Grammatical(parsed[n])' /\ z + 1 = Len(log') /\ GoesOn(log[z + 1].end)'
      BY <1>1, <1>3, <1>8, <1>16 DEF Runs, Grammatical, GoesOn
    <3>2. /\ batch' = SubSeq(kids, (z + 1) - a + 2, Len(kids))
          /\ (z + 1) - a + 1 <= Len(kids)
      <4>1. (z + 1) - a + 2 = m + 2 /\ (z + 1) - a + 1 = m + 1
        BY <1>3
      <4> HIDE DEF m, kids
      <4> QED
        BY <1>5, <2>1, <4>1
    <3>3. results' = {k \in a .. z + 1 : log'[k].end = "ok"}
      <4>1. results = {k \in a .. z : log[k].end = "ok"}
        BY <1>3 DEF Runs
      <4>2. \A k \in a .. z : log'[k] = log[k]
        BY <1>3, <1>8
      <4>3. log'[z + 1].end = end
        BY <1>8
      <4>4. a .. z + 1 = (a .. z) \cup {z + 1} /\ z + 1 \notin a .. z
        BY <1>3
      <4> HIDE DEF entry
      <4> QED
        BY <2>1, <4>1, <4>2, <4>3, <4>4
    <3>4. \A k \in a .. z + 1 : k \notin shown'
      <4>1. \A k \in a .. z : k \notin shown
        BY <1>3 DEF Runs
      <4> QED
        BY <1>3, <1>11, <2>1, <4>1
    <3> QED
      BY <1>1, <3>1, <3>2, <3>3, <3>4 DEF Runs
  <2>3. a \in 1 .. Len(log') + 1 /\ z + 1 \in 0 .. Len(log')
    BY <1>3, <1>8
  <2>4. ~Over(n)' /\ ~(phase = "parsed")'
    BY <1>1, <1>3, <2>1 DEF Over
  <2> QED
    <3>1. BatchInv(n)'
      BY <1>15, <2>2, <2>3, <2>4 DEF BatchInv
    <3>2. ASSUME NEW b \in DOMAIN sent, b # n
          PROVE  BatchInv(b)'
      <4>1. Mates(b)' = Mates(b)
        BY <1>9, <3>2
      <4>2. \A k \in Mates(b) : log'[k] = log[k] /\ (k \in shown' <=> k \in shown)
        BY <1>8, <2>1 DEF Mates
      <4> QED
        BY <1>1, <1>3, <1>8, <3>2, <4>1, <4>2, OthersStay
    <3> QED
      BY <1>1, <1>13, <1>14, <3>1, <3>2 DEF SessionInv
<1>17. CASE ~GoesOn(end)
  <2>1. phase' \in {"reading", "closed"}
    BY <1>12, <1>17
  <2>2. end # "ok"
    BY <1>17 DEF GoesOn
  <2>3. results = {k \in a .. z : log[k].end = "ok"} /\ \A k \in a .. z : k \notin shown
    BY <1>3 DEF Runs
  <2>4. IsOver(n, a, z + 1)'
    <3>1. ~GoesOn(log[z + 1].end)' /\ a <= z + 1
      BY <1>1, <1>3, <1>8, <1>17 DEF GoesOn
    <3>2. ASSUME NEW k \in a .. z + 1, (log[k].end = "ok")'
          PROVE  (k \in shown <=>
                    IF input.mode = "gui"
                      THEN \A j \in k + 1 .. z + 1 : log[j].end # "ok"
                    ELSE GoesOn(log[z + 1].end))'
      <4>1. k # z + 1
        BY <1>8, <2>2, <3>2
      <4>2. k \in a .. z /\ k \in 1 .. z /\ log'[k] = log[k]
        BY <1>3, <1>8, <4>1
      <4>3. k \in results /\ k \notin shown
        BY <2>3, <3>2, <4>2
      <4>4. CASE input.mode # "gui"
        BY <1>1, <1>6, <3>1, <4>3, <4>4
      <4>5. CASE input.mode = "gui"
        <5>1. k \in shown' <=> \A j \in k + 1 .. z : j \notin results
          <6>1. results \subseteq a .. z
            BY <2>3
          <6>2. k \in Display(results) <=> \A j \in k + 1 .. z : j \notin results
            BY <1>3, <4>3, <4>5, <6>1, DisplayIs
          <6>3. shown' = shown \cup Display(results)
            BY <1>6, <1>17, <4>5
          <6> QED
            BY <4>3, <6>2, <6>3
        <5>2. \A j \in k + 1 .. z : j \in results <=> log'[j].end = "ok"
          <6>1. \A j \in k + 1 .. z : j \in a .. z /\ j \in 1 .. z
            BY <1>3, <4>2
          <6> QED
            BY <1>8, <2>3, <6>1
        <5>3. log'[z + 1].end # "ok"
          BY <1>8, <2>2
        <5>4. \A j \in k + 1 .. z + 1 : j \in k + 1 .. z \/ j = z + 1
          BY <1>3, <4>2
        <5>5. \A j \in k + 1 .. z : j \in k + 1 .. z + 1
          BY <1>3, <4>2
        <5> QED
          BY <1>1, <4>5, <5>1, <5>2, <5>3, <5>4, <5>5, Zenon
      <4> QED
        BY <4>4, <4>5
    <3> QED
      BY <3>1, <3>2 DEF IsOver
  <2>5. BatchInv(n)'
    <3>1. a \in 1 .. Len(log') + 1 /\ z + 1 \in 0 .. Len(log')
      BY <1>3, <1>8
    <3>2. Over(n)'
      BY <2>1 DEF Over
    <3> QED
      BY <1>15, <2>4, <3>1, <3>2 DEF BatchInv
  <2>6. ASSUME NEW b \in DOMAIN sent, b # n
        PROVE  BatchInv(b)'
    <3>1. Mates(b)' = Mates(b)
      BY <1>9, <2>6
    <3>2. \A k \in Mates(b) : log'[k] = log[k] /\ (k \in shown' <=> k \in shown)
      <4>1. Mates(b) \cap Mates(n) = {} /\ Mates(b) \subseteq 1 .. z
        BY <1>8, <2>6 DEF Mates
      <4> QED
        BY <1>6, <1>8, <1>9, <1>10, <4>1
    <3> QED
      BY <1>1, <1>3, <1>8, <2>6, <3>1, <3>2, OthersStay
  <2> QED
    BY <1>1, <1>13, <1>14, <2>5, <2>6 DEF SessionInv
<1> QED
  BY <1>16, <1>17

LEMMA ShowResultsInv == SessionInv /\ ShowResults => SessionInv'
<1> SUFFICES ASSUME SessionInv, ShowResults
             PROVE  SessionInv'
  OBVIOUS
<1>1. /\ phase = "running" /\ batch = <<>> /\ input' = input /\ read' = read
      /\ pending' = pending /\ sent' = sent /\ parsed' = parsed
      /\ tables' = tables /\ log' = log
      /\ shown' = shown \cup Display(results)
      /\ phase' \in {"reading", "closed"}
  BY DEF ShowResults
<1>2. PICK n, a, z \in Nat :
         /\ n = Len(sent) /\ z = Len(log) /\ a \in 1 .. z + 1
         /\ n \in DOMAIN sent
         /\ Ran(n, a, z) /\ Runs(n, a, z)
         /\ parsed[n].kids \in Seq(Runnable)
         /\ z - a + 1 \in 0 .. Len(parsed[n].kids)
  BY <1>1, Running
<1>3. TypeInv /\ DOMAIN log = 1 .. z
  BY <1>2, Types DEF SessionInv
<1>4. results \subseteq a .. z /\ Display(results) \subseteq a .. z
  <2>1. results \subseteq a .. z
    BY <1>2 DEF Runs
  <2> QED
    BY <1>2, <2>1, DisplayIs
<1>5. Mates(n) = a .. z /\ \A b : Mates(b)' = Mates(b)
  BY <1>1, <1>2 DEF Ran, Mates
<1>6. TypeInv'
  <2>1. a .. z \subseteq DOMAIN log
    BY <1>2, <1>3
  <2> QED
    BY <1>1, <1>3, <1>4, <2>1 DEF TypeInv
<1>7. TablesInv'
  BY <1>1 DEF SessionInv, TablesInv
<1>8. z - a + 1 = Len(parsed[n].kids)
  <2> DEFINE kids == parsed[n].kids
             m == z - a + 1
  <2>1. batch = SubSeq(kids, m + 1, Len(kids))
    <3>1. z - a + 2 = m + 1
      BY <1>2
    <3> HIDE DEF m
    <3> QED
      BY <1>2, <3>1 DEF Runs
  <2>2. kids \in Seq(Runnable) /\ m \in 0 .. Len(kids)
    BY <1>2
  <2> HIDE DEF m, kids
  <2>3. m = Len(kids)
    BY <1>1, <2>1, <2>2, Rest
  <2> QED
    BY <2>3 DEF m, kids
<1>9. Ran(n, a, z)'
  BY <1>1, <1>2 DEF Ran, Mates, GoesOn, Grammatical
<1>10. IsOver(n, a, z)'
  <2>1. ASSUME NEW k \in a .. z, log[k].end = "ok"
        PROVE  k \in shown' <=>
                  IF input.mode = "gui" THEN \A j \in k + 1 .. z : log[j].end # "ok"
                  ELSE GoesOn(log[z].end)
    <3>1. k \in results /\ k \notin shown
      BY <1>2, <2>1 DEF Runs
    <3>2. k \in shown' <=> (input.mode = "gui" =>
                                \A j \in k + 1 .. z : j \notin results)
      BY <1>1, <1>2, <1>4, <3>1, DisplayIs
    <3>3. \A j \in k + 1 .. z : j \in results <=> log[j].end = "ok"
      BY <1>2, <2>1 DEF Runs
    <3>4. GoesOn(log[z].end)
      BY <1>2, <2>1 DEF Runs
    <3> QED
      BY <3>2, <3>3, <3>4, Zenon
  <2> QED
    BY <1>1, <1>8, <2>1 DEF IsOver, GoesOn
<1>11. BatchInv(n)'
  <2>1. a \in 1 .. Len(log') + 1 /\ z \in 0 .. Len(log')
    BY <1>1, <1>2
  <2>2. Over(n)'
    BY <1>1 DEF Over
  <2> QED
    BY <1>9, <1>10, <2>1, <2>2 DEF BatchInv
<1>12. ASSUME NEW b \in DOMAIN sent, b # n
       PROVE  BatchInv(b)'
  <2>1. Mates(b) \cap Mates(n) = {}
    BY <1>12 DEF Mates
  <2>2. \A k \in Mates(b) : log'[k] = log[k] /\ (k \in shown' <=> k \in shown)
    BY <1>1, <1>4, <1>5, <2>1
  <2> QED
    BY <1>1, <1>2, <1>5, <1>12, <2>2, OthersStay
<1> QED
  BY <1>1, <1>6, <1>7, <1>11, <1>12 DEF SessionInv

-----------------------------------------------------------------------------
(* The theorems.                                                           *)

LEMMA StepInv == SessionInv /\ [Next]_vars => SessionInv'
<1> SUFFICES ASSUME SessionInv, [Next]_vars
             PROVE  SessionInv'
  OBVIOUS
<1>1. CASE ReadLine
  BY <1>1, ReadLineInv
<1>2. CASE EndOfInput
  BY <1>2, EndOfInputInv
<1>3. CASE RunScript
  BY <1>3, WholeTextInv DEF RunScript
<1>4. CASE CompileOnly
  BY <1>4, WholeTextInv DEF CompileOnly
<1>5. CASE Click
  BY <1>5, ClickInv
<1>6. CASE StartBatch
  BY <1>6, StartBatchInv
<1>7. CASE RunStatement
  BY <1>7, RunStatementInv
<1>8. CASE ShowResults
  BY <1>8, ShowResultsInv
<1>9. CASE UNCHANGED vars
  <2>1. TypeInv'
    BY <1>9 DEF vars, SessionInv, TypeInv
  <2>2. TablesInv'
    BY <1>9 DEF vars, SessionInv, TablesInv
  <2>3. ASSUME NEW b \in DOMAIN sent
        PROVE  BatchInv(b)'
    <3>1. PICK a \in 1 .. Len(log) + 1, z \in 0 .. Len(log) :
              /\ Ran(b, a, z)
              /\ Over(b) => IsOver(b, a, z)
              /\ ~Over(b) /\ phase = "parsed" => z < a
              /\ ~Over(b) /\ phase = "running" => Runs(b, a, z)
      BY DEF SessionInv, BatchInv
    <3>2. Ran(b, a, z)'
      BY <1>9, <3>1 DEF vars, Ran, Mates, GoesOn, Grammatical
    <3>3. (Over(b) => IsOver(b, a, z))'
      BY <1>9, <3>1 DEF vars, Over, IsOver, GoesOn, Grammatical
    <3>4. (/\ ~Over(b) /\ phase = "parsed" => z < a
           /\ ~Over(b) /\ phase = "running" => Runs(b, a, z))'
      BY <1>9, <3>1 DEF vars, Over, Runs, GoesOn, Grammatical
    <3>5. a \in 1 .. Len(log') + 1 /\ z \in 0 .. Len(log')
      BY <1>9 DEF vars
    <3> QED
      BY <3>2, <3>3, <3>4, <3>5 DEF BatchInv
  <2> QED
    BY <1>9, <2>1, <2>2, <2>3 DEF vars, SessionInv
<1> QED
  BY <1>1, <1>2, <1>3, <1>4, <1>5, <1>6, <1>7, <1>8, <1>9 DEF Next

(* Whatever the lexer and the parser make of the texts: the tables are      *)
(* those the log explains, the statements of a batch that have run are the  *)
(* first of its tree, next to each other in the log, and while a batch runs *)
(* the rest of it is in batch and its results are still to be shown.        *)
THEOREM SessionInvariant == Spec => []SessionInv
<1>1. Init => SessionInv
  BY InitInv
<1>2. SessionInv /\ [Next]_vars => SessionInv'
  BY StepInv
<1> QED
  BY <1>1, <1>2, PTL DEF Spec

LEMMA OneByOne == SessionInv => RunsOneByOne
<1> SUFFICES ASSUME SessionInv
             PROVE  RunsOneByOne
  OBVIOUS
<1>1. TypeInv /\ TablesInv /\ Len(log) \in Nat /\ DOMAIN log = 1 .. Len(log)
  BY Types DEF SessionInv
<1>2. tables = Before(Len(log) + 1)
  BY <1>1 DEF TablesInv, Before
<1>3. ASSUME NEW k \in DOMAIN log
      PROVE  LET entry == log[k]
                 tree == parsed[entry.batch]
             IN  /\ Grammatical(tree)
                 /\ entry.stmt = tree.kids[k - Min(Mates(entry.batch)) + 1]
                 /\ Refused(entry.stmt, Before(k)) => entry.end = "error"
                 /\ GoesOn(entry.end) \/ k = Max(Mates(entry.batch))
  <2>1. PICK b : b = log[k].batch
    OBVIOUS
  <2>2. b \in DOMAIN sent /\ k \in Mates(b)
    BY <1>1, <2>1, Types DEF TypeInv, Mates
  <2>3. PICK a \in 1 .. Len(log) + 1, z \in 0 .. Len(log) : Ran(b, a, z)
    BY <2>2 DEF SessionInv, BatchInv
  <2>4. Mates(b) = a .. z /\ k \in a .. z /\ a \in Nat /\ z \in Nat /\ a <= z
    BY <1>1, <2>2, <2>3 DEF Ran
  <2>5. Min(Mates(b)) = a /\ Max(Mates(b)) = z
    BY <2>4, Bounds
  <2>6. Refused(log[k].stmt, Before(k)) => log[k].end = "error"
    BY <1>1 DEF TablesInv, Before
  <2> QED
    BY <2>1, <2>3, <2>4, <2>5, <2>6 DEF Ran
<1>4. ASSUME NEW b \in DOMAIN sent, Over(b), Grammatical(parsed[b]),
             \A k \in Mates(b) : GoesOn(log[k].end)
      PROVE  Cardinality(Mates(b)) = Len(parsed[b].kids)
  <2>1. PICK a \in 1 .. Len(log) + 1, z \in 0 .. Len(log) :
            Ran(b, a, z) /\ IsOver(b, a, z)
    BY <1>4 DEF SessionInv, BatchInv
  <2>2. Mates(b) = a .. z /\ a \in Nat /\ z \in Nat /\ a <= z + 1
    BY <1>1, <2>1 DEF Ran
  <2>3. z - a + 1 = Len(parsed[b].kids)
    <3>1. a <= z => GoesOn(log[z].end)
      BY <1>4, <2>2
    <3> QED
      BY <1>4, <2>1, <3>1 DEF IsOver
  <2>4. Cardinality(a .. z) = z - a + 1
    <3>1. Cardinality(a .. z) = IF a > z THEN 0 ELSE z - a + 1
      BY <2>2, FS_Interval
    <3> QED
      BY <2>2, <3>1
  <2> QED
    BY <2>2, <2>3, <2>4
<1> QED
  BY <1>2, <1>3, <1>4 DEF RunsOneByOne

(* What is shown are results of the batch that runs, and the log only grows. *)
LEMMA OnlyEffectsShown == SessionInv /\ ShownInv /\ [Next]_vars => ShownInv'
<1> SUFFICES ASSUME SessionInv, ShownInv, [Next]_vars, NEW k \in shown'
             PROVE  log'[k].end = "ok"
  BY DEF ShownInv
<1>1. TypeInv /\ Len(log) \in Nat /\ DOMAIN log = 1 .. Len(log)
  BY Types DEF SessionInv
<1>2. ASSUME phase = "running"
      PROVE  \A x \in Display(results) : x \in DOMAIN log /\ log[x].end = "ok"
  <2>1. PICK n, a, z \in Nat :
           n = Len(sent) /\ z = Len(log) /\ a \in 1 .. z + 1 /\ Runs(n, a, z)
    BY <1>2, Running
  <2>2. results = {x \in a .. z : log[x].end = "ok"}
    BY <2>1 DEF Runs
  <2>3. Display(results) \subseteq results
    <3>1. results \subseteq a .. z
      BY <2>2
    <3> QED
      BY <2>1, <3>1, DisplayIs
  <2>4. a .. z \subseteq DOMAIN log
    BY <1>1, <2>1
  <2> QED
    BY <2>2, <2>3, <2>4
<1>3. \A x \in shown : x \in DOMAIN log /\ log[x].end = "ok"
  BY <1>1 DEF TypeInv, ShownInv
<1>4. CASE RunStatement
  <2>1. phase = "running" /\ shown' \subseteq shown \cup Display(results)
    BY <1>4 DEF RunStatement
  <2>2. k \in DOMAIN log /\ log[k].end = "ok"
    BY <1>2, <1>3, <2>1
  <2>3. PICK e : log' = Append(log, e)
    BY <1>4 DEF RunStatement
  <2>4. log \in Seq(Entry)
    BY <1>1 DEF TypeInv
  <2>5. log'[k] = log[k]
    BY <1>1, <2>2, <2>3, <2>4
  <2> QED
    BY <2>2, <2>5
<1>5. CASE ShowResults
  BY <1>2, <1>3, <1>5 DEF ShowResults
<1>6. CASE UNCHANGED <<log, shown>>
  BY <1>3, <1>6
<1>7. CASE ReadLine \/ EndOfInput \/ RunScript \/ CompileOnly \/ Click \/ StartBatch
  <2>1. UNCHANGED <<log, shown>>
    BY <1>7 DEF ReadLine, EndOfInput, RunScript, CompileOnly, Click, StartBatch, Execute
  <2> QED
    BY <1>6, <2>1
<1> QED
  BY <1>4, <1>5, <1>6, <1>7 DEF Next, vars

LEMMA Shown == SessionInv /\ ShownInv => EffectsAreShown
<1> SUFFICES ASSUME SessionInv, phase # "running",
                    NEW k \in DOMAIN log, log[k].end = "ok"
             PROVE  \/ k \in shown
                    \/ \E j \in Mates(log[k].batch) :
                          IF input.mode = "gui" THEN j > k /\ log[j].end = "ok"
                          ELSE ~GoesOn(log[j].end)
  BY DEF EffectsAreShown, ShownInv
<1>1. TypeInv /\ Len(log) \in Nat /\ DOMAIN log = 1 .. Len(log)
  BY Types DEF SessionInv
<1>2. PICK b : b = log[k].batch
  OBVIOUS
<1>3. b \in DOMAIN sent /\ k \in Mates(b)
  BY <1>1, <1>2, Types DEF TypeInv, Mates
<1>4. PICK a \in 1 .. Len(log) + 1, z \in 0 .. Len(log) :
          /\ Ran(b, a, z)
          /\ Over(b) => IsOver(b, a, z)
          /\ ~Over(b) /\ phase = "parsed" => z < a
  BY <1>3 DEF SessionInv, BatchInv
<1>5. Mates(b) = a .. z /\ k \in a .. z /\ a \in Nat /\ z \in Nat /\ a <= z
  BY <1>1, <1>3, <1>4 DEF Ran
<1>6. Over(b)
  BY <1>1, <1>4, <1>5 DEF TypeInv, Over
<1>7. k \in shown <=> IF input.mode = "gui"
                        THEN \A j \in k + 1 .. z : log[j].end # "ok"
                      ELSE GoesOn(log[z].end)
  BY <1>4, <1>5, <1>6 DEF IsOver
<1>8. ASSUME input.mode = "gui", NEW j \in k + 1 .. z, log[j].end = "ok"
      PROVE  j \in Mates(b) /\ j > k
  BY <1>5, <1>8
<1>9. k \in a .. z => z \in Mates(b)
  BY <1>5
<1> QED
  BY <1>2, <1>5, <1>7, <1>8, <1>9, Zenon

(* For any texts and whatever is made of them: each statement of a batch    *)
(* sees what those before it did, the first that fails ends its batch, a    *)
(* text that is not grammatical runs nothing, and no batch ends early.      *)
THEOREM BatchesRunOneByOne == Spec => []RunsOneByOne
<1>1. Spec => []SessionInv
  BY SessionInvariant
<1>2. SessionInv => RunsOneByOne
  BY OneByOne
<1> QED
  BY <1>1, <1>2, PTL

(* For any texts and whatever is made of them: cli/main.py and gui/app.py   *)
(* show only results of statements that took effect, and when nothing runs  *)
(* each of these has been shown, except on the command line in a batch of   *)
(* which a statement failed, and in the client before a later result.       *)
THEOREM WhatRanIsShown == Spec => []EffectsAreShown
<1>1. Spec => []SessionInv
  BY SessionInvariant
<1>2. Init => ShownInv
  BY DEF Init, ShownInv
<1>3. SessionInv /\ ShownInv /\ [Next]_vars => ShownInv'
  BY OnlyEffectsShown
<1>4. SessionInv /\ ShownInv => EffectsAreShown
  BY Shown
<1> QED
  BY <1>1, <1>2, <1>3, <1>4, PTL DEF Spec

=============================================================================
