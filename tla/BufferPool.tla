----------------------------- MODULE BufferPool -----------------------------
(***************************************************************************)
(* storage/buffer.py: the pool of frames between the engine and one file.  *)
(*                                                                         *)
(* A user is a piece of code between its get_page and its unpin_page; it   *)
(* follows the contract (it changes the page only in between, and unpins   *)
(* with dirty=True if it did).  A write or a read of the file may raise    *)
(* when IOErrors is TRUE; the process may be killed at any time, and       *)
(* restarted.  The hit and miss counters of stats() are left out.          *)
(***************************************************************************)
EXTENDS Integers, Sequences, FiniteSets

CONSTANTS
    Pages,          \* page ids of the file
    NoPage,         \* a user that holds none
    Users,
    Capacity,       \* self.capacity
    Policies,       \* the policies a pool may be made with
    Contents,       \* what can be on a page
    Blank,          \* an empty page
    IOErrors,       \* may the file manager raise?
    MaxRestarts     \* bound on the kills

ASSUME PoolAssumption ==
    /\ NoPage \notin Pages
    /\ Capacity \in Nat \ {0}
    /\ Policies \subseteq {"LRU", "FIFO"}
    /\ Blank \in Contents
    /\ IOErrors \in BOOLEAN
    /\ MaxRestarts \in Nat
    /\ IsFiniteSet(Users)

VARIABLES
    order,      \* the keys of _frames, in their order
    frame,      \* _frames: page id -> page, pin, dirty
    disk,       \* the pages of the file
    holds,      \* the page a user has got and not yet unpinned
    wrote,      \* whether it has changed that page
    policy,     \* self.policy
    restarts

vars == <<order, frame, disk, holds, wrote, policy, restarts>>
pool == <<order, frame>>
users == <<holds, wrote>>
process == <<policy, restarts>>

Frame == [page : Contents, pin : Nat, dirty : BOOLEAN]
Cached == DOMAIN frame

Init ==
    /\ order = <<>>
    /\ frame = [p \in {} |-> Blank]
    /\ disk = [p \in Pages |-> Blank]
    /\ holds = [u \in Users |-> NoPage]
    /\ wrote = [u \in Users |-> FALSE]
    /\ policy \in Policies
    /\ restarts = 0

-----------------------------------------------------------------------------
(* The order of the frames.                                                *)

PositionOf(p) == CHOOSE i \in DOMAIN order : order[i] = p

(* The order without p.                                                    *)
Without(p) ==
    [i \in 1 .. Len(order) - 1 |->
        IF i < PositionOf(p) THEN order[i] ELSE order[i + 1]]

(* Faulty variant: a hit never moves the page.                             *)
TouchedNever(p) == order

(* _touch: LRU moves a page that is hit to the end, FIFO leaves it.        *)
Touched(p) == IF policy = "LRU" THEN Append(Without(p), p) ELSE order

(* Faulty variant: the first frame goes, pinned or not.                    *)
IsVictimPinnedOrNot(p) == order # <<>> /\ order[1] = p

(* _evict_one takes the first frame nobody has pinned.                     *)
IsVictim(p) ==
    \E i \in DOMAIN order :
        /\ order[i] = p
        /\ frame[p].pin = 0
        /\ \A j \in 1 .. i - 1 : frame[order[j]].pin > 0

AllPinned == \A p \in Cached : frame[p].pin > 0
(* Faulty variant: one frame too many.                                     *)
FullOffByOne == Len(order) > Capacity

Full == Len(order) >= Capacity

(* The frames without those of P; the frames with p loaded.                *)
Dropped(P) == [q \in Cached \ P |-> frame[q]]
Loaded(fr, p) ==
    [q \in DOMAIN fr \cup {p} |->
        IF q = p THEN [page |-> disk[p], pin |-> 1, dirty |-> FALSE]
                 ELSE fr[q]]

(* The file once the pages of P have been written back.                    *)
WrittenBack(P) ==
    [q \in Pages |-> IF q \in P THEN frame[q].page ELSE disk[q]]

DirtyPages == {p \in Cached : frame[p].dirty}

-----------------------------------------------------------------------------
(* get_page.                                                               *)

Got(u, p) ==
    /\ holds' = [holds EXCEPT ![u] = p]
    /\ wrote' = [wrote EXCEPT ![u] = FALSE]

GetHit(u, p) ==
    /\ holds[u] = NoPage
    /\ p \in Cached
    /\ order' = Touched(p)
    /\ frame' = [frame EXCEPT ![p].pin = @ + 1]
    /\ Got(u, p)
    /\ UNCHANGED <<disk, process>>

GetMiss(u, p) ==
    /\ holds[u] = NoPage
    /\ p \notin Cached
    /\ ~ Full
    /\ order' = Append(order, p)
    /\ frame' = Loaded(frame, p)
    /\ Got(u, p)
    /\ UNCHANGED <<disk, process>>

(* A miss with the pool full drops a victim first, written back if dirty.  *)
GetEvict(u, p, victim) ==
    /\ holds[u] = NoPage
    /\ p \notin Cached
    /\ Full
    /\ IsVictim(victim)
    /\ disk' = WrittenBack({victim} \cap DirtyPages)
    /\ order' = Append(Without(victim), p)
    /\ frame' = Loaded(Dropped({victim}), p)
    /\ Got(u, p)
    /\ UNCHANGED process

(* "buffer pool full: all frames pinned".                                  *)
GetRefused(u, p) ==
    /\ holds[u] = NoPage
    /\ p \notin Cached
    /\ Full
    /\ AllPinned
    /\ UNCHANGED vars

(* The victim's frame is popped before write_page is called: when that     *)
(* raises, the frame is gone and the file has not got the page.            *)
EvictWriteFails(u, p, victim) ==
    /\ IOErrors
    /\ holds[u] = NoPage
    /\ p \notin Cached
    /\ Full
    /\ IsVictim(victim)
    /\ frame[victim].dirty
    /\ order' = Without(victim)
    /\ frame' = Dropped({victim})
    /\ UNCHANGED <<disk, users, process>>

(* read_page raises, after the eviction that made room.                    *)
EvictReadFails(u, p, victim) ==
    /\ IOErrors
    /\ holds[u] = NoPage
    /\ p \notin Cached
    /\ Full
    /\ IsVictim(victim)
    /\ disk' = WrittenBack({victim} \cap DirtyPages)
    /\ order' = Without(victim)
    /\ frame' = Dropped({victim})
    /\ UNCHANGED <<users, process>>

-----------------------------------------------------------------------------
(* The user changes the page it holds.                                     *)
Change(u, c) ==
    /\ holds[u] # NoPage
    /\ frame' = [frame EXCEPT ![holds[u]].page = c]
    /\ wrote' = [wrote EXCEPT ![u] = TRUE]
    /\ UNCHANGED <<order, disk, holds, process>>

(* Faulty variant: the last unpin decides alone whether the page is dirty. *)
UnpinOverwritesDirty(u) ==
    /\ holds[u] # NoPage
    /\ frame' = [frame EXCEPT ![holds[u]] =
                    [page |-> @.page, pin |-> @.pin - 1, dirty |-> wrote[u]]]
    /\ holds' = [holds EXCEPT ![u] = NoPage]
    /\ wrote' = [wrote EXCEPT ![u] = FALSE]
    /\ UNCHANGED <<order, disk, process>>

(* unpin_page.  A held page is always in the pool, so its early return for *)
(* a page that is not there is not taken.                                  *)
Unpin(u) ==
    /\ holds[u] # NoPage
    /\ frame' = [frame EXCEPT ![holds[u]] =
                    [page |-> @.page,
                     pin |-> IF @.pin > 0 THEN @.pin - 1 ELSE 0,
                     dirty |-> @.dirty \/ wrote[u]]]
    /\ holds' = [holds EXCEPT ![u] = NoPage]
    /\ wrote' = [wrote EXCEPT ![u] = FALSE]
    /\ UNCHANGED <<order, disk, process>>

(* Faulty variant: a flush marks every frame clean.                        *)
CleanedAll(P) == [q \in Cached |-> [frame[q] EXCEPT !.dirty = FALSE]]

Cleaned(P) ==
    [q \in Cached |-> IF q \in P THEN [frame[q] EXCEPT !.dirty = FALSE]
                                 ELSE frame[q]]

FlushPage(p) ==
    /\ p \in DirtyPages
    /\ disk' = WrittenBack({p})
    /\ frame' = Cleaned({p})
    /\ UNCHANGED <<order, users, process>>

FlushAll ==
    /\ disk' = WrittenBack(DirtyPages)
    /\ frame' = Cleaned(DirtyPages)
    /\ UNCHANGED <<order, users, process>>

(* A write of flush_all raises: the dirty pages before it in the order are *)
(* written and clean, the others are still dirty.                          *)
FlushAllFails(failing) ==
    /\ IOErrors
    /\ failing \in DirtyPages
    /\ LET done == {p \in DirtyPages : PositionOf(p) < PositionOf(failing)}
       IN  /\ disk' = WrittenBack(done)
           /\ frame' = Cleaned(done)
    /\ UNCHANGED <<order, users, process>>

(* The process is killed and started again: the pool is empty.             *)
Restart ==
    /\ restarts < MaxRestarts
    /\ restarts' = restarts + 1
    /\ order' = <<>>
    /\ frame' = [p \in {} |-> Blank]
    /\ holds' = [u \in Users |-> NoPage]
    /\ wrote' = [u \in Users |-> FALSE]
    /\ UNCHANGED <<disk, policy>>

Next ==
    \/ \E u \in Users, p \in Pages :
          \/ GetHit(u, p)
          \/ GetMiss(u, p)
          \/ GetRefused(u, p)
          \/ \E victim \in Cached :
                \/ GetEvict(u, p, victim)
                \/ EvictWriteFails(u, p, victim)
                \/ EvictReadFails(u, p, victim)
    \/ \E u \in Users, c \in Contents : Change(u, c)
    \/ \E u \in Users : Unpin(u)
    \/ \E p \in Pages : FlushPage(p)
    \/ FlushAll
    \/ \E p \in Pages : FlushAllFails(p)
    \/ Restart

Spec == Init /\ [][Next]_vars

-----------------------------------------------------------------------------
(* TypeOK: the order lists exactly the frames, each once, and there are    *)
(* never more than Capacity of them.                                       *)
TypeOK ==
    /\ order \in Seq(Pages)
    /\ Cached \subseteq Pages
    /\ frame \in [Cached -> Frame]
    /\ disk \in [Pages -> Contents]
    /\ holds \in [Users -> Pages \cup {NoPage}]
    /\ wrote \in [Users -> BOOLEAN]
    /\ policy \in Policies
    /\ restarts \in Nat
    /\ \A i \in DOMAIN order : order[i] \in Cached
    /\ \A p \in Cached : \E i \in DOMAIN order : order[i] = p
    /\ \A i, j \in DOMAIN order : order[i] = order[j] => i = j
    /\ Len(order) <= Capacity

(* PinsAreHolders: a page somebody holds is in the pool (it was not        *)
(* evicted under its user), and its pin count is the number of holders,    *)
(* however their gets and unpins interleave: an unpin never frees a page   *)
(* another user still has.                                                 *)
Holders(p) == {u \in Users : holds[u] = p}
PinsAreHolders ==
    /\ \A u \in Users : holds[u] # NoPage => holds[u] \in Cached
    /\ \A p \in Cached : frame[p].pin = Cardinality(Holders(p))

(* Coherence: a frame that is not marked dirty, and that nobody is in the  *)
(* middle of changing, is equal to the page in the file, so that dropping  *)
(* it without writing it back loses nothing.                               *)
Coherence ==
    \A p \in Cached :
        ~ frame[p].dirty /\ (\A u \in Holders(p) : ~ wrote[u])
            => frame[p].page = disk[p]

(* EvictionOrder: the page that leaves for another is the first in the     *)
(* order that is not pinned; pages keep their order in the pool, except    *)
(* that a page got goes to the end: always under LRU, and when it is       *)
(* loaded under FIFO.                                                      *)
Precedes(o, p, q) ==
    \E i, j \in DOMAIN o : i < j /\ o[i] = p /\ o[j] = q

IsGot(p) == \E u \in Users : holds[u] = NoPage /\ holds'[u] = p

EvictionOrder ==
    [][ restarts' = restarts =>
        /\ \A p \in Cached \ DOMAIN frame' :
              /\ frame[p].pin = 0
              /\ \A q \in Cached : Precedes(order, q, p) => frame[q].pin > 0
        /\ \A p \in DOMAIN frame' :
              IsGot(p) /\ (policy = "LRU" \/ p \notin Cached)
                  => order'[Len(order')] = p
        /\ \A p, q \in Cached \cap DOMAIN frame' :
              Precedes(order, p, q) /\ ~ (IsGot(p) /\ policy = "LRU")
                  => Precedes(order', p, q) ]_vars

(* PoolIsAPageStore: whatever is evicted, reloaded and flushed in whatever *)
(* order, a user reads what was last written to the page, the file only    *)
(* ever receives a page as it is then, and only a kill, or an eviction     *)
(* whose write raises, takes back a write.                                 *)
View == [p \in Pages |-> IF p \in Cached THEN frame[p].page ELSE disk[p]]

Store == INSTANCE PageStore WITH
    Versions <- Contents,
    Faulty <- IOErrors,
    store <- View,
    stable <- disk

PoolIsAPageStore == Store!Spec
=============================================================================
