----------------------------- MODULE PageStore -----------------------------
(***************************************************************************)
(* What the buffer pool promises to its users: a page reads as it was last *)
(* written by somebody who held it, whoever else comes and goes; a page    *)
(* goes to the file only as it is at that moment; and what is in the file  *)
(* is what a restart finds.                                                *)
(***************************************************************************)
EXTENDS Naturals

CONSTANTS
    Pages, NoPage, Users, Versions, Blank,
    Faulty              \* may the file refuse a write?

VARIABLES
    store,      \* what a reader of the page sees
    stable,     \* what the file holds
    holds,      \* the page each user has, or NoPage
    restarts    \* how often the process has been killed and restarted

vars == <<store, stable, holds, restarts>>

TypeOK ==
    /\ store \in [Pages -> Versions]
    /\ stable \in [Pages -> Versions]
    /\ holds \in [Users -> Pages \cup {NoPage}]
    /\ restarts \in Nat

Init ==
    /\ store = [p \in Pages |-> Blank]
    /\ stable = store
    /\ holds = [u \in Users |-> NoPage]
    /\ restarts = 0

(* Some pages, perhaps none, are written to the file.                      *)
Persist(P) == stable' = [p \in Pages |-> IF p \in P THEN store[p] ELSE stable[p]]

(* Getting a page may send others to the file; it changes none.            *)
Get(u, p) ==
    /\ holds[u] = NoPage
    /\ holds' = [holds EXCEPT ![u] = p]
    /\ \E P \in SUBSET Pages : Persist(P)
    /\ UNCHANGED <<store, restarts>>

Write(u, v) ==
    /\ holds[u] # NoPage
    /\ store' = [store EXCEPT ![holds[u]] = v]
    /\ UNCHANGED <<stable, holds, restarts>>

Release(u) ==
    /\ holds[u] # NoPage
    /\ holds' = [holds EXCEPT ![u] = NoPage]
    /\ UNCHANGED <<store, stable, restarts>>

Flush ==
    /\ \E P \in SUBSET Pages : Persist(P)
    /\ UNCHANGED <<store, holds, restarts>>

(* The file refuses a page that was to leave the memory.                   *)
Lose(p) ==
    /\ Faulty
    /\ \A u \in Users : holds[u] # p
    /\ store' = [store EXCEPT ![p] = stable[p]]
    /\ UNCHANGED <<stable, holds, restarts>>

Restart ==
    /\ store' = stable
    /\ holds' = [u \in Users |-> NoPage]
    /\ restarts' = restarts + 1
    /\ UNCHANGED stable

Next ==
    \/ \E u \in Users, p \in Pages : Get(u, p)
    \/ \E u \in Users, v \in Versions : Write(u, v)
    \/ \E u \in Users : Release(u)
    \/ Flush
    \/ \E p \in Pages : Lose(p)
    \/ Restart

Spec == Init /\ [][Next]_vars
=============================================================================
