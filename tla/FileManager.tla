----------------------------- MODULE FileManager -----------------------------
(***************************************************************************)
(* storage/file_manager.py: a file of pages with a header page (page 0),   *)
(* a page count and a list of free pages threaded through their first      *)
(* words.                                                                  *)
(*                                                                         *)
(* Every write that reaches the file is a step of its own, and the process *)
(* may be killed between any two of them; a single write is not torn.  The *)
(* first word of a page is the link of a free page and the page id of a    *)
(* formatted one; the rest of a page is "zero", "blank" (an empty page) or *)
(* "data".                                                                 *)
(***************************************************************************)
EXTENDS Naturals

CONSTANTS
    MaxPages,    \* bound on the pages after page 0
    MaxCrashes   \* bound on the kills

ASSUME FileAssumption ==
    /\ MaxPages \in Nat \ {0}
    /\ MaxCrashes \in Nat

VARIABLES
    pc,         \* where the process is in the operation it executes
    file,       \* "none", "empty", "unformatted" (zeros) or "ready"
    diskCount,  \* the header page: the page count ...
    diskHead,   \* ... and the head of the free list
    count,      \* self._count
    head,       \* self._free_head
    word,       \* first word of each page
    body,       \* the rest of each page
    pid,        \* the page allocate_page or free_page works on
    owned,      \* pages the caller was given and has not freed
    content,    \* what the caller last put in each of them
    frees,      \* does the caller call free_page?  The engine does not.
    crashes

header == <<diskCount, diskHead>>
memory == <<count, head>>
pages == <<word, body>>
caller == <<owned, content, frees>>
vars == <<pc, file, header, memory, pages, pid, caller, crashes>>

Page == 1 .. MaxPages

Init ==
    /\ pc = "closed"
    /\ file = "none"
    /\ diskCount = 0 /\ diskHead = 0
    /\ count = 0 /\ head = 0
    /\ word = [p \in Page |-> 0]
    /\ body = [p \in Page |-> "zero"]
    /\ pid = 0
    /\ owned = {}
    /\ content = [p \in Page |-> "blank"]
    /\ frees \in BOOLEAN
    /\ crashes = 0

-----------------------------------------------------------------------------
(* __init__ of an existing file ... *)
Open ==
    /\ pc = "closed"
    /\ file = "ready"
    /\ count' = diskCount
    /\ head' = diskHead
    /\ pc' = "idle"
    /\ UNCHANGED <<file, header, pages, pid, caller, crashes>>

(* ... which raises when the magic is not there ... *)
OpenRejected ==
    /\ pc = "closed"
    /\ file = "unformatted"
    /\ UNCHANGED vars

(* ... and of a file that is missing or shorter than a page: it is         *)
(* truncated, a page of zeros is written, then the header over it.         *)
Truncate ==
    /\ pc = "closed"
    /\ file \in {"none", "empty"}
    /\ file' = "empty"
    /\ pc' = "truncated"
    /\ count' = 1
    /\ head' = 0
    /\ UNCHANGED <<header, pages, pid, caller, crashes>>

WriteZeros ==
    /\ pc = "truncated"
    /\ file' = "unformatted"
    /\ pc' = "zeroed"
    /\ UNCHANGED <<header, memory, pages, pid, caller, crashes>>

FlushHeader ==
    /\ diskCount' = count
    /\ diskHead' = head

FormatFile ==
    /\ pc = "zeroed"
    /\ FlushHeader
    /\ file' = "ready"
    /\ pc' = "idle"
    /\ UNCHANGED <<memory, pages, pid, caller, crashes>>

-----------------------------------------------------------------------------
(* Faulty variant: the page taken stays the head of the free list.         *)
ReuseKeepsHead ==
    /\ pc = "idle"
    /\ head # 0
    /\ pid' = head
    /\ pc' = "format"
    /\ UNCHANGED <<file, header, memory, pages, caller, crashes>>

(* allocate_page: the head of the free list, whose link becomes the head,  *)
(* or a new page at the end of the file.                                   *)
Reuse ==
    /\ pc = "idle"
    /\ head # 0
    /\ pid' = head
    /\ head' = word[head]
    /\ pc' = "format"
    /\ UNCHANGED <<file, header, count, pages, caller, crashes>>

Extend ==
    /\ pc = "idle"
    /\ head = 0
    /\ count <= MaxPages
    /\ pid' = count
    /\ count' = count + 1
    /\ pc' = "format"
    /\ UNCHANGED <<file, header, head, pages, caller, crashes>>

(* write_page of an empty page, whose first word is its page id.           *)
FormatPage ==
    /\ pc = "format"
    /\ word' = [word EXCEPT ![pid] = pid]
    /\ body' = [body EXCEPT ![pid] = "blank"]
    /\ pc' = "allocated"
    /\ UNCHANGED <<file, header, memory, pid, caller, crashes>>

(* Faulty variant: the header is not written out.                          *)
ReturnPageUnrecorded ==
    /\ pc = "allocated"
    /\ owned' = owned \cup {pid}
    /\ content' = [content EXCEPT ![pid] = "blank"]
    /\ pc' = "idle"
    /\ UNCHANGED <<file, header, memory, pages, pid, frees, crashes>>

ReturnPage ==
    /\ pc = "allocated"
    /\ FlushHeader
    /\ owned' = owned \cup {pid}
    /\ content' = [content EXCEPT ![pid] = "blank"]
    /\ pc' = "idle"
    /\ UNCHANGED <<file, memory, pages, pid, frees, crashes>>

(* free_page links the page in front of the list, then moves the head.     *)
LinkPage(p) ==
    /\ frees
    /\ pc = "idle"
    /\ p \in owned
    /\ owned' = owned \ {p}
    /\ word' = [word EXCEPT ![p] = head]
    /\ pid' = p
    /\ pc' = "linked"
    /\ UNCHANGED <<file, header, memory, body, content, frees, crashes>>

(* Faulty variant: the new head is not written out.                        *)
MoveHeadInMemory ==
    /\ pc = "linked"
    /\ head' = pid
    /\ pc' = "idle"
    /\ UNCHANGED <<file, header, count, pages, pid, caller, crashes>>

MoveHead ==
    /\ pc = "linked"
    /\ head' = pid
    /\ diskHead' = pid
    /\ diskCount' = count
    /\ pc' = "idle"
    /\ UNCHANGED <<file, count, pages, pid, caller, crashes>>

(* write_page of a page the caller owns.                                   *)
WritePage(p) ==
    /\ pc = "idle"
    /\ p \in owned
    /\ word' = [word EXCEPT ![p] = p]
    /\ body' = [body EXCEPT ![p] = "data"]
    /\ content' = [content EXCEPT ![p] = "data"]
    /\ UNCHANGED <<pc, file, header, memory, pid, owned, frees, crashes>>

Close ==
    /\ pc = "idle"
    /\ pc' = "closed"
    /\ count' = 0 /\ head' = 0
    /\ UNCHANGED <<file, header, pages, pid, caller, crashes>>

Crash ==
    /\ crashes < MaxCrashes
    /\ pc # "closed"
    /\ crashes' = crashes + 1
    /\ pc' = "closed"
    /\ count' = 0 /\ head' = 0
    /\ UNCHANGED <<file, header, pages, pid, caller>>

Next ==
    \/ Open
    \/ OpenRejected
    \/ Truncate \/ WriteZeros \/ FormatFile
    \/ Reuse \/ Extend \/ FormatPage \/ ReturnPage
    \/ \E p \in Page : LinkPage(p)
    \/ MoveHead
    \/ \E p \in Page : WritePage(p)
    \/ Close
    \/ Crash

Spec == Init /\ [][Next]_vars

-----------------------------------------------------------------------------
(* A page that is reused is formatted before the header is written: after  *)
(* a kill in between, the free list is that page for ever, and the page is *)
(* handed out again and again.  The properties below are those of a file   *)
(* that has not met both a free and a kill.                                *)
Undisturbed == ~ frees \/ crashes = 0

(* PagesIntact: a page the caller owns holds what it last wrote there and  *)
(* carries its own number, whatever is allocated, freed, closed, reopened  *)
(* and killed around it; and the header counts it, so that a scan after a  *)
(* restart reaches it.                                                     *)
PagesIntact ==
    Undisturbed => \A p \in owned :
        /\ word[p] = p
        /\ body[p] = content[p]
        /\ p < diskCount

(* The k-th page of the free list that starts at h; 0 beyond its end.      *)
FreeList(h) ==
    LET link[k \in 0 .. MaxPages] ==
            IF k = 0 THEN h
            ELSE IF link[k - 1] = 0 THEN 0 ELSE word[link[k - 1]]
    IN  link

Listed(h) == {FreeList(h)[k] : k \in 0 .. MaxPages} \ {0}

(* PagesHaveOnePlace: the page allocate_page works on belongs to nobody, so *)
(* it never formats a page that holds somebody's rows or returns one twice; *)
(* between operations the free list in the file ends, and its pages and the *)
(* owned ones share nothing and are all the pages there are.               *)
FreshPage == pc \in {"format", "allocated"} => pid \notin owned
FreeListSane ==
    pc = "idle" =>
        /\ FreeList(diskHead)[MaxPages] = 0
        /\ Listed(diskHead) \cap owned = {}
        /\ Listed(diskHead) \cup owned = 1 .. diskCount - 1
PagesHaveOnePlace == Undisturbed => FreshPage /\ FreeListSane
=============================================================================
