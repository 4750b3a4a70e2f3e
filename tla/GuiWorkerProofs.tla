--------------------------- MODULE GuiWorkerProofs ---------------------------
(***************************************************************************)
(* The two threads of the desktop client have one database open between    *)
(* requests, show the tables that are there when idle, and lose nothing in *)
(* an orderly end: for any directories, and any number of databases and of *)
(* changes of their tables.                                                *)
(***************************************************************************)
EXTENDS GuiWorker, SequenceTheorems, TLAPS

UserRequest ==
    {Run(s) : s \in Statements} \cup {Schema}
    \cup {OpenDir(d) : d \in Dirs \cup BadDirs}

Database == [dir : Dirs, open : BOOLEAN, unsaved : BOOLEAN]

(* The inductive invariant.  A close() that raised ends what it says.      *)
TypeOK ==
    /\ window \in {"open", "closing", "gone"}
    /\ busy \in BOOLEAN
    /\ worker \in {"starting", "ready", "working", "switching", "exited", "dead"}
    /\ services \in Seq(Database)
    /\ version \in [Dirs -> Nat]
    /\ mishaps \subseteq {"start", "close", "timeout"}

(* Databases: the last one opened is in use; the one before it is open as  *)
(* well while the worker switches; changes are only in open ones.          *)
OwnerInv ==
    /\ current = Len(services)
    /\ worker \in {"starting", "dead"} <=> services = <<>>
    /\ worker = "switching" => current > 1
    /\ \A i \in DOMAIN services :
        /\ services[i].open <=>
            \/ i = current /\ worker # "exited"
            \/ i = current - 1 /\ worker = "switching"
        /\ services[i].unsaved => services[i].open

(* Requests: what the Tk thread has asked for is in one place, a close()   *)
(* comes last, and a tree that is stale has a request or an answer under   *)
(* way that brings it up to date.                                          *)
TreeIsTrue == window = "open" => shown = TreeOf(Here)
NoneQueued == requests = IF window = "open" THEN <<>> ELSE <<CloseAll>>

Queued ==
    /\ worker \in {"starting", "ready", "dead"}
    /\ responses = <<>>
    /\ \E r \in UserRequest :
        /\ requests = IF window = "open" THEN <<r>> ELSE <<r, CloseAll>>
        /\ worker # "ready" => r = Schema
        /\ r.kind = "open" => TreeIsTrue

InHand ==
    /\ worker \in {"working", "switching"}
    /\ responses = <<>>
    /\ NoneQueued
    /\ request \in UserRequest
    /\ worker = "switching" => request.kind = "open"
    /\ worker = "working" /\ request.kind = "open" => TreeIsTrue

Answer ==
    /\ worker = "ready"
    /\ NoneQueued
    /\ responses # <<>> /\ responses = <<Head(responses)>>
    /\ Head(responses).kind \in {"execute", "schema", "open"}
    /\ IF Head(responses).ok
       THEN Head(responses).kind # "execute" => Head(responses).tree = TreeOf(Here)
       ELSE TreeIsTrue

Idle ==
    /\ worker = "ready"
    /\ NoneQueued
    /\ responses = <<>>
    /\ TreeIsTrue

Ending ==
    /\ window # "open"
    /\ requests = <<>>
    /\ \/ worker = "working" /\ request = CloseAll
       \/ worker = "exited"

OneRequestInv ==
    /\ Queued \/ InHand \/ Answer \/ Idle \/ Ending
    /\ window = "open" => (~ busy <=> Idle)
    /\ window = "gone" => worker \in {"exited", "dead"} \/ "timeout" \in mishaps

WorkerInv == TypeOK /\ ("close" \notin mishaps => OwnerInv /\ OneRequestInv)

-----------------------------------------------------------------------------
(* Lemmas on the databases and on the queue of requests.                   *)

(* A database replaced: the other ones are what they were.                 *)
LEMMA Replaced ==
    ASSUME NEW s \in Seq(Database), NEW i \in DOMAIN s, NEW e \in Database
    PROVE  LET t == [s EXCEPT ![i] = e]
           IN  /\ t \in Seq(Database)
               /\ Len(t) = Len(s) /\ DOMAIN t = DOMAIN s
               /\ t[i] = e
               /\ \A j \in DOMAIN s \ {i} : t[j] = s[j]
<1> DEFINE t == [s EXCEPT ![i] = e]
<1>1. i \in 1 .. Len(s)
  OBVIOUS
<1>2. t \in Seq(Database) /\ Len(t) = Len(s)
  BY <1>1, ExceptSeq
<1> QED
  BY <1>1, <1>2

(* What ExecuteUpdate and ExecuteDdl do to a database ...                  *)
LEMMA Written ==
    ASSUME services \in Seq(Database), NEW i \in DOMAIN services,
           NEW b \in BOOLEAN
    PROVE  LET t == [services EXCEPT ![i].unsaved = b]
           IN  /\ t \in Seq(Database)
               /\ Len(t) = Len(services) /\ DOMAIN t = DOMAIN services
               /\ t[i].dir = services[i].dir
               /\ t[i].open = services[i].open
               /\ t[i].unsaved = b
               /\ \A j \in DOMAIN services \ {i} : t[j] = services[j]
<1> DEFINE e == [services[i] EXCEPT !.unsaved = b]
<1>1. services[i] \in Database
  OBVIOUS
<1>2. /\ e \in Database /\ e.dir = services[i].dir
      /\ e.open = services[i].open /\ e.unsaved = b
  BY <1>1 DEF Database
<1>3. [services EXCEPT ![i].unsaved = b] = [services EXCEPT ![i] = e]
  OBVIOUS
<1> HIDE DEF e
<1> QED
  BY <1>2, <1>3, Replaced

(* ... and what CloseOld and CloseCurrent do to it.                        *)
LEMMA ClosedOne ==
    ASSUME services \in Seq(Database), NEW i \in DOMAIN services
    PROVE  /\ Closed(i) \in Seq(Database)
           /\ Len(Closed(i)) = Len(services)
           /\ DOMAIN Closed(i) = DOMAIN services
           /\ Closed(i)[i].dir = services[i].dir
           /\ ~ Closed(i)[i].open /\ ~ Closed(i)[i].unsaved
           /\ \A j \in DOMAIN services \ {i} : Closed(i)[j] = services[j]
<1> DEFINE d == [services[i] EXCEPT !.open = FALSE]
           e == [d EXCEPT !.unsaved = FALSE]
<1>1. services[i] \in Database
  OBVIOUS
<1>2. d \in Database /\ d.dir = services[i].dir /\ ~ d.open
  BY <1>1 DEF Database
<1>3. e \in Database /\ e.dir = services[i].dir /\ ~ e.open /\ ~ e.unsaved
  <2> HIDE DEF d
  <2> QED
    BY <1>2 DEF Database
<1>4. Closed(i) = [services EXCEPT ![i] = e]
  BY DEF Closed
<1> HIDE DEF e
<1> QED
  BY <1>3, <1>4, Replaced

(* Queues that are short enough to be written out.                         *)
LEMMA ShortQueues ==
    ASSUME NEW r, NEW q
    PROVE  /\ Append(<<>>, r) = <<r>> /\ Append(<<r>>, q) = <<r, q>>
           /\ Tail(<<r>>) = <<>> /\ Tail(<<r, q>>) = <<q>>
           /\ Head(<<r>>) = r /\ Head(<<r, q>>) = r
           /\ <<r>> # <<>> /\ <<r, q>> # <<>> /\ <<r>> # <<q, r>>
<1>1. Append(<<>>, r) = <<r>> /\ Append(<<r>>, q) = <<r, q>>
  <2> DEFINE S == {r, q}
             a == Append(<<>>, r)
             b == Append(<<r>>, q)
  <2>1. <<>> \in Seq(S) /\ <<r>> \in Seq(S) /\ <<r, q>> \in Seq(S)
    OBVIOUS
  <2>2. /\ Len(<<r>>) = 1 /\ <<r>>[1] = r
        /\ Len(<<r, q>>) = 2 /\ <<r, q>>[1] = r /\ <<r, q>>[2] = q
    OBVIOUS
  <2>3. a \in Seq(S) /\ Len(a) = 1 /\ a[1] = r
    BY <2>1
  <2>4. b \in Seq(S) /\ Len(b) = 2 /\ b[1] = r /\ b[2] = q
    BY <2>1, <2>2
  <2> HIDE DEF S, a, b
  <2>5. a = <<r>>
    BY <2>1, <2>2, <2>3, SeqEqual
  <2>6. b = <<r, q>>
    BY <2>1, <2>2, <2>4, SeqEqual
  <2> QED
    BY <2>5, <2>6 DEF a, b
<1>2. Tail(<<r>>) = <<>>
  OBVIOUS
<1>3. Tail(<<r, q>>) = <<q>>
  <2> DEFINE t == Tail(<<r, q>>)
  <2>1. t \in Seq({r, q}) /\ Len(t) = 1 /\ t[1] = q
    OBVIOUS
  <2>2. <<q>> \in Seq({r, q}) /\ Len(<<q>>) = 1 /\ <<q>>[1] = q
    OBVIOUS
  <2> HIDE DEF t
  <2>3. t = <<q>>
    BY <2>1, <2>2, SeqEqual
  <2> QED
    BY <2>3 DEF t
<1>4. Head(<<r>>) = r /\ Head(<<r, q>>) = r
  OBVIOUS
<1>5. <<r>> # <<>> /\ <<r, q>> # <<>> /\ <<r>> # <<q, r>>
  OBVIOUS
<1> QED
  BY <1>1, <1>2, <1>3, <1>4, <1>5

(* What the user can ask for is never mistaken for the close() request.    *)
LEMMA UserKinds ==
    /\ \A r \in UserRequest :
        r.kind \in {"execute", "schema", "open"} /\ r # CloseAll
    /\ Clickable \subseteq UserRequest
    /\ Schema \in UserRequest /\ Schema.kind = "schema"
    /\ \A s \in Statements :
        Run(s) \in UserRequest /\ Run(s).kind = "execute"
    /\ CloseAll.kind = "close"
<1>1. \A r \in UserRequest : r.kind \in {"execute", "schema", "open"}
  <2> TAKE r \in UserRequest
  <2>1. CASE \E s \in Statements : r = Run(s)
    BY <2>1 DEF Run, Request
  <2>2. CASE r = Schema
    BY <2>2 DEF Schema, Request
  <2>3. CASE \E d \in Dirs \cup BadDirs : r = OpenDir(d)
    BY <2>3 DEF OpenDir, Request
  <2> QED
    BY <2>1, <2>2, <2>3 DEF UserRequest
<1>2. CloseAll.kind = "close" /\ Schema.kind = "schema"
  BY DEF CloseAll, Schema, Request
<1>3. \A s \in Statements : Run(s) \in UserRequest /\ Run(s).kind = "execute"
  BY DEF UserRequest, Run, Request
<1>4. Clickable \subseteq UserRequest
  BY DEF Clickable, UserRequest
<1> QED
  BY <1>1, <1>2, <1>3, <1>4 DEF UserRequest

-----------------------------------------------------------------------------
(* Every action keeps the invariant.                                       *)

LEMMA InitInv == Init => WorkerInv
<1> SUFFICES ASSUME Init
             PROVE  WorkerInv
  OBVIOUS
<1>1. TypeOK
  BY DEF Init, TypeOK
<1>2. OwnerInv
  BY DEF Init, OwnerInv
<1>3. Queued /\ ~ Idle
  BY UserKinds DEF Init, Queued, Idle
<1>4. OneRequestInv
  BY <1>3 DEF Init, OneRequestInv
<1> QED
  BY <1>1, <1>2, <1>4 DEF WorkerInv

LEMMA TypeStep == TypeOK /\ [Next]_vars => TypeOK'
<1> SUFFICES ASSUME TypeOK, [Next]_vars
             PROVE  TypeOK'
  OBVIOUS
<1> USE DEF TypeOK, vars, ui, database
<1>1. /\ \A b \in BOOLEAN :
            [services EXCEPT ![current].unsaved = b] \in Seq(Database)
      /\ \A i : Closed(i) \in Seq(Database)
  <2>1. ASSUME NEW b \in BOOLEAN
        PROVE  [services EXCEPT ![current].unsaved = b] \in Seq(Database)
    <3>1. CASE current \in DOMAIN services
      BY <3>1, Written
    <3>2. CASE current \notin DOMAIN services
      <4>1. [services EXCEPT ![current].unsaved = b] = services
        BY <3>2
      <4> QED
        BY <4>1
    <3> QED
      BY <3>1, <3>2
  <2>2. ASSUME NEW i
        PROVE  Closed(i) \in Seq(Database)
    <3>1. CASE i \in DOMAIN services
      BY <3>1, ClosedOne
    <3>2. CASE i \notin DOMAIN services
      <4>1. Closed(i) = services
        BY <3>2 DEF Closed
      <4> QED
        BY <4>1
    <3> QED
      BY <3>1, <3>2
  <2> QED
    BY <2>1, <2>2
<1>2. \A d \in Dirs : Service(d) \in Database
  BY DEF Service, Database
<1>3. ASSUME NEW r \in Clickable, Click(r)
      PROVE  TypeOK'
  BY <1>3 DEF Click, Submit
<1>4. CASE UpdateRow
  BY <1>4 DEF UpdateRow, Submit
<1>5. CASE PollError
  BY <1>5 DEF PollError, Polled
<1>6. CASE PollTree
  BY <1>6 DEF PollTree, Polled
<1>7. CASE PollBatch
  BY <1>7 DEF PollBatch, Polled
<1>8. CASE CloseWindow
  BY <1>8 DEF CloseWindow
<1>9. CASE JoinReturns
  BY <1>9 DEF JoinReturns, Destroy
<1>10. CASE JoinTimesOut
  BY <1>10 DEF JoinTimesOut, Destroy
<1>11. CASE Start
  BY <1>2, GuiAssumption, <1>11 DEF Start
<1>12. CASE StartRaises
  BY <1>12 DEF StartRaises
<1>13. CASE Take
  BY <1>13 DEF Take
<1>14. CASE ExecuteReads
  BY <1>14 DEF ExecuteReads, Working, Respond
<1>15. CASE ExecuteUpdate
  BY <1>1, <1>15 DEF ExecuteUpdate, Unsaved, Working, Respond
<1>25. CASE ExecuteFails
  BY <1>1, <1>25 DEF ExecuteFails, Unsaved, Working, Respond
<1>16. CASE ExecuteDdl
  <2>1. ASSUME NEW x
        PROVE  [version EXCEPT ![x] = @ + 1] \in [Dirs -> Nat]
    <3>1. CASE x \in Dirs
      <4>1. version[x] + 1 \in Nat
        BY <3>1
      <4> QED
        BY <4>1
    <3>2. CASE x \notin Dirs
      <4>1. [version EXCEPT ![x] = @ + 1] = version
        BY <3>2
      <4> QED
        BY <4>1
    <3> QED
      BY <3>1, <3>2
  <2> QED
    BY <1>1, <1>16, <2>1 DEF ExecuteDdl, Working, Respond
<1>17. CASE Snapshot
  BY <1>17 DEF Snapshot, Working, Respond
<1>18. CASE OpenRaises
  BY <1>18 DEF OpenRaises, Working, Respond
<1>19. CASE OpenNew
  BY <1>2, <1>19 DEF OpenNew, Working
<1>20. CASE CloseOld
  BY <1>1, <1>20 DEF CloseOld, Respond
<1>21. CASE CloseOldRaises
  BY <1>21 DEF CloseOldRaises, Respond
<1>22. CASE CloseCurrent
  BY <1>1, <1>22 DEF CloseCurrent, Working
<1>23. CASE CloseRaises
  BY <1>23 DEF CloseRaises, Working, Respond
<1>24. CASE UNCHANGED vars
  BY <1>24
<1> QED
  BY <1>3, <1>4, <1>5, <1>6, <1>7, <1>8, <1>9, <1>10, <1>11, <1>12,
     <1>13, <1>14, <1>15, <1>16, <1>17, <1>18, <1>19, <1>20, <1>21, <1>22, <1>23, <1>24,
     <1>25
     DEF Next, Tk, Worker

(* The object tree is as true after a step that leaves the window, the     *)
(* tree, the versions and the directory in use as they are.                *)
LEMMA SameTree ==
    ASSUME version' = version, Here' = Here
    PROVE  TreeOf(Here)' = TreeOf(Here)
BY DEF TreeOf

(* A step of the Tk thread keeps the databases' part of the invariant.     *)
LEMMA SameOwner ==
    ASSUME OwnerInv, UNCHANGED <<database, worker>>
    PROVE  OwnerInv'
BY DEF OwnerInv, database

LEMMA TkStep ==
    ASSUME TypeOK, OwnerInv, OneRequestInv, Tk
    PROVE  OwnerInv' /\ OneRequestInv'
<1> USE DEF ui, database
<1>1. UNCHANGED <<database, worker>>
  BY DEF Tk, Click, UpdateRow, Submit, Polled, PollError, PollTree, PollBatch,
         CloseWindow, JoinReturns, JoinTimesOut, Destroy
<1>2. OwnerInv' /\ TreeOf(Here)' = TreeOf(Here)
  BY <1>1, SameOwner, SameTree DEF Here
<1>3. ASSUME NEW r \in UserRequest, window = "open", Submit(r),
             UNCHANGED <<window, shown, responses>>
      PROVE  OneRequestInv'
  <2>1. Idle /\ requests = <<>>
    BY <1>3 DEF OneRequestInv, Submit, Idle, NoneQueued
  <2>2. requests' = <<r>> /\ requests' # <<>>
    BY <1>3, <2>1, ShortQueues DEF Submit
  <2>3. Queued'
    BY <1>1, <1>2, <1>3, <2>1, <2>2 DEF Queued, Idle, TreeIsTrue
  <2>4. ~ Idle'
    BY <1>3, <2>2 DEF Idle, NoneQueued
  <2> QED
    BY <1>3, <2>3, <2>4 DEF OneRequestInv, Submit
<1>4. ASSUME NEW r \in Clickable, Click(r)
      PROVE  OneRequestInv'
  BY <1>3, <1>4, UserKinds DEF Click
<1>5. CASE UpdateRow
  <2>1. CASE busy
    BY <1>2, <1>5, <2>1
       DEF UpdateRow, OneRequestInv, Queued, InHand, Answer, Idle, Ending,
           NoneQueued, TreeIsTrue
  <2>2. CASE ~ busy
    <3>1. window = "open" /\ Submit(Run("update"))
          /\ UNCHANGED <<window, shown, responses>>
      BY <1>5, <2>2 DEF UpdateRow
    <3>2. Run("update") \in UserRequest
      BY UserKinds DEF Statements
    <3> QED
      BY <1>2, <1>3, <3>1, <3>2
  <2> QED
    BY <2>1, <2>2
<1>6. ASSUME Polled
      PROVE  /\ window = "open" /\ Answer /\ worker = "ready" /\ worker' = "ready"
             /\ requests = <<>> /\ responses' = <<>> /\ window' = "open"
  <2>1. window = "open" /\ responses # <<>> /\ responses' = Tail(responses)
        /\ window' = window
    BY <1>6 DEF Polled
  <2>2. Answer
    BY <2>1 DEF OneRequestInv, Queued, InHand, Idle, Ending
  <2>3. Tail(responses) = <<>>
    BY <2>2, ShortQueues DEF Answer
  <2> QED
    BY <1>1, <2>1, <2>2, <2>3 DEF Answer, NoneQueued
<1>7. CASE PollError
  <2>1. Idle'
    BY <1>2, <1>6, <1>7 DEF PollError, Answer, Idle, NoneQueued, TreeIsTrue
  <2>2. ~ busy' /\ window' # "gone"
    BY <1>6, <1>7 DEF PollError
  <2> QED
    BY <1>2, <2>1, <2>2 DEF OneRequestInv
<1>8. CASE PollTree
  <2>1. Idle'
    BY <1>2, <1>6, <1>8 DEF PollTree, Answer, Idle, NoneQueued, TreeIsTrue
  <2>2. ~ busy' /\ window' # "gone"
    BY <1>6, <1>8 DEF PollTree
  <2> QED
    BY <1>2, <2>1, <2>2 DEF OneRequestInv
<1>9. CASE PollBatch
  <2>1. \E r \in UserRequest : requests' = Append(requests, r) /\ r.kind # "open"
    BY <1>9, UserKinds DEF PollBatch, Statements
  <2>2. \E r \in UserRequest :
            requests' = <<r>> /\ requests' # <<>> /\ r.kind # "open"
    BY <1>6, <1>9, <2>1, ShortQueues DEF PollBatch
  <2>3. Queued' /\ ~ Idle'
    BY <1>6, <1>9, <2>2 DEF PollBatch, Queued, Idle, NoneQueued
  <2>4. busy' /\ window' # "gone"
    BY <1>6, <1>9 DEF PollBatch
  <2> QED
    BY <1>2, <2>3, <2>4 DEF OneRequestInv
<1>10. CASE CloseWindow
  <2>1. /\ window = "open" /\ window' = "closing" /\ responses' = responses
        /\ requests' = Append(requests, CloseAll) /\ request' = request
    BY <1>10 DEF CloseWindow
  <2>2. ~ Ending
    BY <2>1 DEF Ending
  <2>5. window' # "open" /\ window' # "gone"
    BY <2>1
  <2>3. CASE Queued
    <3>1. PICK r \in UserRequest : requests = <<r>> /\ (worker # "ready" => r = Schema)
      BY <2>1, <2>3 DEF Queued
    <3>2. requests' = <<r, CloseAll>>
      BY <2>1, <3>1, ShortQueues
    <3>3. Queued'
      BY <1>1, <2>1, <2>3, <3>1, <3>2 DEF Queued, TreeIsTrue
    <3> QED
      BY <1>2, <2>5, <3>3 DEF OneRequestInv
  <2>4. CASE InHand \/ Answer \/ Idle
    <3>1. requests = <<>>
      BY <2>1, <2>4 DEF InHand, Answer, Idle, NoneQueued
    <3>2. NoneQueued'
      BY <2>1, <3>1, ShortQueues DEF NoneQueued
    <3>3. InHand' \/ Answer' \/ Idle'
      BY <1>1, <1>2, <2>1, <2>4, <3>2 DEF InHand, Answer, Idle, TreeIsTrue
    <3> QED
      BY <1>2, <2>5, <3>3 DEF OneRequestInv
  <2> QED
    BY <2>2, <2>3, <2>4 DEF OneRequestInv
<1>11. CASE JoinReturns \/ JoinTimesOut
  <2>1. /\ window = "closing" /\ window' = "gone"
        /\ UNCHANGED <<requests, responses, worker, request, shown>>
        /\ worker' \in {"exited", "dead"} \/ "timeout" \in mishaps'
        /\ window' # "open"
    BY <1>11 DEF JoinReturns, JoinTimesOut, Destroy
  <2>2. (Queued \/ InHand \/ Answer \/ Idle \/ Ending)'
    BY <1>2, <2>1 DEF OneRequestInv, Queued, InHand, Answer, Idle, Ending,
                      NoneQueued, TreeIsTrue
  <2> QED
    BY <1>2, <2>1, <2>2 DEF OneRequestInv
<1> QED
  BY <1>2, <1>4, <1>5, <1>7, <1>8, <1>9, <1>10, <1>11 DEF Tk

LEMMA WorkerStep ==
    ASSUME TypeOK, OwnerInv, OneRequestInv, Worker, "close" \notin mishaps'
    PROVE  OwnerInv' /\ OneRequestInv'
<1> USE DEF ui, database
<1> DEFINE Phase == Queued \/ InHand \/ Answer \/ Idle \/ Ending
<1>1. window # "gone" /\ window' = window /\ busy' = busy /\ shown' = shown
  BY DEF Worker, Alive, Start, StartRaises, Take, Working, Respond, ExecuteReads,
         ExecuteUpdate, ExecuteFails, ExecuteDdl, Snapshot, OpenRaises, OpenNew, CloseOld,
         CloseOldRaises, CloseCurrent, CloseRaises
<1>2. ASSUME Phase', window = "open" => ~ Idle /\ ~ Idle'
      PROVE  OneRequestInv'
  BY <1>1, <1>2 DEF OneRequestInv
<1>3. /\ current = Len(services) /\ DOMAIN services = 1 .. Len(services)
      /\ Len(services) \in Nat
      /\ worker \notin {"starting", "dead"} =>
            /\ services # <<>>
            /\ current \in DOMAIN services /\ Here \in Dirs
  <2>1. /\ DOMAIN services = 1 .. Len(services) /\ Len(services) \in Nat
        /\ services # <<>> => Len(services) # 0
        /\ \A i \in DOMAIN services : services[i] \in Database
    BY DEF TypeOK
  <2>2. \A d \in Database : d.dir \in Dirs
    BY DEF Database
  <2> QED
    BY <2>1, <2>2 DEF OwnerInv, Here
<1>4. CASE Start
  <2>1. /\ worker = "starting" /\ worker' = "ready"
        /\ services' = <<Service(FirstDir)>> /\ current' = 1
        /\ UNCHANGED <<requests, responses, request>>
    BY <1>4 DEF Start
  <2>2. OwnerInv'
    <3>1. /\ Len(services') = 1 /\ DOMAIN services' = {1} /\ services' # <<>>
          /\ services'[1].open /\ ~ services'[1].unsaved
      BY <2>1 DEF Service
    <3> QED
      BY <2>1, <3>1 DEF OwnerInv
  <2>3. Queued /\ ~ Idle
    BY <2>1 DEF OneRequestInv, Queued, InHand, Answer, Idle, Ending
  <2>4. Queued'
    BY <1>1, <2>1, <2>3, UserKinds DEF Queued
  <2>5. window = "open" => requests' # <<>>
    BY <2>1, <2>3, ShortQueues DEF Queued
  <2>6. window = "open" => ~ Idle'
    BY <1>1, <2>5 DEF Idle, NoneQueued
  <2> QED
    BY <1>2, <2>2, <2>3, <2>4, <2>6
<1>5. CASE StartRaises
  <2>1. /\ worker = "starting" /\ worker' = "dead" /\ UNCHANGED database
        /\ UNCHANGED <<requests, responses, request>>
    BY <1>5 DEF StartRaises
  <2>2. OwnerInv'
    BY <2>1 DEF OwnerInv
  <2>3. Queued /\ ~ Idle
    BY <2>1 DEF OneRequestInv, Queued, InHand, Answer, Idle, Ending
  <2>4. Queued' /\ ~ Idle'
    BY <1>1, <2>1, <2>3, UserKinds DEF Queued, Idle
  <2> QED
    BY <1>2, <2>2, <2>3, <2>4
<1>6. CASE Take
  <2>1. /\ worker = "ready" /\ worker' = "working" /\ requests # <<>>
        /\ request' = Head(requests) /\ requests' = Tail(requests)
        /\ UNCHANGED <<responses, database>>
    BY <1>6 DEF Take
  <2>2. OwnerInv'
    BY <2>1 DEF OwnerInv
  <2>3. ~ Idle'
    BY <2>1 DEF Idle
  <2>4. CASE Queued
    <3>1. PICK r \in UserRequest :
              /\ requests = IF window = "open" THEN <<r>> ELSE <<r, CloseAll>>
              /\ r.kind = "open" => TreeIsTrue
      BY <2>4 DEF Queued
    <3>2. request' = r /\ NoneQueued'
      BY <1>1, <2>1, <3>1, ShortQueues DEF NoneQueued
    <3>3. TreeIsTrue => TreeIsTrue'
      BY <1>1, <2>1 DEF TreeIsTrue, TreeOf, Here
    <3>4. InHand'
      BY <2>1, <2>4, <3>1, <3>2, <3>3 DEF InHand, Queued
    <3>5. window = "open" => ~ Idle
      BY <2>1 DEF Idle, NoneQueued
    <3> QED
      BY <1>2, <2>2, <2>3, <3>4, <3>5
  <2>5. CASE ~ Queued
    <3>1. window # "open" /\ requests = <<CloseAll>>
      BY <2>1, <2>5
         DEF OneRequestInv, InHand, Answer, Idle, Ending, NoneQueued
    <3>2. request' = CloseAll /\ requests' = <<>>
      BY <2>1, <3>1, ShortQueues
    <3>3. Ending'
      BY <1>1, <2>1, <3>1, <3>2 DEF Ending
    <3> QED
      BY <1>2, <2>2, <3>1, <3>3
  <2> QED
    BY <2>4, <2>5
<1>7. ASSUME NEW arg, NEW tree, NEW ok, Respond(arg, tree, ok),
             worker \in {"working", "switching"}, request.kind # "close",
             Here' = Here,
             IF ok THEN request.kind # "execute" => tree = TreeOf(Here)'
                   ELSE TreeIsTrue'
      PROVE  OneRequestInv'
  <2>1. InHand
    BY <1>7, UserKinds DEF OneRequestInv, Queued, InHand, Answer, Idle, Ending
  <2> DEFINE a == Response(request.kind, arg, tree, ok)
  <2>2. responses' = <<a>> /\ responses' # <<>> /\ Head(responses') = a
    BY <1>7, <2>1, ShortQueues DEF Respond, InHand
  <2>3. a.kind = request.kind /\ a.tree = tree /\ a.ok = ok
    BY DEF Response
  <2>4. request.kind \in {"execute", "schema", "open"}
    BY <2>1, UserKinds DEF InHand
  <2>5. worker' = "ready" /\ requests' = requests
    BY <1>7 DEF Respond
  <2>6. NoneQueued'
    BY <1>1, <2>1, <2>5 DEF InHand, NoneQueued
  <2> HIDE DEF a
  <2>7. Answer'
    BY <1>7, <2>2, <2>3, <2>4, <2>5, <2>6 DEF Answer
  <2>8. ~ Idle /\ ~ Idle'
    BY <2>1, <2>2 DEF Idle, InHand
  <2> QED
    BY <1>2, <2>7, <2>8
<1>8. ASSUME worker \in {"working", "switching"}, worker' = "ready",
             UNCHANGED database, worker = "working"
      PROVE  OwnerInv' /\ Here' = Here /\ TreeOf(Here)' = TreeOf(Here)
  BY <1>8 DEF OwnerInv, Here, TreeOf
<1>9. CASE ExecuteReads
  <2>1. PICK outcome : Respond(outcome, Nothing, TRUE)
    BY <1>9 DEF ExecuteReads
  <2>2. worker = "working" /\ worker' = "ready" /\ UNCHANGED database
        /\ request.kind = "execute"
    BY <1>9, <2>1 DEF ExecuteReads, Working, Respond
  <2> QED
    BY <1>7, <1>8, <2>1, <2>2
<1>10. CASE ExecuteUpdate \/ ExecuteFails \/ ExecuteDdl
  <2>1. /\ worker = "working" /\ worker' = "ready" /\ request.kind = "execute"
        /\ current' = current
        /\ \E arg : Respond(arg, Nothing, TRUE)
        /\ \E b \in BOOLEAN : services' = [services EXCEPT ![current].unsaved = b]
    BY <1>10 DEF ExecuteUpdate, ExecuteFails, Unsaved, ExecuteDdl, Working, Respond
  <2>2. PICK b \in BOOLEAN : services' = [services EXCEPT ![current].unsaved = b]
    BY <2>1
  <2>3. /\ Len(services') = Len(services) /\ DOMAIN services' = DOMAIN services
        /\ services'[current].dir = services[current].dir
        /\ services'[current].open = services[current].open
        /\ \A j \in DOMAIN services \ {current} : services'[j] = services[j]
    BY <1>3, <2>1, <2>2, Written DEF TypeOK
  <2>4. services[current].open
    BY <1>3, <2>1 DEF OwnerInv
  <2>5. services' # <<>>
    BY <1>3, <2>1, <2>3
  <2>6. OwnerInv'
    BY <1>3, <2>1, <2>3, <2>4, <2>5 DEF OwnerInv
  <2>7. Here' = Here
    BY <2>1, <2>3 DEF Here
  <2> QED
    BY <1>7, <2>1, <2>6, <2>7
<1>11. CASE Snapshot
  <2>1. worker = "working" /\ worker' = "ready" /\ UNCHANGED database
        /\ request.kind = "schema" /\ Respond("", TreeOf(Here), TRUE)
    BY <1>11 DEF Snapshot, Working, Respond
  <2> QED
    BY <1>7, <1>8, <2>1
<1>12. CASE OpenRaises
  <2>1. worker = "working" /\ worker' = "ready" /\ UNCHANGED database
        /\ request.kind = "open" /\ Respond("", Nothing, FALSE)
    BY <1>12 DEF OpenRaises, Working, Respond
  <2>2. InHand
    BY <2>1, UserKinds DEF OneRequestInv, Queued, InHand, Answer, Idle, Ending
  <2>3. TreeIsTrue'
    BY <1>1, <1>8, <2>1, <2>2 DEF InHand, TreeIsTrue
  <2> QED
    BY <1>7, <1>8, <2>1, <2>3
<1>13. CASE OpenNew
  <2>1. /\ worker = "working" /\ worker' = "switching" /\ request.kind = "open"
        /\ services' = Append(services, Service(request.arg))
        /\ request.arg \in Dirs
        /\ current' = Len(services) + 1
        /\ UNCHANGED <<requests, responses, request>>
    BY <1>13 DEF OpenNew, Working
  <2>2. /\ Len(services') = Len(services) + 1
        /\ DOMAIN services' = 1 .. Len(services) + 1
        /\ services'[Len(services) + 1] = Service(request.arg)
        /\ \A i \in DOMAIN services : services'[i] = services[i]
    <3>1. Service(request.arg) \in Database
      BY <2>1 DEF Service, Database
    <3> QED
      BY <1>3, <2>1, <3>1, AppendProperties DEF TypeOK
  <2>3. Len(services) # 0
    BY <1>3, <2>1
  <2>4. OwnerInv'
    <3>1. services' # <<>> /\ current' > 1
      BY <1>3, <2>1, <2>2, <2>3
    <3>2. ASSUME NEW i \in DOMAIN services'
          PROVE  /\ services'[i].open <=> i = current' \/ i = current' - 1
                 /\ services'[i].unsaved => services'[i].open
      <4>1. CASE i = current'
        BY <2>1, <2>2, <4>1 DEF Service
      <4>2. CASE i # current'
        <5>1. i \in DOMAIN services /\ services'[i] = services[i]
          BY <1>3, <2>1, <2>2, <4>2
        <5>2. services[i].open <=> i = current
          BY <2>1, <5>1 DEF OwnerInv
        <5>3. services[i].unsaved => services[i].open
          BY <5>1 DEF OwnerInv
        <5> QED
          BY <1>3, <2>1, <4>2, <5>1, <5>2, <5>3
      <4> QED
        BY <4>1, <4>2
    <3> QED
      BY <2>1, <2>2, <3>1, <3>2 DEF OwnerInv
  <2>5. InHand
    BY <2>1, UserKinds DEF OneRequestInv, Queued, InHand, Answer, Idle, Ending
  <2>6. InHand'
    BY <1>1, <2>1, <2>5 DEF InHand, NoneQueued
  <2>7. ~ Idle /\ ~ Idle'
    BY <2>1 DEF Idle
  <2> QED
    BY <1>2, <2>4, <2>6, <2>7
<1>14. CASE CloseOld
  <2>1. /\ worker = "switching" /\ worker' = "ready"
        /\ services' = Closed(current - 1)
        /\ current' = current /\ version' = version
        /\ Respond("", TreeOf(Here), TRUE)
    BY <1>14 DEF CloseOld, Respond
  <2>2. /\ current \in Nat /\ current > 1 /\ current - 1 # current
        /\ current \in DOMAIN services /\ current - 1 \in DOMAIN services
    <3>1. current \in Nat /\ current > 1
      BY <1>3, <2>1 DEF OwnerInv
    <3> QED
      BY <1>3, <3>1
  <2>3. /\ Len(services') = Len(services) /\ DOMAIN services' = DOMAIN services
        /\ ~ services'[current - 1].open /\ ~ services'[current - 1].unsaved
        /\ \A j \in DOMAIN services \ {current - 1} : services'[j] = services[j]
    BY <2>1, <2>2, ClosedOne DEF TypeOK
  <2>4. Here' = Here
    BY <2>1, <2>2, <2>3 DEF Here
  <2>5. OwnerInv'
    <3>1. services' # <<>>
      BY <1>3, <2>2, <2>3
    <3>2. ASSUME NEW i \in DOMAIN services'
          PROVE  /\ services'[i].open <=> i = current'
                 /\ services'[i].unsaved => services'[i].open
      <4>1. CASE i = current - 1
        BY <2>1, <2>2, <2>3, <4>1
      <4>2. CASE i # current - 1
        <5>1. i \in DOMAIN services /\ services'[i] = services[i]
          BY <2>3, <4>2
        <5>2. services[i].open <=> i = current
          BY <2>1, <4>2, <5>1 DEF OwnerInv
        <5>3. services[i].unsaved => services[i].open
          BY <5>1 DEF OwnerInv
        <5> QED
          BY <2>1, <5>1, <5>2, <5>3
      <4> QED
        BY <4>1, <4>2
    <3> QED
      BY <1>3, <2>1, <2>3, <3>1, <3>2 DEF OwnerInv
  <2>6. request.kind = "open"
    BY <2>1 DEF OneRequestInv, Queued, InHand, Answer, Idle, Ending
  <2>7. TreeOf(Here)' = TreeOf(Here)
    BY <2>1, <2>4, SameTree
  <2> QED
    BY <1>7, <2>1, <2>4, <2>5, <2>6, <2>7
<1>15. CASE CloseCurrent
  <2>1. /\ worker = "working" /\ worker' = "exited" /\ request.kind = "close"
        /\ services' = Closed(current) /\ current' = current
        /\ UNCHANGED <<requests, responses, request>>
    BY <1>15 DEF CloseCurrent, Working
  <2>2. /\ Len(services') = Len(services) /\ DOMAIN services' = DOMAIN services
        /\ ~ services'[current].open /\ ~ services'[current].unsaved
        /\ \A j \in DOMAIN services \ {current} : services'[j] = services[j]
    BY <1>3, <2>1, ClosedOne DEF TypeOK
  <2>3. OwnerInv'
    <3>1. services' # <<>>
      BY <1>3, <2>1, <2>2
    <3>2. ASSUME NEW i \in DOMAIN services'
          PROVE  ~ services'[i].open /\ ~ services'[i].unsaved
      <4>1. CASE i = current
        BY <2>2, <4>1
      <4>2. CASE i # current
        <5>1. i \in DOMAIN services /\ services'[i] = services[i]
          BY <2>2, <4>2
        <5>2. ~ services[i].open
          BY <2>1, <4>2, <5>1 DEF OwnerInv
        <5>3. services[i].unsaved => services[i].open
          BY <5>1 DEF OwnerInv
        <5> QED
          BY <5>1, <5>2, <5>3
      <4> QED
        BY <4>1, <4>2
    <3> QED
      BY <1>3, <2>1, <2>2, <3>1, <3>2 DEF OwnerInv
  <2>4. Ending
    BY <2>1, UserKinds DEF OneRequestInv, Queued, InHand, Answer, Idle, Ending
  <2>5. Ending' /\ window # "open"
    BY <1>1, <2>1, <2>4 DEF Ending
  <2> QED
    BY <1>2, <2>3, <2>5
<1>16. ~ CloseOldRaises /\ ~ CloseRaises
  BY DEF CloseOldRaises, CloseRaises
<1> QED
  BY <1>4, <1>5, <1>6, <1>9, <1>10, <1>11, <1>12, <1>13, <1>14, <1>15, <1>16
     DEF Worker

-----------------------------------------------------------------------------
(* WorkerInvariant: the inductive invariant of the two threads.            *)
THEOREM WorkerInvariant == Spec => []WorkerInv
<1>1. Init => WorkerInv
  BY InitInv
<1>2. WorkerInv /\ [Next]_vars => WorkerInv'
  <2> SUFFICES ASSUME WorkerInv, [Next]_vars
               PROVE  WorkerInv'
    OBVIOUS
  <2>1. TypeOK /\ TypeOK'
    BY TypeStep DEF WorkerInv
  <2>2. ASSUME "close" \notin mishaps'
        PROVE  OwnerInv' /\ OneRequestInv'
    <3>1. mishaps \subseteq mishaps'
      BY DEF Next, Tk, Worker, vars, Click, UpdateRow, Polled, PollError, PollTree,
             PollBatch, CloseWindow, JoinReturns, JoinTimesOut, Start, StartRaises,
             Take, ExecuteReads, ExecuteUpdate, ExecuteFails, ExecuteDdl, Snapshot, OpenRaises,
             OpenNew, CloseOld, CloseOldRaises, CloseCurrent, CloseRaises
    <3>2. OwnerInv /\ OneRequestInv
      BY <2>2, <3>1 DEF WorkerInv
    <3>3. CASE UNCHANGED vars
      BY <3>2, <3>3
         DEF vars, ui, database, OwnerInv, OneRequestInv, Queued, InHand, Answer,
             Idle, Ending, NoneQueued, TreeIsTrue, TreeOf, Here
    <3> QED
      BY <2>1, <2>2, <3>2, <3>3, TkStep, WorkerStep DEF Next
  <2> QED
    BY <2>1, <2>2 DEF WorkerInv
<1> QED
  BY <1>1, <1>2, PTL DEF Spec

(* OneDatabaseIsOpen: unless a close() has raised, the worker has between  *)
(* requests one open database, the one it uses.                            *)
THEOREM OneDatabaseIsOpen == Spec => []SingleOwner
<1>1. WorkerInv => SingleOwner
  BY DEF WorkerInv, OwnerInv, SingleOwner
<1> QED
  BY <1>1, WorkerInvariant, PTL

(* IdleTreeIsTrue: unless a close() has raised, an idle client shows the   *)
(* directory in use and its tables as they are.                            *)
THEOREM IdleTreeIsTrue == Spec => []TreeIsCurrent
<1>1. WorkerInv => TreeIsCurrent
  BY DEF WorkerInv, OneRequestInv, Idle, TreeIsTrue, TreeIsCurrent
<1> QED
  BY <1>1, WorkerInvariant, PTL

(* NothingIsLost: when the window is gone after the worker came to its end *)
(* and no close() raised, no database has changes only in its pool.        *)
THEOREM NothingIsLost == Spec => []OrderlyEndLosesNothing
<1>1. WorkerInv => OrderlyEndLosesNothing
  <2> SUFFICES ASSUME WorkerInv, mishaps \subseteq {"start"}, window = "gone",
                      NEW i \in DOMAIN services
               PROVE  ~ services[i].unsaved
    BY DEF OrderlyEndLosesNothing, NothingLost
  <2>1. OwnerInv /\ worker \in {"exited", "dead"}
    BY DEF WorkerInv, OneRequestInv
  <2>2. worker = "dead" => services = <<>>
    BY <2>1 DEF OwnerInv
  <2>3. worker = "exited" => ~ services[i].open
    BY <2>1 DEF OwnerInv
  <2> QED
    BY <2>1, <2>2, <2>3 DEF OwnerInv
<1> QED
  BY <1>1, WorkerInvariant, PTL
=============================================================================
