------------------------------ MODULE GuiWorker ------------------------------
(***************************************************************************)
(* The desktop client: gui/app.py (the Tk thread), gui/controller.py (its  *)
(* busy flag) and gui/worker.py (the thread that owns the database), with  *)
(* the request and the response queue between the two threads.             *)
(*                                                                         *)
(* A Tk callback is one step, since no other callback runs in the middle   *)
(* of it; a request is taken and answered in separate steps.  Of a         *)
(* database the model keeps the directory, whether it is open, whether it  *)
(* has changes that are only in its pool, and how often its tables have    *)
(* been created or dropped, which is what the object tree shows.           *)
(***************************************************************************)
EXTENDS Integers, Sequences

CONSTANTS
    Dirs, FirstDir,     \* directories that can be opened; the one at start-up
    BadDirs,            \* directories that cannot
    MaxServices,        \* bound on the databases opened
    MaxVersion          \* bound on the DDL statements per directory

ASSUME GuiAssumption ==
    /\ FirstDir \in Dirs
    /\ Dirs \cap BadDirs = {}
    /\ MaxServices \in Nat \ {0}
    /\ MaxVersion \in Nat

VARIABLES
    window,     \* "open", "closing" (in the worker's join) or "gone"
    busy,       \* controller.busy
    refresh,    \* app._refresh_table_after_write is set
    shown,      \* the object tree: a directory and a version of its tables
    requests, responses,
    worker,     \* "starting", "ready", "working", "switching", or ended:
                \* "exited" or "dead"
    request,    \* the request in the worker's hands
    services,   \* every database opened so far, in order
    current,    \* which of them is the worker's `service`
    version,    \* directory -> version of its tables
    mishaps     \* history: what has gone wrong: "start", "close", "timeout"

ui == <<window, busy, refresh, shown>>
database == <<services, current, version>>
vars == <<ui, requests, responses, worker, request, database, mishaps>>

Request(kind, arg) == [kind |-> kind, arg |-> arg]
Run(statement) == Request("execute", statement)
Schema == Request("schema", "")
OpenDir(dir) == Request("open", dir)
CloseAll == Request("close", "")

(* A batch is what its statement is: UPDATE stands for any that changes    *)
(* rows, DDL for CREATE and DROP TABLE, which write every pool out.        *)
Statements == {"select", "update", "ddl"}

Nothing == [dir |-> "", version |-> 0]
Response(kind, arg, tree, ok) ==
    [kind |-> kind, arg |-> arg, tree |-> tree, ok |-> ok]

Service(dir) == [dir |-> dir, open |-> TRUE, unsaved |-> FALSE]
TreeOf(dir) == [dir |-> dir, version |-> version[dir]]

(* MiniSQLApp's constructor starts the worker and asks for the tables.     *)
Init ==
    /\ window = "open"
    /\ busy = TRUE
    /\ refresh = FALSE
    /\ shown = Nothing
    /\ requests = <<Schema>>
    /\ responses = <<>>
    /\ worker = "starting"
    /\ request = Schema
    /\ services = <<>>
    /\ current = 0
    /\ version = [d \in Dirs |-> 0]
    /\ mishaps = {}

-----------------------------------------------------------------------------
(* The Tk thread.                                                          *)

(* controller._submit                                                      *)
Submit(r) ==
    /\ ~ busy
    /\ busy' = TRUE
    /\ requests' = Append(requests, r)

Clickable ==
    {Run(s) : s \in Statements} \cup {Schema}
    \cup (IF Len(services) < MaxServices
          THEN {OpenDir(d) : d \in Dirs \cup BadDirs} ELSE {})

Click(r) ==
    /\ window = "open"
    /\ Submit(r)
    /\ UNCHANGED <<window, refresh, shown, responses, worker, request,
                   database, mishaps>>

(* update_row needs a row of a table opened from the tree; it sets the     *)
(* flag whether or not the request is then accepted.                       *)
UpdateRow ==
    /\ window = "open"
    /\ shown # Nothing
    /\ refresh' = TRUE
    /\ IF busy THEN UNCHANGED <<busy, requests>> ELSE Submit(Run("update"))
    /\ UNCHANGED <<window, shown, responses, worker, request, database,
                   mishaps>>

(* _poll, for each kind of response.                                       *)
Polled ==
    /\ window = "open"
    /\ responses # <<>>
    /\ responses' = Tail(responses)
    /\ UNCHANGED <<window, worker, request, database, mishaps>>

(* Faulty variant: an error leaves the client busy.                        *)
PollErrorStaysBusy ==
    /\ Polled
    /\ ~ Head(responses).ok
    /\ UNCHANGED <<busy, refresh, shown, requests>>

PollError ==
    /\ Polled
    /\ ~ Head(responses).ok
    /\ busy' = FALSE
    /\ UNCHANGED <<refresh, shown, requests>>

(* Faulty variant: only a refresh redraws the tree, not a switch.          *)
PollTreeOnRefreshOnly ==
    /\ Polled
    /\ Head(responses).ok
    /\ Head(responses).kind \in {"schema", "open"}
    /\ shown' = IF Head(responses).kind = "schema"
                THEN Head(responses).tree ELSE shown
    /\ busy' = FALSE
    /\ UNCHANGED <<refresh, requests>>

PollTree ==
    /\ Polled
    /\ Head(responses).ok
    /\ Head(responses).kind \in {"schema", "open"}
    /\ shown' = Head(responses).tree
    /\ busy' = FALSE
    /\ UNCHANGED <<refresh, requests>>

(* Faulty variant: the tables are not asked for again after a batch.       *)
PollBatchOnly ==
    /\ Polled
    /\ Head(responses).ok
    /\ Head(responses).kind = "execute"
    /\ busy' = FALSE
    /\ UNCHANGED <<refresh, shown, requests>>

(* After a batch the tables are asked for again; after an UPDATE of the    *)
(* grid, the table's rows (and then, when these are here, the tables).     *)
PollBatch ==
    /\ Polled
    /\ Head(responses).ok
    /\ Head(responses).kind = "execute"
    /\ busy' = TRUE
    /\ IF refresh /\ Head(responses).arg = "update"
       THEN refresh' = FALSE /\ requests' = Append(requests, Run("select"))
       ELSE refresh' = refresh /\ requests' = Append(requests, Schema)
    /\ UNCHANGED shown

(* app.close: the Tk thread waits in join, for five seconds at most.       *)
CloseWindow ==
    /\ window = "open"
    /\ window' = "closing"
    /\ requests' = Append(requests, CloseAll)
    /\ UNCHANGED <<busy, refresh, shown, responses, worker, request, database,
                   mishaps>>

Destroy ==
    /\ window' = "gone"
    /\ busy' = FALSE
    /\ UNCHANGED <<refresh, shown, requests, responses, worker, request,
                   database>>

JoinReturns ==
    /\ window = "closing"
    /\ worker \in {"exited", "dead"}
    /\ Destroy
    /\ UNCHANGED mishaps

(* Faulty variant: join without a timeout.                                 *)
JoinWaitsForEver == FALSE /\ Destroy /\ UNCHANGED mishaps

(* The worker is busy for longer than that, or waits for requests after a  *)
(* close() that raised.  A daemon thread, it ends with the process.        *)
JoinTimesOut ==
    /\ window = "closing"
    /\ worker \notin {"exited", "dead"}
    /\ worker = "ready" => requests = <<>>
    /\ mishaps' = mishaps \cup {"timeout"}
    /\ Destroy

-----------------------------------------------------------------------------
(* The worker thread.                                                      *)
Alive == window # "gone"

Start ==
    /\ Alive
    /\ worker = "starting"
    /\ services' = <<Service(FirstDir)>>
    /\ current' = 1
    /\ worker' = "ready"
    /\ UNCHANGED <<ui, requests, responses, request, version, mishaps>>

(* The factory raises outside the loop's try: the thread ends.             *)
StartRaises ==
    /\ Alive
    /\ worker = "starting"
    /\ worker' = "dead"
    /\ mishaps' = mishaps \cup {"start"}
    /\ UNCHANGED <<ui, requests, responses, request, database>>

Take ==
    /\ Alive
    /\ worker = "ready"
    /\ requests # <<>>
    /\ request' = Head(requests)
    /\ requests' = Tail(requests)
    /\ worker' = "working"
    /\ UNCHANGED <<ui, responses, database, mishaps>>

Working(kind) ==
    /\ Alive
    /\ worker = "working"
    /\ request.kind = kind

Respond(arg, tree, ok) ==
    /\ responses' = Append(responses, Response(request.kind, arg, tree, ok))
    /\ worker' = "ready"
    /\ UNCHANGED <<ui, requests, request>>

Here == services[current].dir

(* DatabaseService.execute never raises: an error is part of the batch.    *)
(* One that changes nothing: a SELECT, or an error found before any page   *)
(* was changed.                                                            *)
ExecuteReads ==
    /\ Working("execute")
    /\ \E outcome \in {"select", "error"} : Respond(outcome, Nothing, TRUE)
    /\ UNCHANGED <<database, mishaps>>

(* Pages have been changed and are not written out.                        *)
Unsaved == services' = [services EXCEPT ![current].unsaved = TRUE]

(* The last result is an UPDATE's, whether or not a statement after it in  *)
(* the batch fails.                                                        *)
ExecuteUpdate ==
    /\ Working("execute")
    /\ request.arg = "update"
    /\ Unsaved
    /\ Respond("update", Nothing, TRUE)
    /\ UNCHANGED <<current, version, mishaps>>

(* An UPDATE or DELETE that fails on a later page has changed those before *)
(* it, a CREATE or DROP whose flush fails some of the catalog's: the batch *)
(* has an error and no result.                                             *)
ExecuteFails ==
    /\ Working("execute")
    /\ request.arg \in {"update", "ddl"}
    /\ Unsaved
    /\ Respond("error", Nothing, TRUE)
    /\ UNCHANGED <<current, version, mishaps>>

(* The error: the data file of a dropped table could not be removed.       *)
ExecuteDdl ==
    /\ Working("execute")
    /\ request.arg = "ddl"
    /\ version[Here] < MaxVersion
    /\ services' = [services EXCEPT ![current].unsaved = FALSE]
    /\ version' = [version EXCEPT ![Here] = @ + 1]
    /\ \E outcome \in {"ddl", "error"} : Respond(outcome, Nothing, TRUE)
    /\ UNCHANGED <<current, mishaps>>

Snapshot ==
    /\ Working("schema")
    /\ Respond("", TreeOf(Here), TRUE)
    /\ UNCHANGED <<database, mishaps>>

OpenRaises ==
    /\ Working("open")
    /\ request.arg \in BadDirs
    /\ Respond("", Nothing, FALSE)
    /\ UNCHANGED <<database, mishaps>>

(* The new database is opened, and in its place, before the old is closed. *)
OpenNew ==
    /\ Working("open")
    /\ request.arg \in Dirs
    /\ services' = Append(services, Service(request.arg))
    /\ current' = Len(services) + 1
    /\ worker' = "switching"
    /\ UNCHANGED <<ui, requests, responses, request, version, mishaps>>

(* Faulty variant: the file is closed without a flush.                     *)
ClosedUnflushed(i) == [services EXCEPT ![i].open = FALSE]

Closed(i) ==
    [services EXCEPT ![i].open = FALSE, ![i].unsaved = FALSE]

(* Faulty variant: the old database is dropped without closing it.         *)
CloseOldForgotten ==
    /\ Alive
    /\ worker = "switching"
    /\ UNCHANGED <<database, mishaps>>
    /\ Respond("", TreeOf(Here), TRUE)

CloseOld ==
    /\ Alive
    /\ worker = "switching"
    /\ services' = Closed(current - 1)
    /\ UNCHANGED <<current, version, mishaps>>
    /\ Respond("", TreeOf(Here), TRUE)

CloseOldRaises ==
    /\ Alive
    /\ worker = "switching"
    /\ mishaps' = mishaps \cup {"close"}
    /\ Respond("", Nothing, FALSE)
    /\ UNCHANGED database

CloseCurrent ==
    /\ Working("close")
    /\ services' = Closed(current)
    /\ worker' = "exited"
    /\ UNCHANGED <<ui, requests, responses, request, current, version,
                   mishaps>>

(* close() raises inside the try: an answer nobody reads, and on.          *)
CloseRaises ==
    /\ Working("close")
    /\ mishaps' = mishaps \cup {"close"}
    /\ Respond("", Nothing, FALSE)
    /\ UNCHANGED database

Tk ==
    \/ \E r \in Clickable : Click(r)
    \/ UpdateRow
    \/ PollError \/ PollTree \/ PollBatch
    \/ CloseWindow \/ JoinReturns \/ JoinTimesOut

Worker ==
    \/ Start \/ StartRaises
    \/ Take
    \/ ExecuteReads \/ ExecuteUpdate \/ ExecuteFails \/ ExecuteDdl
    \/ Snapshot
    \/ OpenRaises \/ OpenNew \/ CloseOld \/ CloseOldRaises
    \/ CloseCurrent \/ CloseRaises

Next == Tk \/ Worker

(* The worker thread runs, the Tk loop polls every 80 ms, and join returns *)
(* or times out.  The user need not click, nor ever close the window.      *)
Fairness ==
    /\ WF_vars(Worker)
    /\ WF_vars(PollError \/ PollTree \/ PollBatch)
    /\ WF_vars(JoinReturns \/ JoinTimesOut)

Spec == Init /\ [][Next]_vars /\ Fairness

-----------------------------------------------------------------------------
(* SingleOwner: unless a close() has raised, there is between requests one *)
(* open database, the one the worker uses: a switch leaves no second one   *)
(* open on some directory.                                                 *)
SingleOwner ==
    worker = "ready" /\ "close" \notin mishaps =>
        \A i \in DOMAIN services : services[i].open <=> i = current

(* TreeIsCurrent: unless a close() has raised, the object tree of an idle  *)
(* client shows the directory in use and its tables as they are, whatever  *)
(* has been executed and switched to.                                      *)
TreeIsCurrent ==
    window = "open" /\ ~ busy /\ "close" \notin mishaps
        => shown = TreeOf(Here)

(* NothingLost: when the window is gone, no database has changes that are  *)
(* only in its pool (the design's section 6: wait for dirty pages to be    *)
(* written back before the window is destroyed).                           *)
NothingLost ==
    window = "gone" => \A i \in DOMAIN services : ~ services[i].unsaved

(* OrderlyEndLosesNothing: so it is when the worker came to its end and no *)
(* close() raised, however clicks, switches and the closing interleave.    *)
OrderlyEndLosesNothing == mishaps \subseteq {"start"} => NothingLost

(* Answered: an accepted request is answered some time, and the client     *)
(* does not stay busy for ever and refuse every click; unless the database *)
(* did not open at start-up, whose exception ends the worker thread.       *)
Answered == busy ~> (~ busy \/ worker = "dead")

(* TreeCatchesUp: after a change of directory or of its tables, the tree   *)
(* shows it some time, unless the window is closed or a close() raises.    *)
TreeIsStale == current > 0 /\ shown # TreeOf(Here)
TreeCatchesUp ==
    TreeIsStale ~> (window # "open" \/ ~ TreeIsStale \/ "close" \in mishaps)

(* CloseEnds: closing the window destroys it, also when the worker is not  *)
(* done in time or, because its close() raised, never ends.                *)
CloseEnds == window = "closing" ~> window = "gone"
=============================================================================
