------------------------------ MODULE Session ------------------------------
(***************************************************************************)
(* From the text a user enters to the statements that run: the command     *)
(* line (cli/main.py), MiniDB.execute (engine/minidb.py) and the client's  *)
(* service (gui/service.py).  What they make of a text is a parameter      *)
(* here: FrontEnd has the lexer and the parser.                            *)
(*                                                                         *)
(* In mode "repl" the lines are typed one by one; in mode "call" they are  *)
(* the lines of a script, executed as one text; in mode "compile" they are *)
(* one text that is only compiled (sql_compiler/demo.py), against a        *)
(* catalog of its own; in mode "gui" each is the text of a console.        *)
(*                                                                         *)
(* Of the database the model has the table names.  Whether a statement on  *)
(* a table that is there succeeds is left open: it may, it may raise an    *)
(* error of MiniSQL's, or another exception.                               *)
(***************************************************************************)
EXTENDS Naturals, Sequences, FiniteSetsExt

CONSTANTS
    Inputs,      \* the texts: records of a mode, lines, and what was meant
    Joined(_),   \* lines -> their text
    Blank(_),    \* is there nothing in a text?
    Complete(_), \* does a text end with a statement's semicolon?
    Exit(_),     \* is it "exit;"?
    Compiled(_), \* text -> what the lexer and the parser make of it
    Depth(_),    \* statement -> the depth of its tree
    MaxDepth     \* the deepest tree the analyser's recursion can descend

VARIABLES
    input,      \* mode, lines, and what is meant where that is known: the
                \* statement, and the verdict of the parser
    phase,      \* "reading", "parsed", "running" or "closed"
    read,       \* how many lines have been read
    pending,    \* the lines of the statement being typed
    batch,      \* the statements of a batch that have yet to run
    results,    \* the statements of it that have run
    tables,     \* the tables of the catalog
    sent,       \* history: the texts handed over for execution
    parsed,     \* history: what the lexer and the parser made of each
    log,        \* history: the statements, the batch of each and how it ended
    shown       \* history: the places in log of the results shown

vars == <<input, phase, read, pending, batch, results, tables,
          sent, parsed, log, shown>>

CATALOG_TABLE == "__catalog__"

(* A tree, the parser's list of statements; or what was raised.            *)
Grammatical(result) == result.verdict = "ok"

(* Whatever is made of the user's lines ends in one of three ways, and a
   tree has its statements in a list. *)
TextsOf(in) ==
    {Joined(lines) : lines \in UNION {[1 .. n -> Range(in.lines)] :
                                        n \in 0 .. Len(in.lines)}}
        \cup Range(in.lines)
ASSUME SessionAssumption ==
    \A in \in Inputs :
        /\ in.lines \in Seq(Range(in.lines))
        /\ \A text \in TextsOf(in) :
              LET result == Compiled(text)
              IN  /\ result.verdict \in {"ok", "error", "crash"}
                  /\ Grammatical(result) => result.kids \in Seq(Range(result.kids))

FirstTables(mode) == IF mode = "compile" THEN {} ELSE {CATALOG_TABLE}

Init ==
    /\ input \in Inputs
    /\ phase = "reading"
    /\ read = 0
    /\ pending = <<>>
    /\ batch = <<>> /\ results = {}
    /\ tables = FirstTables(input.mode)
    /\ sent = <<>> /\ parsed = <<>> /\ log = <<>> /\ shown = {}

-----------------------------------------------------------------------------
(* What is handed over.                                                    *)

(* The end of a batch that raised: the client shows what ran before and
   goes on, the REPL goes on after an error, a script stops. *)
AfterError(mode) == IF mode \in {"call", "compile"} THEN "closed" ELSE "reading"
AfterCrash(mode) == IF mode = "gui" THEN "reading" ELSE "closed"

Execute(src) ==
    /\ sent' = Append(sent, src)
    /\ parsed' = Append(parsed, Compiled(src))
    /\ phase' = "parsed"
    /\ UNCHANGED <<batch, results, tables, log, shown>>

(* A text that does not parse runs nothing. *)
StartBatch ==
    /\ phase = "parsed"
    /\ LET tree == parsed[Len(parsed)]
       IN  /\ batch' = IF Grammatical(tree) THEN tree.kids ELSE <<>>
           /\ phase' = CASE tree.verdict = "ok" -> "running"
                         [] tree.verdict = "error" -> AfterError(input.mode)
                         [] tree.verdict = "crash" -> AfterCrash(input.mode)
    /\ results' = {}
    /\ UNCHANGED <<input, read, pending, tables, sent, parsed, log, shown>>

(* The REPL: a blank line before a statement is ignored, lines are gathered
   until the statement is complete, and "exit;" ends the session. *)
ReadLine ==
    /\ phase = "reading" /\ input.mode = "repl" /\ read < Len(input.lines)
    /\ read' = read + 1
    /\ LET line == input.lines[read + 1]
           lines == Append(pending, line)
           src == Joined(lines)
           blank == pending = <<>> /\ Blank(line)
           typing == ~blank /\ ~Complete(src)
       IN  \/ /\ blank \/ typing
              /\ pending' = IF blank THEN pending ELSE lines
              /\ UNCHANGED <<phase, batch, results, tables, sent, parsed, log, shown>>
           \/ /\ ~blank /\ ~typing /\ Exit(src)
              /\ pending' = <<>> /\ phase' = "closed"
              /\ UNCHANGED <<batch, results, tables, sent, parsed, log, shown>>
           \/ /\ ~blank /\ ~typing /\ ~Exit(src)
              /\ pending' = <<>>
              /\ Execute(src)
    /\ UNCHANGED input

(* Ctrl+D: what has been typed of a statement is dropped. *)
EndOfInput ==
    /\ phase = "reading" /\ read = Len(input.lines) /\ input.mode \in {"repl", "gui"}
    /\ phase' = "closed"
    /\ UNCHANGED <<input, read, pending, batch, results, tables, sent, parsed, log, shown>>

RunScript ==
    /\ phase = "reading" /\ input.mode = "call"
    /\ read' = Len(input.lines)
    /\ Execute(Joined(input.lines))
    /\ UNCHANGED <<input, pending>>

CompileOnly ==
    /\ phase = "reading" /\ input.mode = "compile"
    /\ read' = Len(input.lines)
    /\ Execute(Joined(input.lines))
    /\ UNCHANGED <<input, pending>>

Click ==
    /\ phase = "reading" /\ input.mode = "gui" /\ read < Len(input.lines)
    /\ read' = read + 1
    /\ IF Blank(input.lines[read + 1])
         THEN UNCHANGED <<phase, batch, results, tables, sent, parsed, log, shown>>
         ELSE Execute(input.lines[read + 1])
    /\ UNCHANGED <<input, pending>>

-----------------------------------------------------------------------------
(* Running the statements of a batch.                                      *)

(* Faulty variant: the client shows the first result. *)
DisplayFirst(done) ==
    IF input.mode = "gui" /\ done # {} THEN {Min(done)} ELSE done

(* Of the results of a batch the command line prints all, in one text; the
   client is given all, and shows the last. *)
Display(done) ==
    IF input.mode = "gui" /\ done # {} THEN {Max(done)} ELSE done

KindOf(stmt) == stmt.kids[1].text
HasTable(stmt) == KindOf(stmt) # "SHOW"
TableOf(stmt) ==
    LET names == {k \in DOMAIN stmt.kids : stmt.kids[k].node = "name"}
    IN  stmt.kids[Min(names)].text

(* Catalog.create_table: column names differ. *)
ColumnsDiffer(stmt) ==
    LET columns == stmt.kids[3].kids
        name(k) == columns[k].kids[1].text
    IN  \A j, k \in DOMAIN columns : name(j) = name(k) => j = k

(* The analyser's check of the tables. *)
Refused(stmt, known) ==
    CASE KindOf(stmt) = "CREATE" ->
           TableOf(stmt) \in known \/ ~ColumnsDiffer(stmt)
      [] KindOf(stmt) = "DROP" ->
           TableOf(stmt) = CATALOG_TABLE \/ TableOf(stmt) \notin known
      [] OTHER -> HasTable(stmt) /\ TableOf(stmt) \notin known

(* Faulty variant: DROP is not checked by the analyser. *)
OutcomesDropUnchecked(stmt) ==
    IF KindOf(stmt) \in {"SHOW", "DROP"} THEN {"ok"} ELSE {"ok", "error"}

Outcomes(stmt) ==
    IF Refused(stmt, tables) THEN {"error"}
    ELSE IF Depth(stmt) > MaxDepth THEN {"error", "crash"}
    ELSE IF KindOf(stmt) = "SHOW" THEN {"ok"}
    ELSE IF KindOf(stmt) \in {"CREATE", "DROP"}
      THEN IF input.mode = "compile" THEN {"ok"} ELSE {"ok", "error"}
    ELSE IF input.mode = "compile" THEN {"ok", "error"}
    ELSE {"ok", "error", "crash"}

(* Compiling registers a table and executes nothing, so a DROP leaves it. *)
TablesAfter(stmt, known, mode) ==
    CASE KindOf(stmt) = "CREATE" -> known \cup {TableOf(stmt)}
      [] KindOf(stmt) = "DROP" /\ mode # "compile" -> known \ {TableOf(stmt)}
      [] OTHER -> known

(* Only compiling goes on with the next statement after one that failed. *)
GoesOn(end) == end = "ok" \/ (end = "error" /\ input.mode = "compile")

RunStatement ==
    /\ phase = "running" /\ batch # <<>>
    /\ \E end \in Outcomes(Head(batch)) :
         /\ log' = Append(log, [stmt |-> Head(batch), batch |-> Len(sent),
                                end |-> end])
         /\ tables' = IF end = "ok" THEN TablesAfter(Head(batch), tables, input.mode)
                      ELSE tables
         /\ results' = IF end = "ok" THEN results \cup {Len(log) + 1}
                       ELSE IF GoesOn(end) THEN results ELSE {}
         /\ batch' = IF GoesOn(end) THEN Tail(batch) ELSE <<>>
         /\ phase' = IF GoesOn(end) THEN "running"
                     ELSE IF end = "error" THEN AfterError(input.mode)
                     ELSE AfterCrash(input.mode)
         /\ shown' = IF ~GoesOn(end) /\ input.mode = "gui"
                       THEN shown \cup Display(results) ELSE shown
    /\ UNCHANGED <<input, read, pending, sent, parsed>>

(* The whole batch has run: its results are shown. *)
ShowResults ==
    /\ phase = "running" /\ batch = <<>>
    /\ shown' = shown \cup Display(results)
    /\ phase' = IF input.mode \in {"call", "compile"} THEN "closed" ELSE "reading"
    /\ results' = {}
    /\ UNCHANGED <<input, read, pending, batch, tables, sent, parsed, log>>

Next ==
    \/ ReadLine \/ EndOfInput \/ RunScript \/ CompileOnly \/ Click
    \/ StartBatch \/ RunStatement \/ ShowResults

Spec == Init /\ [][Next]_vars

-----------------------------------------------------------------------------
(* Properties.                                                             *)

(* The tables before each of some statements, and after the last: those at
   the beginning, with the changes of the statements that succeeded. *)
Replay(entries, mode) ==
    LET known[j \in 1 .. Len(entries) + 1] ==
            IF j = 1 THEN FirstTables(mode)
            ELSE IF entries[j - 1].end = "ok"
              THEN TablesAfter(entries[j - 1].stmt, known[j - 1], mode)
            ELSE known[j - 1]
    IN  known
Before(k) == Replay(log, input.mode)[k]

(* The places in log of a batch's statements, and whether it is over. *)
Mates(b) == {k \in DOMAIN log : log[k].batch = b}
Over(b) == b < Len(sent) \/ phase \in {"reading", "closed"}

(* The statements of a batch run one by one: each sees what those before it
   did, a text that is not grammatical runs none of its statements, the
   first that fails is the last of its batch, or is passed over if the text
   is only compiled, and nothing else ends a batch early.  That the first
   failure is the last is what gui-design.md:141 asks of the client; for the
   command line FR-017 (specs/001-minisql-dbms/spec.md:137) and
   contracts/engine-api.md:46-48 ask it to go on, which the code does not:
   there the property says what the code does. *)
RunsOneByOne ==
    /\ tables = Before(Len(log) + 1)
    /\ \A k \in DOMAIN log :
         LET entry == log[k]
             tree == parsed[entry.batch]
         IN  /\ Grammatical(tree)
             /\ entry.stmt = tree.kids[k - Min(Mates(entry.batch)) + 1]
             /\ Refused(entry.stmt, Before(k)) => entry.end = "error"
             /\ GoesOn(entry.end) \/ k = Max(Mates(entry.batch))
    /\ \A b \in DOMAIN sent :
         Over(b) /\ Grammatical(parsed[b]) /\ (\A k \in Mates(b) : GoesOn(log[k].end))
            => Cardinality(Mates(b)) = Len(parsed[b].kids)

(* Only the results of statements that took effect are shown, and when
   nothing runs, all of them have been.  There are two exceptions, where the
   code keeps a result back: the command line shows nothing of a batch in
   which a statement failed, though those before it have run, against FR-017
   (specs/001-minisql-dbms/spec.md:137) and contracts/engine-api.md:46-48;
   and the client shows, of each batch, the last result and may keep back
   those before it, against gui-design.md:141. *)
EffectsAreShown ==
    /\ \A k \in shown : log[k].end = "ok"
    /\ phase # "running" =>
         \A k \in DOMAIN log : log[k].end = "ok" =>
            \/ k \in shown
            \/ \E j \in Mates(log[k].batch) :
                  IF input.mode = "gui" THEN j > k /\ log[j].end = "ok"
                  ELSE ~GoesOn(log[j].end)
=============================================================================
