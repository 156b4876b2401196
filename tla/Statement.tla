------------------------------ MODULE Statement ------------------------------
(***************************************************************************)
(* One prepared statement of src/v3/command.go over several executions.    *)
(*                                                                         *)
(* The driver saves round trips and bytes by remembering, from one         *)
(* execution to the next, what the server already knows: the cursor, the   *)
(* definitions of the parameters (sent again only if reSendParDef), the    *)
(* definitions of the columns, and the last value of every column (the     *)
(* server leaves out a column that repeats).  This module has both ends of *)
(* that agreement: the fields of Stmt, and the cursor of the server.       *)
(*                                                                         *)
(* A connection serves one call at a time, so a call with all its round    *)
(* trips is one action, and a failure of any of them an alternative of it. *)
(* What may happen on the way (cancellation, loss of the connection) is    *)
(* module CallSession; the iteration over the rows is module ResultSet.    *)
(*                                                                         *)
(* Parameters are input parameters.  A definition is a type and a length;  *)
(* a value is known by the call that passed it, and so is a row by the     *)
(* execution it is a result of.                                            *)
(***************************************************************************)
EXTENDS Naturals, Sequences, FiniteSets, SequencesExt

CONSTANTS
  Texts,      \* the parameter names of the texts, in order: sequences
  Defs,       \* Defs[stmtType][name]: the <<type, length>> an argument may have
  Values,     \* the values of the column whose values vary
  MaxCalls,   \* MaxCalls[stmtType]: bound on the calls of the statement
  MaxRows,    \* bound on the rows of one execution
  Batch       \* rows per reply (_noOfRowsToFetch)

VARIABLES
  stmtType, text,   \* "SELECT", "DML" or "PLSQL"; the names in the text
  lob,              \* Lob=INLINE is set and the query has LOB or LONG columns
  autoClose,        \* made by Connection.QueryContext, for one query
  parse, execute, define, reSendParDef, Pars, cursorID, columns, hasMoreRows,
  multiSet,         \* the cursors of the last implicit results read
  sets,             \* sets[n]: the DataSet the n-th call returned
  server,           \* the cursor at the server
  open,             \* the cursors open at the server
  sent,             \* sent[n]: the rows the server sent of the n-th execution
  calls,            \* how many calls there were
  closed,           \* Stmt.Close was called
  past              \* what has happened so far: see the properties

shape == <<stmtType, text, lob, autoClose>>
flags == <<parse, execute, define, reSendParDef>>
vars == <<shape, flags, Pars, cursorID, columns, hasMoreRows, multiSet, sets,
          server, open, sent, calls, closed, past>>

Main == <<0, 0>>                        \* the cursor of the statement itself
Child(n, k) == <<n, k>>                 \* the k-th implicit result of call n
Cols == {1, 2}                          \* a varying column, and the call's
Nil == <<>>                             \* no row yet

Fresh == [cache |-> [c \in Cols |-> 0], getDataFromServer |-> Cols,
          type |-> IF lob THEN "locator" ELSE "plain"]

Closed == [state |-> "none", rows |-> <<>>, kids |-> <<>>]

Init ==
  /\ stmtType \in DOMAIN Defs /\ text \in Texts
  /\ lob \in IF stmtType = "SELECT" THEN BOOLEAN ELSE {FALSE}
  /\ autoClose \in IF stmtType = "DML" THEN {FALSE} ELSE BOOLEAN
  /\ parse = TRUE /\ execute = TRUE /\ define = FALSE /\ reSendParDef = FALSE
  /\ Pars = <<>> /\ cursorID = 0 /\ multiSet = <<>> /\ hasMoreRows = FALSE
  /\ columns = Fresh
  /\ sets = [n \in 1..MaxCalls[stmtType] |-> Closed]
  /\ server = [binds |-> <<>>, ran |-> <<>>, exec |-> 0,
               type |-> "none", last |-> Nil, fits |-> TRUE]
  /\ open = {} /\ sent = [n \in 1..MaxCalls[stmtType] |-> <<>>]
  /\ calls = 0 /\ closed = FALSE /\ past = {}

-----------------------------------------------------------------------------
(* Parameters: setParam, useNamedParameters, writePars                     *)

Names == Range(text)

Par(name, def, n) ==
  [name |-> name, type |-> def[1], len |-> def[2], tag |-> n, dup |-> FALSE]

\* The argument lists of call n: some of the names, in any order.  A call with
\* positional arguments is one with all the names in the order of the text.
Args(n) ==
  UNION {{[i \in 1..k |-> Par(o[i], d[o[i]], n)] :
            o \in {f \in [1..k -> Names] : IsInjective(f)},
            d \in {f \in [Names -> UNION Range(Defs[stmtType])] :
                     \A a \in Names : f[a] \in Defs[stmtType][a]}} :
         k \in 1..Cardinality(Names)}

\* Mutant: only the length counts.
ChangedLength(old, new) == new.len > old.len

\* The condition of setParam for sending the definitions again.
Changed(old, new) ==
  \/ new.len > old.len
  \/ new.type = "NCHAR" /\ old.type = "LONG"
  \/ new.type = "LONG" /\ old.type = "NCHAR"

\* Mutant: setParam adds what it should replace.
setParamsAppended(args) == Pars \o args

\* The parameters after setParam for each of args, by position.
setParams(args) ==
  [i \in 1..(IF Len(args) > Len(Pars) THEN Len(args) ELSE Len(Pars)) |->
     IF i <= Len(args) THEN args[i] ELSE Pars[i]]

AnyChanged(args) ==
  \E i \in DOMAIN args \cap DOMAIN Pars : Changed(Pars[i], args[i])

Found(ps) == Names \subseteq {ps[i].name : i \in DOMAIN ps}

\* Mutant: the last of the parameters with the name is taken.
FirstLast(ps, name) ==
  ps[CHOOSE i \in DOMAIN ps : /\ ps[i].name = name
                              /\ \A j \in DOMAIN ps : j > i => ps[j].name # name]

First(ps, name) ==
  ps[CHOOSE i \in DOMAIN ps : /\ ps[i].name = name
                              /\ \A j \in 1..(i - 1) : ps[j].name # name]

Repeats(i) == \E j \in 1..(i - 1) : text[j] = text[i]

\* In the order of the text.  A repeated name is marked (Flag 0x80) in a SELECT
\* or DML, left out in PL/SQL.
useNamedParameters(ps) ==
  LET all == [i \in DOMAIN text |->
                [First(ps, text[i]) EXCEPT !.dup = @ \/ Repeats(i)]]
      once == SelectSeq([i \in DOMAIN text |-> i], LAMBDA i : ~Repeats(i))
  IN  IF stmtType = "PLSQL" THEN [i \in DOMAIN once |-> First(ps, text[once[i]])]
      ELSE all

\* The values, in the order they are written: the LONG ones last.
writePars(ps) ==
  SelectSeq(ps, LAMBDA p : ~p.dup /\ p.type # "LONG")
    \o SelectSeq(ps, LAMBDA p : p.type = "LONG")

\* The values a server that has these definitions reads (external).
Expected(binds) ==
  SelectSeq(binds, LAMBDA p : ~p.dup /\ p.type # "LONG")
    \o SelectSeq(binds, LAMBDA p : ~p.dup /\ p.type = "LONG")

-----------------------------------------------------------------------------
(* A request and what the server makes of it                               *)

\* Stmt.write: a re-execution of the cursor with values only, or a full request
\* with the options of getExeOption.
write(ps, resend) ==
  IF ~parse /\ ~resend
  THEN [executes |-> TRUE, binds |-> FALSE, pars |-> ps, defines |-> FALSE]
  ELSE [executes |-> execute, binds |-> ps # <<>> /\ ~define, pars |-> ps,
        defines |-> define]

\* The value the server has for each parameter after reading the values of ps
\* by its own definitions (external).
Ran(binds, ps) ==
  LET e == Expected(binds) v == writePars(ps)
  IN  [a \in {e[i].name : i \in DOMAIN e \cap DOMAIN v} |->
         LET p == v[CHOOSE i \in DOMAIN e \cap DOMAIN v : e[i].name = a]
         IN  <<p.name, p.tag>>]

\* The definitions fit the values: one for each, of its type, and at least its
\* length.
Fits(binds, ps) ==
  LET e == Expected(binds) v == writePars(ps)
  IN  /\ Len(e) = Len(v)
      /\ \A i \in DOMAIN e : /\ e[i].name = v[i].name /\ e[i].type = v[i].type
                             /\ v[i].len <= e[i].len

\* The cursor after request m of call n (external).
Serve(m, n) ==
  LET binds == IF m.binds THEN m.pars ELSE server.binds
  IN  [server EXCEPT !.binds = binds,
         !.ran = IF m.executes THEN Ran(binds, m.pars) ELSE @,
         !.exec = IF m.executes THEN n ELSE @,
         !.type = IF m.defines THEN "long" ELSE IF parse THEN Fresh.type ELSE @,
         !.last = IF m.executes THEN Nil ELSE @,
         !.fits = Fits(binds, m.pars)]

Family(p) == IF p.type = "LONG" THEN "NCHAR" ELSE p.type

\* setParam compares an argument with the parameter of another name: the call
\* before it left a different order, or the text repeats a name before this one
\* and the position is that of the repetition.
Displaced(args) ==
  \E i \in DOMAIN args \cap DOMAIN Pars : Pars[i].name # args[i].name

IsLong(args, name) ==
  \E p \in Range(args) : p.name = name /\ p.type = "LONG"
\* The repetitions of LONG parameters: marked, and written all the same.
LongDups(args) ==
  {i \in DOMAIN text : Repeats(i) /\ IsLong(args, text[i]) /\ stmtType # "PLSQL"}

\* What about the call with args the properties make exceptions for.
Remarks(args) ==
  {r \in {"partial", "displaced", "retyped", "longdup", "longshift", "longmoved",
          "redefined", "overlap"} :
     CASE r = "partial" -> Cardinality(Names) # Len(args)
       [] r = "displaced" -> Displaced(args)
       [] r = "retyped" -> \E i \in DOMAIN Pars, j \in DOMAIN args :
                             /\ Pars[i].name = args[j].name
                             /\ Family(Pars[i]) # Family(args[j])
       [] r = "longdup" -> LongDups(args) # {}
       [] r = "longshift" -> \E i \in LongDups(args), j \in DOMAIN text :
                               i < j /\ ~Repeats(j) /\ IsLong(args, text[j])
       [] r = "longmoved" -> /\ Displaced(args)
                             /\ \E p \in Range(Pars) \cup Range(args) :
                                  p.type = "LONG"
       [] r = "redefined" -> /\ "inlined" \in past
                             /\ reSendParDef \/ AnyChanged(args)
       [] r = "overlap" -> \E n \in DOMAIN sets : sets[n].state = "open"}

-----------------------------------------------------------------------------
(* Rows: ResultSet.load, setBitVector, and message 7 of defaultStmt.read   *)

\* Mutant: no vector leaves the flags as they are.
setBitVectorSticky(cols, vector) ==
  IF vector = <<>> THEN cols
  ELSE [cols EXCEPT !.getDataFromServer = vector[1]]

\* vector is <<S>> for the bit vector of the columns S; without one, <<>>, every
\* column is on the wire.
setBitVector(cols, vector) ==
  [cols EXCEPT !.getDataFromServer = IF vector = <<>> THEN Cols ELSE vector[1]]

\* A row on the wire has the values of some columns; the others keep theirs.
\* Reading others than the server wrote, or by another type, yields a row that
\* is none of its rows.
readRow(cols, values, type) ==
  IF DOMAIN values # cols.getDataFromServer \/ type # cols.type
  THEN [cols EXCEPT !.cache = [c \in Cols |-> 0]]
  ELSE [cols EXCEPT !.cache = [c \in Cols |-> IF c \in DOMAIN values
                                              THEN values[c] ELSE @[c]]]

\* One message of a reply: <<"vector", v>> (6 or 21) or <<"row", values>> (7).
Receive(type, got, msg) ==
  IF msg[1] = "vector" THEN [got EXCEPT !.cols = setBitVector(@, msg[2])]
  ELSE LET c == readRow(got.cols, msg[2], type)
       IN  [cols |-> c, rows |-> Append(got.rows, c.cache)]

\* The rows of a reply as read into the columns: [cols, rows].
Read(cols, type, msgs) ==
  FoldLeft(LAMBDA got, msg : Receive(type, got, msg),
           [cols |-> cols, rows |-> <<>>], msgs)

\* The messages of a reply with these rows, of which row i has columns ss[i] on
\* the wire (external).  The header of a reply has a vector if a column of the
\* first row is left out, and a vector precedes a row with other columns than
\* the row before it.
Messages(rows, ss) ==
  LET Head1 == <<<<"vector", IF ss[1] = Cols THEN <<>> ELSE <<ss[1]>>>>>>
      Vector(i) == IF i > 1 /\ ss[i] # ss[i - 1] THEN <<<<"vector", <<ss[i]>>>>>>
                   ELSE <<>>
      Row(i) == Vector(i) \o <<<<"row", [c \in ss[i] |-> rows[i][c]]>>>>
  IN  IF rows = <<>> THEN <<>>
      ELSE Head1 \o FlattenSeq([i \in DOMAIN rows |-> Row(i)])

\* A column may be left out of a row if it is as in the row before it.
MayLeave(last, rows, ss) ==
  \A i \in DOMAIN rows : \A c \in Cols \ ss[i] :
    LET before == IF i = 1 THEN last ELSE rows[i - 1]
    IN  before # Nil /\ before[c] = rows[i][c]

\* The server, as cursor s, replies with some rows (external), and set n reads
\* them.  RetCode 1403 says that there are no more.
Rows(s, n, cols) ==
  \E k \in 0..Batch, more \in BOOLEAN :
    \E vs \in [1..k -> Values], ss \in [1..k -> SUBSET Cols] :
      LET rows == [i \in 1..k |-> <<vs[i], s.exec>>]
          got == Read(cols, s.type, Messages(rows, ss))
      IN  /\ Len(sent[s.exec]) + k <= MaxRows
          /\ more => k = Batch /\ Len(sent[s.exec]) + k < MaxRows
          /\ MayLeave(s.last, rows, ss)
          /\ sent' = [sent EXCEPT ![s.exec] = @ \o rows]
          /\ server' = [s EXCEPT !.last = IF k = 0 THEN @ ELSE rows[k]]
          /\ columns' = got.cols
          /\ sets' = [sets EXCEPT ![n] = [@ EXCEPT !.state = "open",
                                                   !.rows = @ \o got.rows]]
          /\ hasMoreRows' = more

-----------------------------------------------------------------------------
(* Calls                                                                   *)

\* A call of the application; database/sql gives a statement of its own to each
\* query without a prepared statement.
CanCall == calls < (IF autoClose THEN 1 ELSE MaxCalls[stmtType]) /\ ~closed

Calling ==
  /\ CanCall
  /\ calls' = calls + 1
  /\ UNCHANGED shape

Resend(args) == reSendParDef \/ AnyChanged(args)
Bound(args) == useNamedParameters(setParams(args))
Request(args) == write(Bound(args), Resend(args))
Served(args) == Serve(Request(args), calls + 1)

\* Connection.QueryContext closes its statement if the query fails, and ignores
\* whether that works.
Fail(cursors, remarks) ==
  /\ closed' = autoClose
  /\ \/ /\ open' = IF autoClose THEN cursors \ {Main} ELSE cursors
        /\ past' = past \cup remarks
     \/ /\ autoClose /\ Main \in cursors
        /\ open' = cursors
        /\ past' = past \cup remarks \cup {"closefailed"}

\* NewParam fails for the argument after the first k, or the text has a name
\* without a parameter.
BindFails(args, k) ==
  /\ Calling
  /\ LET ps == setParams(SubSeq(args, 1, k))
     IN  /\ k < Len(args) \/ ~Found(ps)
         /\ Pars' = ps
  /\ reSendParDef' = Resend(SubSeq(args, 1, k))
  /\ hasMoreRows' = (stmtType # "DML")
  /\ Fail(open, Remarks(args))
  /\ UNCHANGED <<parse, execute, define, cursorID, columns, multiSet, sets,
                 server, sent>>

Send(args) ==
  /\ Calling /\ Found(setParams(args))
  /\ Pars' = Bound(args)

\* The server answers with an error.  It may have opened the cursor before, or
\* taken the definitions.
Refused(args) ==
  /\ Send(args)
  /\ reSendParDef' = Resend(args)
  /\ hasMoreRows' = (stmtType # "DML")
  /\ \E cursors \in {open, open \cup {Main}} :
       /\ cursorID' = IF Main \in cursors THEN 1 ELSE 0
       /\ Fail(cursors, Remarks(args))
  /\ server' \in {server, [server EXCEPT !.binds = Served(args).binds]}
  /\ UNCHANGED <<parse, execute, define, columns, multiSet, sets, sent>>

\* parse, define and reSendParDef at the end of _exec and _query.
Done == parse' = FALSE /\ define' = FALSE /\ reSendParDef' = FALSE

Accepted(args) ==
  /\ Send(args)
  /\ cursorID' = 1

\* Stmt.ExecContext.  The implicit results of PL/SQL are read, and left at that.
Exec(args, kids) ==
  /\ stmtType # "SELECT" /\ ~autoClose
  /\ Accepted(args) /\ Done
  /\ server' = Served(args)
  /\ open' = open \cup {Main} \cup Range(kids)
  /\ multiSet' = IF kids = <<>> THEN multiSet ELSE kids
  /\ sets' = [sets EXCEPT ![calls + 1].state = "closed"]
  /\ past' = past \cup Remarks(args)
               \cup (IF kids = <<>> THEN {} ELSE {"unread"})
  /\ UNCHANGED <<execute, columns, hasMoreRows, sent, closed>>

\* Stmt._query of a query whose columns are sent as described, or as defined by
\* an earlier call.
Query(args) ==
  /\ stmtType = "SELECT" /\ ~(parse /\ lob)
  /\ Accepted(args) /\ Done
  /\ LET cols == IF parse THEN Fresh
                 ELSE IF Request(args).defines
                 THEN [columns EXCEPT !.type = "long"] ELSE columns
     IN  Rows(Served(args), calls + 1, cols)
  /\ open' = open \cup {Main}
  /\ past' = past \cup Remarks(args)
  /\ UNCHANGED <<execute, multiSet, closed>>

\* _query with Lob=INLINE: the first round trip describes the columns, and the
\* second, queryLobPrefetch, defines LOB columns as LONG and gets the first rows.
Inline == /\ execute' = FALSE /\ parse' = FALSE /\ reSendParDef' = FALSE

Defined(args) == [Served(args) EXCEPT !.type = "long"]

QueryInline(args) ==
  /\ stmtType = "SELECT" /\ parse /\ lob
  /\ Accepted(args) /\ Inline /\ define' = FALSE
  /\ Rows(Defined(args), calls + 1, [Fresh EXCEPT !.type = "long"])
  /\ open' = open \cup {Main}
  /\ past' = past \cup Remarks(args) \cup {"inlined"}
  /\ UNCHANGED <<multiSet, closed>>

\* The second round trip fails.  writeDefine has changed the columns by then.
InlineRefused(args) ==
  /\ stmtType = "SELECT" /\ parse /\ lob
  /\ Accepted(args) /\ Inline /\ define' = TRUE
  /\ server' \in {Served(args), Defined(args)}
  /\ columns' = [Fresh EXCEPT !.type = "long"]
  /\ hasMoreRows' = TRUE
  /\ Fail(open \cup {Main}, Remarks(args) \cup {"inlined", "halfdefined"})
  /\ UNCHANGED <<multiSet, sets, sent>>

\* _query of PL/SQL with implicit results, each a cursor that is queried in
\* turn.  multiSet keeps the cursors of an earlier call if there are none.
Cursors(kids) == IF kids = <<>> THEN multiSet ELSE kids

QueryImplicit(args, kids) ==
  /\ stmtType = "PLSQL"
  /\ Accepted(args) /\ Done
  /\ server' = Served(args)
  /\ open' = open \cup {Main} \cup Range(kids)
  /\ Range(Cursors(kids)) \subseteq open'
  /\ multiSet' = Cursors(kids)
  /\ sets' = [sets EXCEPT ![calls + 1] =
                [@ EXCEPT !.state = "open", !.kids = multiSet']]
  /\ hasMoreRows' = TRUE
  /\ past' = past \cup Remarks(args)
  /\ UNCHANGED <<execute, columns, sent, closed>>

\* The query of one of the cursors fails; the DataSet with those before is lost.
ImplicitRefused(args, kids) ==
  /\ stmtType = "PLSQL" /\ Cursors(kids) # <<>>
  /\ Accepted(args)
  /\ server' = Served(args)
  /\ multiSet' = Cursors(kids)
  /\ reSendParDef' = Resend(args)
  /\ hasMoreRows' = TRUE
  /\ Fail(open \cup {Main} \cup Range(kids),
          Remarks(args) \cup {"lostset"})
  /\ UNCHANGED <<parse, execute, define, columns, sets, sent>>

\* stmt.fetch for the result set of call n.  A fetch that fails changes nothing.
Fetch(n) ==
  /\ stmtType = "SELECT" /\ sets[n].state = "open" /\ hasMoreRows
  /\ Rows(server, n, columns)
  /\ UNCHANGED <<shape, flags, Pars, cursorID, multiSet, open, calls, closed,
                 past>>

\* Mutant: only the current result set is closed.
CloseRowsCurrent(n) ==
  /\ sets[n].state = "open"
  /\ sets' = [sets EXCEPT ![n].state = "closed"]
  /\ closed' = autoClose
  /\ open' = open \ (IF autoClose THEN {Main}
                     ELSE {sets[n].kids[i] : i \in DOMAIN sets[n].kids \cap {1}})
  /\ UNCHANGED <<shape, flags, Pars, cursorID, columns, hasMoreRows, multiSet,
                 server, sent, calls, past>>

\* DataSet.Close: the result sets in turn, up to the first that fails.  Only a
\* cursor, or the statement of Connection.QueryContext, is closed with its set.
CloseRows(n) ==
  /\ sets[n].state = "open"
  /\ sets' = [sets EXCEPT ![n].state = "closed"]
  /\ closed' = autoClose
  /\ LET all == (IF autoClose THEN <<Main>> ELSE <<>>) \o sets[n].kids
     IN  \E k \in 0..Len(all) :
           /\ open' = open \ Range(SubSeq(all, 1, k))
           /\ past' = IF k = Len(all) THEN past ELSE past \cup {"closefailed"}
  /\ UNCHANGED <<shape, flags, Pars, cursorID, columns, hasMoreRows, multiSet,
                 server, sent, calls>>

\* Stmt.Close, which database/sql calls once the rows are closed.
CloseStmt ==
  /\ ~closed /\ ~autoClose
  /\ \A n \in DOMAIN sets : sets[n].state # "open"
  /\ closed' = TRUE
  /\ \/ /\ open' = IF cursorID = 0 THEN open ELSE open \ {Main}
        /\ past' = past
     \/ /\ cursorID # 0
        /\ open' = open
        /\ past' = past \cup {"closefailed"}
  /\ UNCHANGED <<shape, flags, Pars, cursorID, columns, hasMoreRows, multiSet,
                 sets, server, sent, calls>>

Kids == {[k \in 1..m |-> Child(calls + 1, k)] :
           m \in IF stmtType = "PLSQL" THEN 0..2 ELSE {0}}

Next ==
  \/ \E args \in IF CanCall THEN Args(calls + 1) ELSE {} :
       \/ \E k \in 0..Len(args) : BindFails(args, k)
       \/ Refused(args)
       \/ Query(args) \/ QueryInline(args) \/ InlineRefused(args)
       \/ \E kids \in Kids : \/ Exec(args, kids)
                             \/ QueryImplicit(args, kids)
                             \/ ImplicitRefused(args, kids)
  \/ \E n \in DOMAIN sets : Fetch(n) \/ CloseRows(n)
  \/ CloseStmt

Spec == Init /\ [][Next]_vars

-----------------------------------------------------------------------------
(* Properties                                                              *)

None(remarks) == past \cap remarks = {}

\* The types of the variables; the parameters are never more than the text or
\* the arguments have.
TypeOK ==
  /\ \A b \in Range(flags) \cup {hasMoreRows, closed} : b \in BOOLEAN
  /\ Len(Pars) <= Len(text)
  /\ cursorID \in {0, 1}
  /\ columns.getDataFromServer \subseteq Cols
  /\ \A n \in DOMAIN sets : Len(sent[n]) <= MaxRows
  /\ calls \in 0..MaxCalls[stmtType]

\* The server can read the values of every request by the definitions it has:
\* setParam asks for new ones whenever a value is longer, or changes between the
\* long and the short form of its type (command.go:1990).  The exceptions: an
\* argument that setParam, which goes by position, compares with the parameter of
\* another name, as it does after a call with another order of the arguments and
\* for every argument behind a repeated name of the text (b of :a, :a, :b, which
\* may become short after being LONG without a new definition); a number that
\* becomes a string or the reverse; a LONG parameter that is repeated; an INLINE
\* query whose definition of the columns failed.
DefinitionsFit ==
  None({"displaced", "retyped", "longdup", "halfdefined"})
    => server.fits

\* A call that succeeds has executed the statement, each parameter with the value
\* the call passed for it and none of an earlier call, whatever the order of the
\* arguments and however often the text repeats a name (command.go:1861).  The
\* exceptions: a call that leaves out a parameter; a LONG parameter behind the
\* repetition of another, whose value is written twice; an argument compared with
\* the parameter of another name if one is LONG, as those go last; a string that
\* becomes a number or the reverse; new definitions after an INLINE query, which
\* execute nothing.
OwnValues ==
  /\ calls > 0 /\ sets[calls].state # "none"
  /\ None({"partial", "retyped", "longshift", "longmoved", "redefined"})
  => /\ server.exec = calls
     /\ server.ran = [a \in Names |-> <<a, calls>>]

\* The rows of a result set are the rows the server sent of that execution,
\* although it leaves out columns that repeat, over any number of replies
\* (result_set.go:76, command.go:834).  The exceptions: a result set that is
\* open while the statement is executed again, new definitions after an INLINE
\* query, and an INLINE query whose definition of the columns failed.
OwnRows ==
  None({"overlap", "redefined", "halfdefined"})
    => \A n \in DOMAIN sets : sets[n].rows = sent[n]

\* Once the rows and the statement are closed no cursor of it is left open at
\* the server, those of implicit results included (command.go:1170,
\* data_set.go:62).  The exceptions: a Close that failed, implicit results of an
\* Exec, and a query of implicit results that failed.
NoCursorLeft ==
  /\ closed /\ \A n \in DOMAIN sets : sets[n].state # "open"
  /\ None({"closefailed", "unread", "lostset"})
  => open = {}
=============================================================================
