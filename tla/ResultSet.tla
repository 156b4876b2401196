----------------------------- MODULE ResultSet -----------------------------
(***************************************************************************)
(* A query, the cursor the server keeps for it, and the ResultSet through  *)
(* which the caller takes its rows one by one.  A row is its position in   *)
(* the answer of the query, 1 .. NRows; how a row is put together from     *)
(* the columns on the wire is module Statement.                            *)
(***************************************************************************)
EXTENDS Integers, Sequences

CONSTANTS
    NRows,        \* rows of the query's answer
    Prefetches,   \* values of connOption.PrefetchRows; zero is accepted
    DefaultSize,  \* the size that means "compute it": 25 in the code
    Computed,     \* the size fetch computes from the columns
    LobColumns,   \* whether the query may have LOB or LONG columns
    Inline,       \* connOption.Lob = INLINE
    StopsOnError  \* the caller is database/sql, which closes Rows on an error

ASSUME SizesAssumption ==
    /\ NRows \in Nat
    /\ Prefetches \subseteq Nat
    /\ DefaultSize \in Nat \ {0}
    /\ Computed \in Nat \ {0}
ASSUME OptionsAssumption ==
    /\ LobColumns \subseteq BOOLEAN
    /\ Inline \in BOOLEAN
    /\ StopsOnError \in BOOLEAN

VARIABLES
    phase,     \* "start", "inline" (between the two round trips of _query), "open", "closed"
    hasLob,    \* stmt._hasBLOB or stmt._hasLONG
    hasMore,   \* stmt._hasMoreRows
    size,      \* stmt._noOfRowsToFetch
    rows,      \* resultSet.rows
    index,     \* resultSet.index
    shipped,   \* rows the server has sent on this cursor
    delivered, \* rows the caller was given
    last       \* how the caller's last step ended

vars == <<phase, hasLob, hasMore, size, rows, index, shipped, delivered, last>>

Init ==
    /\ phase = "start"
    /\ hasLob \in LobColumns
    /\ hasMore = FALSE /\ size = 0
    /\ rows = <<>> /\ index = 0
    /\ shipped = 0 /\ delivered = <<>>
    /\ last = "none"

-----------------------------------------------------------------------------
(* The server's side of a fetch (external).                                *)

Batch(k) == [i \in 1 .. k |-> shipped + i]

(* Up to n rows, at least one unless none is left.  The summary carries    *)
(* 1403 (more = FALSE) only when the answer is exhausted, and always when  *)
(* rows were asked for and none came.                                      *)
Ships(n, k, more) ==
    /\ k \in 0 .. n
    /\ shipped + k <= NRows
    /\ ~more => shipped + k = NRows
    /\ k = 0 /\ n > 0 => ~more

(* stmt.read: rows are appended, 1403 clears _hasMoreRows.                 *)
Receive(base, k, more) ==
    /\ rows' = base \o Batch(k)
    /\ shipped' = shipped + k
    /\ hasMore' = (hasMore /\ more)

(* fetch and queryLobPrefetch replace the default size by a computed one.  *)
FetchSize == IF size = DefaultSize THEN Computed ELSE size

-----------------------------------------------------------------------------
(* Query_ and _query.                                                      *)

(* The execute round trip.  With LOB or LONG columns the first answer may  *)
(* describe the columns and carry no row; if this execution parsed the     *)
(* statement and LOBs are inline, a second round trip follows.             *)
Query ==
    /\ phase = "start"
    /\ size' \in Prefetches
    /\ \/ \E k \in 0 .. size', more \in BOOLEAN :
             /\ Ships(size', k, more)
             /\ rows' = Batch(k)
             /\ shipped' = shipped + k
             /\ hasMore' = more
       \/ /\ hasLob
          /\ rows' = <<>> /\ hasMore' = TRUE /\ UNCHANGED shipped
    /\ \E parse \in BOOLEAN :
          phase' = IF parse /\ hasLob /\ Inline THEN "inline" ELSE "open"
    /\ UNCHANGED <<hasLob, index, delivered, last>>

(* queryLobPrefetch: the second round trip of _query when LOBs are inline. *)
QueryLobPrefetch ==
    /\ phase = "inline"
    /\ size' = FetchSize
    /\ \E k \in 0 .. size', more \in BOOLEAN :
          Ships(size', k, more) /\ Receive(rows, k, more)
    /\ phase' = "open"
    /\ UNCHANGED <<hasLob, index, delivered, last>>

-----------------------------------------------------------------------------
(* ResultSet.Next.                                                         *)

(* The caller may call Next, after end of file too.                        *)
NextEnabled == phase = "open" /\ (StopsOnError => last # "error")

(* The row at index modulo the number of rows held; end of file when there *)
(* is none.                                                                *)
Deliver(held, i) ==
    IF Len(held) > 0 /\ i % Len(held) < Len(held)
    THEN /\ delivered' = Append(delivered, held[(i % Len(held)) + 1])
         /\ index' = i + 1
         /\ last' = "row"
    ELSE index' = i /\ last' = "eof" /\ UNCHANGED delivered

ReturnEOF == last' = "eof" /\ UNCHANGED delivered

AtFirstLobRow == hasMore /\ hasLob /\ index = 0
AtEndOfRows == index > 0 /\ Len(rows) > 0 /\ index % Len(rows) = 0

(* Nothing is held and the cursor is exhausted.                            *)
NextExhausted ==
    /\ NextEnabled
    /\ ~hasMore /\ Len(rows) = 0
    /\ ReturnEOF
    /\ UNCHANGED <<phase, hasLob, hasMore, size, rows, index, shipped>>

(* The first row of a query with LOB or LONG columns: fetch appends to     *)
(* what _query brought.                                                    *)
NextLobFetch ==
    /\ NextEnabled
    /\ AtFirstLobRow
    /\ size' = FetchSize
    /\ \E k \in 0 .. size', more \in BOOLEAN :
          Ships(size', k, more) /\ Receive(rows, k, more)
    /\ IF ~hasMore' /\ Len(rows') = 0
       THEN ReturnEOF /\ UNCHANGED index
       ELSE Deliver(rows', index)
    /\ UNCHANGED <<phase, hasLob>>

(* Mutants: rows is not emptied before the fetch; index restarts at -1.    *)
NextFetchAppends ==
    /\ NextEnabled
    /\ ~AtFirstLobRow
    /\ AtEndOfRows /\ hasMore
    /\ size' = FetchSize
    /\ \E k \in 0 .. size', more \in BOOLEAN :
          Ships(size', k, more) /\ Receive(rows, k, more)
    /\ IF ~hasMore' /\ Len(rows') = 0
       THEN ReturnEOF /\ index' = 0
       ELSE Deliver(rows', 0)
    /\ UNCHANGED <<phase, hasLob>>
NextFetchFromMinusOne ==
    /\ NextEnabled
    /\ ~AtFirstLobRow
    /\ AtEndOfRows /\ hasMore
    /\ size' = FetchSize
    /\ \E k \in 0 .. size', more \in BOOLEAN :
          Ships(size', k, more) /\ Receive(<<>>, k, more)
    /\ IF ~hasMore' /\ Len(rows') = 0
       THEN ReturnEOF /\ index' = -1
       ELSE Deliver(rows', 0)
    /\ UNCHANGED <<phase, hasLob>>

(* Every row held was delivered and there are more: rows is emptied, then  *)
(* filled by fetch, then index restarts.                                   *)
NextFetch ==
    /\ NextEnabled
    /\ ~AtFirstLobRow
    /\ AtEndOfRows /\ hasMore
    /\ size' = FetchSize
    /\ \E k \in 0 .. size', more \in BOOLEAN :
          Ships(size', k, more) /\ Receive(<<>>, k, more)
    /\ IF ~hasMore' /\ Len(rows') = 0
       THEN ReturnEOF /\ index' = 0
       ELSE Deliver(rows', 0)
    /\ UNCHANGED <<phase, hasLob>>

(* Mutant: the error of the fetch is dropped.                              *)
NextFetchSwallowsError ==
    /\ NextEnabled
    /\ AtFirstLobRow \/ (AtEndOfRows /\ hasMore)
    /\ size' = FetchSize
    /\ \E k \in 0 .. size' :
          /\ shipped + k <= NRows
          /\ Receive(IF AtFirstLobRow THEN rows ELSE <<>>, k, TRUE)
    /\ UNCHANGED <<phase, hasLob, index, delivered, last>>

(* The fetch of NextLobFetch or NextFetch fails after some of its rows     *)
(* were appended: the error is returned with rows as it is then and index  *)
(* as it was.                                                              *)
NextFetchFails ==
    /\ NextEnabled
    /\ AtFirstLobRow \/ (AtEndOfRows /\ hasMore)
    /\ size' = FetchSize
    /\ \E k \in 0 .. size' :
          /\ shipped + k <= NRows
          /\ Receive(IF AtFirstLobRow THEN rows ELSE <<>>, k, TRUE)
    /\ last' = "error"
    /\ UNCHANGED <<phase, hasLob, index, delivered>>

(* Mutants: _hasMoreRows is not looked at; the end is one row too late.    *)
NextEndIgnoresMore ==
    /\ NextEnabled
    /\ ~AtFirstLobRow
    /\ AtEndOfRows
    /\ ReturnEOF
    /\ UNCHANGED <<phase, hasLob, hasMore, size, rows, index, shipped>>
NextEndLate ==
    /\ NextEnabled
    /\ ~AtFirstLobRow
    /\ AtEndOfRows /\ ~hasMore /\ index > Len(rows)
    /\ ReturnEOF
    /\ UNCHANGED <<phase, hasLob, hasMore, size, rows, index, shipped>>

(* Every row held was delivered and the cursor is exhausted.               *)
NextEnd ==
    /\ NextEnabled
    /\ ~AtFirstLobRow
    /\ AtEndOfRows /\ ~hasMore
    /\ ReturnEOF
    /\ UNCHANGED <<phase, hasLob, hasMore, size, rows, index, shipped>>

(* A row is held.                                                          *)
NextRow ==
    /\ NextEnabled
    /\ hasMore \/ Len(rows) > 0
    /\ ~AtFirstLobRow /\ ~AtEndOfRows
    /\ index = 0 \/ Len(rows) > 0
    /\ Deliver(rows, index)
    /\ UNCHANGED <<phase, hasLob, hasMore, size, rows, shipped>>

(* The caller closes the rows, after the last one or before.               *)
Close ==
    /\ phase = "open"
    /\ phase' = "closed"
    /\ UNCHANGED <<hasLob, hasMore, size, rows, index, shipped, delivered, last>>

Closed == phase = "closed" /\ UNCHANGED vars

NextCall ==
    \/ NextExhausted \/ NextLobFetch \/ NextFetch \/ NextFetchFails
    \/ NextEnd \/ NextRow

Next == Query \/ QueryLobPrefetch \/ NextCall \/ Close \/ Closed

Spec == Init /\ [][Next]_vars

(* A caller that goes on calling Next.                                     *)
FairSpec == Spec /\ WF_vars(Query \/ QueryLobPrefetch \/ NextCall)

-----------------------------------------------------------------------------
(* Every variable stays in its type.                                       *)
TypeOK ==
    /\ phase \in {"start", "inline", "open", "closed"}
    /\ hasLob \in BOOLEAN /\ hasMore \in BOOLEAN
    /\ size \in Nat /\ index \in Nat /\ shipped \in Nat
    /\ rows \in Seq(Nat) /\ delivered \in Seq(Nat)
    /\ last \in {"none", "row", "eof", "error"}

(* The caller is given the rows of the answer in order, none twice and     *)
(* none left out, however the fetches cut the answer up.                   *)
RowsInOrder == \A i \in 1 .. Len(delivered) : delivered[i] = i

(* End of file is reported only when every row was delivered.  The         *)
(* exception is PREFETCH_ROWS=0, which the connection string may set       *)
(* (connect_config.go:306): no fetch then asks for a row, and Next takes   *)
(* the empty rows for the end although _hasMoreRows is still set.          *)
EOFComplete == last = "eof" /\ size > 0 => Len(delivered) = NRows

(* Next always has an answer: the division index % len(rows) is never a    *)
(* division by zero, which the runtime would turn into a panic.            *)
NoPanic ==
    ~(/\ NextEnabled
      /\ hasMore /\ ~AtFirstLobRow
      /\ index > 0 /\ Len(rows) = 0)

(* A caller that keeps asking reaches the end of the answer, or an error.  *)
RowsEnd == <>(last \in {"eof", "error"} \/ phase = "closed")
=============================================================================
