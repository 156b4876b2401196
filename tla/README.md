# TLA+ specifications of go-ora v3

go-ora is an Oracle driver for Go's `database/sql`, written without the Oracle
client library. These modules specify its protocol engine, the generation under
`src/v3`: how a connection is opened, what its goroutines do to one socket, what its
result sets do to a cursor and its transactions to the database, how requests
become packets and packets values, what a statement remembers between
executions, and what the pool is told about a connection afterwards.

## The system

| Part | State | Operations | Interacts with |
|---|---|---|---|
| Session (`network/session.go`) | socket, in and out buffers, `breakConn`, `remainingBytes`, `Summary`, saved states | `Write`, `read`, `processMarker`, `BreakConnection`, `StartContext`, `EndContext`, `Connect`, `Disconnect` | server, every caller |
| Watchdog (`StartContext`) | `done` channel, context | break or disconnect on cancellation | Session, concurrently with the call |
| Statement (`command.go`) | cursor id, `parse`/`define`/`execute`, `_hasMoreRows`, `_noOfRowsToFetch`, columns | `ExecContext`, `QueryContext`, `fetch`, `Close` | Session, ResultSet |
| Result set (`result_set.go`, `data_set.go`) | `rows`, `index`, columns | `Next`, `Close`, `NextResultSet` | Statement |
| REF CURSOR (`ref_cursor.go`) | a statement of its own | `Query`, `load` | Statement |
| Transaction (`transaction.go`) | `autoCommit`, the transaction's context | `BeginTx`, `Commit`, `Rollback` | Connection |
| Connection (`connection.go`) | `State`, `bad`, temporary locators, session properties | `OpenWithContext`, `Ping`, `Close`, `ResetSession`, `IsValid` | pool, Session |
| Cookie store (`connection_cookie.go`) | a map shared by all connections | lookup, save, delete | `OpenWithContext` |
| Server list (`configurations/database_info.go`) | servers, active index | `GetActiveServer`, `ResetServerIndex`, `UpdateDatabaseInfoForRedirect` | `Session.Connect` |
| LOB stream (`lob.go`) | locator, size | read, write, create and free temporary | Session |
| Codec (`network/basic_session.go`, `converters`) | none | encode, decode | all |
| Negotiation, authentication, advanced services | tables, keys | one exchange each | `OpenWithContext` |

What makes it hard: `database/sql` calls a connection from one goroutine at a
time, but every call with a context starts a second goroutine that may write an
interrupt on the same socket at any moment, before the request, in the middle of
it, during the reply, or after the call has returned; the break and reset
markers then have to be paired with the right packets. A call can end in many
ways (reply, server error, break, lost connection, deadline), each of which
decides by a different piece of code whether the pool keeps the connection.

## Modules

### CallSession

One pooled connection. `pc` is the goroutine of the current call, `wd[c]` the
watchdog goroutine of call `c`, `c2s`/`s2c`/`urgent` the two directions of the
socket and the out-of-band byte, `sst` the server.

| Model | Code |
|---|---|
| `StartCall` | the pool's `ResetSession`, then `ResetBuffer` and `StartContext` |
| `WriteRequest`, `WriteFails` | one packet of `WriteRPC` through `writePacket` |
| `ReadReply` | `Session.read` on a data packet, from `inBuffer` or the socket |
| `ReadMarker`, `MarkerWriteFails`, `ReadAfterReset` | `processMarker`, then `ErrConnReset` and the caller's second read |
| `ReadFinal`, `ReadFails`, `ReadTimeout` | data flag 0x40, a failed read, a read deadline |
| `ReturnCtxErr`, `ReturnOutcome` | the select of `ExecContext` and `QueryContext`; the other operations only return |
| `WatchdogDone`, `WatchdogFires`, `BreakConnection`, `SetBreak` | the goroutine of `StartContext` |
| `Server...`, `LoseConnection` | external: what the client relies on |

A call has a kind, because the code paths differ in what they do with an error:
`exec` (`Stmt.ExecContext`), `query` (`Stmt.QueryContext`), `simple` (commit,
rollback, ping), `close` (closing a cursor, without a context), `fetch`
(`defaultStmt.fetch`, without a context) and `refcursor` (`RefCursor.Query`).
Packets carry the call they belong to, whether they are the last of their
message, and a code; their bytes are abstract.

A slot of `Calls` can be used again once its watchdog has gone, so two slots are
enough for a watchdog of one call to meet the next call, and its successors.

### PooledConnection

The contract of CallSession, without packets, markers and goroutines: one call at
a time starts, may be cancelled, may get the answer to its own request, may lose
the connection, and returns one of the outcomes `MayReturn` allows, after which
`Verdict` says whether the pool may hand the connection out again. CallSession
implements it (`PooledSpec`); the refinement mapping takes the answer of a call
from the last packet of its reply (`AnswerDue`).

### CallSessionProofs

The invariant of the conversation between client and server, and the refinement
of PooledConnection.

### ResultSet

One query and its rows. A row is its position in the answer. `Query` and
`QueryLobPrefetch` are the one or two round trips of `_query`; each return path
of `ResultSet.Next` is an action. The server chooses how many rows a fetch
brings, and whether 1403 comes with the last row or alone (`Ships`, external).
The prefetch is one of `Prefetches`, zero among them (`PREFETCH_ROWS=0`); a
negative one, which `connect_config.go:306` would accept too, is left out.
`NoPanic` is about the division by zero of `index % len(rows)`, for a caller that
stops at the first error, as `database/sql` does; `Next_` called after a failed
fetch does divide by zero.

### ResultSetProofs

The invariant `IInv` and the theorems about ResultSet.

### Transaction

Transactions of `database/sql` and executions outside them, on one pooled
connection. `holder` is the owner the pool has given the connection to,
`autoCommit` and `bad` are the fields of the connection, `op` and `at` are the
call under way, `pending` and `committed` the changes in the server's session
and in the database. A change is the owner and the position of its execution.

| Model | Code |
|---|---|
| `BeginTx` | `Begin`, `BeginTx`: only `autoCommit = false`, nothing is sent |
| `Exec`, `CommitBit` | `ExecContext` of DML, PL/SQL or `CALL`; the commit bit of `getExeOption`, which leaves out `CALL` (the executions in `calls`), or `execFlag` for a statement executed again |
| `Commit`, `Rollback` (`End`) | `transaction.go`: `autoCommit = true`, then a call under the transaction's context |
| `ReturnExec`, `ReturnEnd`, `EndOutcome`, `MarkBad` | the select of `ExecContext`; `simpleObject.exec`; `isBadConn` |
| `CancelTx`, `WatchdogFires`, `BreakConnection` | the contexts that may end (`Expiring`: a transaction's, an execution's), and the goroutine of `StartContext`, which may write its interrupt after its call has returned |
| `Server...`, `LoseConnection` | external |

CallSession has the packets of a call; here a call is what the server did with
it and what the caller was told. `MarkBad` is a choice for a lost connection,
because which errors mark it depends on where the loss is met (CallSession's
`isBadConn`). Queries and DDL are left out: they make no change that waits for a
commit, or commit by themselves.

### Connect

Several connections being opened at once. Per connection there are the goroutine
of `OpenWithContext` (`pc`), the watchdog of its session (`wd`), the published
socket (`sock`) and the server list (`servers`, `idx`); the cookie store and the
database are shared.

| Model | Code |
|---|---|
| `Open` | `OpenWithContext` to the call of `Connect` |
| `DialSucceeds`, `DialFails`, `Publish` | the dial loop; a socket is published under the mutex, after the dial |
| `SendConnect`, `Accepted`, `Redirected`, `Refused`, `BadAnswer` | the rest of `Connect`; a redirect or refusal calls `Connect` again (`Reconnect`) |
| `LoginWithCookie`, `LoginNegotiated`, `Authenticated`, `Denied` | the two branches of fast login, negotiation, `doAuth` |
| `AuthReset`, `Renegotiated` | a reset marker in `doAuth`: the negotiation is read again, with early returns on errors, and then the answer |
| `Reopens`, `Reopen` | the retry without the cookie after `io.EOF` or `ErrBadConn` (a packet that closes the connection) of `doAuth` or of the last read after a reset marker |
| `SaveCookie`, `GotVersion`, `SetConnected`, `QueryEnds` | the rest of `OpenWithContext` |
| `IOFails`, `Fail` | every other error return; the socket is left to the caller |
| `WatchdogFires`, `WatchdogDisconnects`, `WatchdogBreaks` | the goroutine of `StartContext`, which reads `Connected` before it acts |
| `CookieRejected`, `LoseSocket`, `Upgrade` | external |

The version of the database stands for everything a cookie remembers. That a
database hangs up on a cookie that is not its own is taken from the retry in the
code, which waits for exactly that. The store has one key: connections to other
services do not meet. `saved` counts the cookies saved and `spent[c]` how many
there were when connection `c` last gave one up. Advanced negotiation and protocol
negotiation are exchanges that succeed or fail; TLS is not modelled.

### TransactionProofs, ConnectProofs

The invariants and theorems about Transaction and Connect.

### Framing, ByteStream

The packet layer below CallSession. Payload bytes are numbered, so that losing,
doubling or moving one shows. `NewCall`, `WriteRPC` and `WriteInterrupt` fill
`sendPcks`; `StartRead`, `EnterPacket`, `Receive` and `Timeout` are
`Session.read`, `readPacketData` and `readAll`, with the read deadline between
any two bytes; `TakeData`, `TakeMarker`, `TakeResend` and `TakeShort` are what
`readPacket` and `processMarker` do with a packet. A full segment in `sendPcks` is a
reference to the one slice `WriteRPC` reuses. ByteStream is what the layers above
rely on: a read returns the next bytes, all of them or none.

### FramingProofs

The invariants of the packet layer, one for each direction and one for the frame,
and the refinement of ByteStream.

### Codec, Numbers

Algorithms: `PutInt`, `PutUint` and `GetInt64` with its sign bit,
`PutClr`/`GetClr` with both chunkings, DLC, fixed CLR and key-value pairs in Codec, and the NUMBER format of `types/number.go` in
Numbers. The state is the buffer and what was put into it and not yet got, so
that an encoding that leaves a byte behind damages the value after it. The
reference is the value put: sequences of bytes for integers, and for numbers
`[neg, d, e]` with an order of its own (`Less`). Infinities, which no input of the
model produces, are left out.

### Statement

One statement over several executions, with the server's cursor beside it: the
definitions and values it has (`Serve`, `Ran`, `Fits`, external) and the rows it
sends.

| Model | Code |
|---|---|
| `setParams`, `Changed` | `setParam` and its conditions for `reSendParDef` |
| `useNamedParameters`, `writePars`, `write` | the functions of these names; `write` chooses between values only and a full request |
| `setBitVector`, `readRow`, `Read` | messages 6, 21 and 7 of `defaultStmt.read` |
| `BindFails`, `Refused` | the error returns before and after the request |
| `Exec` | `_exec`; `Connection.ExecContext` is the same followed by `CloseStmt` |
| `Query`, `QueryInline`, `InlineRefused` | `_query`, with and without `queryLobPrefetch` |
| `QueryImplicit`, `ImplicitRefused` | `_query` with implicit results |
| `Fetch`, `CloseRows`, `CloseStmt` | `fetch`, `DataSet.Close`, `Close` |

`past` collects what the properties make exceptions for (`Remarks`); the first of
them, `Displaced`, is that `setParam`, which goes by position, compares an argument
with the parameter of another name. The server is
taken to announce a bit vector in the header of a reply that leaves out a column
of its first row, and again before each row that leaves out others.

### TempLobs

The temporary LOBs of one connection: values of the application with or without
a streamer and a locator, the connection's list of locators, and the LOBs alive
at the server. `CreateBlob`, `SetValue`, `CopyBlob` (`SetValue` with another
`Blob`, which copies the pointer to its streamer: `stream[b]` is the set of values
that have the streamer of `b`), `SetLocator` and `SetLocatorNil` (a value received,
NULL or not), `Bind` (`BlobParameter.Encode`), `Free`, and `Close`, `FreeBatch` and
`Closed`, the loop of `freeTemporaryLobs` turn by turn. Creating and writing a LOB
are two round trips, of which either may fail.

### TempLobsProofs

The invariant and the theorems about TempLobs.

## Runs

| Run | Result | Shows |
|---|---|---|
| `call_session` | holds | `OwnReply`: a call consumes packets of its own reply only. `PooledStreamClean`: a live connection in the pool has no reply under way and no server call running, at most the break marker of a late interrupt. `PooledSpec`: CallSession implements PooledConnection. |
| `call_session_live` | holds | `CancelReturns`: a cancelled call returns, even if the server would never answer. `StruckReturns`: a call the server breaks off returns, also if the break belongs to the call before it. |
| `read_deadline` | violated | `OwnReply` with a read deadline: the connection is kept and the late reply is read by the next call. |
| `result_set` | holds | `RowsInOrder`, `EOFComplete`, `NoPanic`, `RowsEnd`. |
| `transaction` | holds | `CommitDurable`: a commit reported as successful kept every execution reported as successful. `RollbackFinal`: a rollback reported as successful is never undone. `AutoCommitted`: `autoCommit` is on for whoever comes after a transaction. `AllOrNothing`: a transaction is never committed in part, even if its end was interrupted. |
| `tx_cancelled` | violated | `RolledBackStays`: a rollback asked for because the context is over runs under that context; interrupted by its own watchdog, it leaves the transaction open on a connection that goes back to the pool with `autoCommit` on, and the next execution commits it. |
| `connect` | holds | `EveryServerTried`: no mixture of dial failures, refusals, redirects and retries skips a server. `NewCookieOnly`: a connection that begins again because of a cookie never meets it again, whatever other connections do to the store. `NoStraySocket`: no open socket is replaced, by a dial or by opening again. |
| `connect_live` | holds | `OpenEnds`: retries without a cookie end, although other connections put cookies back. |
| `framing` | holds | `FrameKept`, `PayloadConserved`: deadlines, markers and new calls lose no byte and no packet boundary. `RequestWhole`, `ResendRepeats`: the packets of a request are the request, and are repeated as they were. `StreamSpec`: Framing implements ByteStream. |
| `codec` | holds | `InStep`: reader and writer stay in step, also over values cut to their size. `RoundTrip`. `NumberOrder`: numbers are ordered as their bytes are. `NumberNormal`: one number has one encoding, accepted by both decoders. |
| `statement` | holds | `DefinitionsFit`: the server can read every request by the definitions it has. `OwnValues`: an execution has the values of its own call. `OwnRows`: the rows are those of the execution. `NoCursorLeft`. |
| `temp_lobs` | holds | `Noted`, `FreesAll`: no temporary LOB is forgotten. `FreesOnce`. `BoundData`: a statement is given the data of the value bound. |

### Where the properties stop

Each exception is named in the property, and is something the code does:

- `PooledSpec` allows a late interrupt to cost the next call its answer, and a
  connection lost under a cancelled `ExecContext` or `QueryContext` to go back to
  the pool (`command.go:1243`).
- `FrameKept`, `PayloadConserved` and `StreamSpec` end with a deadline inside a
  header: the rest of the header is then taken for a whole packet
  (`session.go:913`).
- `ResendRepeats` leaves out full segments followed by another one: they share a
  slice (`session.go:665`; with encryption the packet has a copy).
- `EOFComplete` leaves out a prefetch of zero rows: the first reply then has none,
  and `Next` reports the end of the rows without a fetch, although
  `result_set.go:448` says that `Next_` returns "false if no other rows in dataset".
- `AutoCommitted` leaves out the first execution of a `CALL`, for which
  `getExeOption` sets no commit bit (`command.go:599`); executed again it has one.
- `NewCookieOnly` does not say that a stale cookie is harmless. An opening that
  uses one and fails in the negotiation read after a reset marker
  (`connection.go:684-695`), or with another error than the end of the connection,
  returns the error and leaves the cookie in the store.
- `InStep` leaves out a compressed `PutUint` of a value longer than its size, which
  writes all its bytes after the capped length (`basic_session.go:361`).
  `command.go:460-463` puts the number of rows to fetch and `exeOf` in two bytes.
- `RoundTrip` is about integers that fit their size and exponents that fit their
  byte. `NumberOrder` and `NumberNormal` also leave out negative numbers of 20
  digits or more, which have no terminator, and strings below one, whose leading
  zeros are encoded.
- `DefinitionsFit` leaves out every call in which `setParam`, which goes by
  position, compares an argument with the parameter of another name: after a call
  with another order of the arguments, and for each argument behind a repeated
  name of the text. With `:a, :a, :b`, `b` may become short after being LONG, and
  the definitions are not sent again, although the comment in `setParam` says
  "resend parameter definition when string/[]byte length change from long to short
  and vice versa". `OwnValues` leaves such a call out only if a parameter is LONG.
- `DefinitionsFit` leaves out a repeated LONG parameter, whose value is written
  twice; `OwnValues` only where another LONG parameter follows the repetition and
  gets that value.
- Both leave out arguments that change between string and number, and `OwnValues` a
  call that leaves out a parameter, which takes the earlier value.
- `OwnValues` and `OwnRows` leave out new definitions after an inline query, whose
  `execute` stays `FALSE`; `OwnRows` and `DefinitionsFit` an inline query whose
  second round trip failed; `OwnRows` result sets open while the statement is
  executed again.
- `NoCursorLeft` leaves out a close that failed, implicit results of an `Exec`,
  and a failed query of an implicit result.
- `FreesAll` is about at most two batches: the loop then goes on too far
  (`connection.go:901`). `FreesOnce` leaves out `Free`, which keeps the
  connection's note; `BoundData` values set again while they have a locator, values
  whose copy was set and uploaded first, values whose upload failed, and LOBs the
  server returned twice.

### Bounds

`ReqPkts = 2` puts an interrupt between two packets of a request.
`MaxInFlight = 2` lets a reply and its successor be under way together; break
and reset packets are not counted. Two call slots are interchangeable
(`Symmetry`), which is used only in runs that check safety. Seven rows with a
prefetch of two or zero, the default size equal to the prefetch and a computed size of
three make every fetch size change, short fetches, empty fetches and 1403 with
and without rows happen.

Two transactions of up to `MaxStmts = 2` executions and one execution outside
them let an interrupted end meet another transaction and an autocommit, and a
transaction be cut between two executions. At most `MaxLate = 2` watchdogs are
between their decision and their interrupt at once. Two connections, a list of two servers and a redirect (`MaxHops = 1`)
to a list of two, one of them in both, make every mixture of failures happen on
both lists; `MaxVersion = 2` is one upgrade, which makes one cookie stale for
both connections. A socket lost by a reset is in `connect`, and one that ends,
which an opening takes for a rejected cookie, in `connect_live`; rejected cookies
are in both. The liveness run has one server and no redirect: with
listeners that always redirect, `Connect` calls itself for ever.

Framing has a header of three bytes for eight, which still has a first, an inner
and a last one, and segments of two bytes: requests of none, two and five bytes
are an empty packet, a packet that is just full, and three packets of which the
last is not. The lengths in Codec are on both sides of 0xFC and of a multiple of
the chunk size; big chunks have 100 bytes for 32767, so that several of them
happen. Statement has two parameters, one repeated or not, and two executions
(three for DML, whose parameters have the most types); three rows in batches of
two give a second reply. TempLobs has batches of one locator for 25000, and three
locators, one more than two batches; values and data are interchangeable
(`Symmetry`).

### Fairness

`call_session_live` assumes weak fairness of the call's goroutine, of each
watchdog, and of the server's reading and reacting to what it was sent. It
assumes nothing about the server finishing a call: that is what cancellation is
for. It also assumes that an interrupt met between calls is answered
(`IdleReactions = {"answer"}`): the watchdog interrupts once, so with a server
that ignores an interrupt before the request the cancellation is lost.
`result_set` assumes a caller that keeps calling `Next`.

`connect_live` assumes that dials end, listeners and the database answer, and
both goroutines of an opening go on (`FairSpec`); nothing is assumed of
cancellation, losses and upgrades. The watchdog of an opening acts once: with a
silent database a cancelled opening may wait for ever, in the login after a dial
that outlived the disconnect, or in the time-zone query.

## Proofs

`ResultSetProofs` proves, for every `NRows`, `DefaultSize` and `Computed` and any
set of `Prefetches`, zero allowed, with and without LOB columns, and for a caller
that stops on an error (`StopsOnError`, what `database/sql` does), that the rows
are delivered in order (`RowsDelivered`), that end of file means all of them if the
prefetch is not zero (`EOFMeansAll`), and that `Next` never divides by zero
(`NextNeverPanics`).

None of the three is inductive. Whether the row at `index` is the next one
depends on which rows are held, and that on what was shipped. `IInv` therefore
adds: the rows held are the last ones shipped (`Held`); while the caller may
call `Next`, `index` counts the rows held that were delivered, so
`Len(delivered) = shipped - Len(rows) + index` (`Position`, in which a first reply
without rows is the one case apart); and
`_hasMoreRows` is cleared only when nothing is left (`Exhausted`). `Run(q, n)`,
"q holds consecutive rows up to row n", carries the sequence reasoning: a
fetched batch is a run, and a run followed by the batch shipped next is a run.

`TransactionProofs` proves `CommitIsDurable`, `RollbackIsFinal`,
`AutoCommitDurable` and `TransactionAtomic` for any disjoint sets of transactions
and executions, any of which may be a `CALL`, and any bounds. The properties speak of what was reported, but
what a later commit takes along depends on what the session still holds.
`IInv` therefore says: `autoCommit` and the flag of a request under way agree with
the holder (`Flagged`); what is pending belongs to a transaction that is open,
ending, or whose end failed (`Leftover`); the acknowledged executions of a
transaction are all committed, or none of it is and they are pending together or
gone (`Together`); nothing of the transaction under way is committed before its
commit takes effect (`Underway`); and a request that was carried out has done its
work (`CarriedOut`). Only with these are the reported outcomes (`Settled`) kept by
every step.

`ConnectProofs` proves `NoServerSkipped`, `CookieGivenUp` and `SocketsKept` for
any number of connections, lists, redirects and upgrades. `Progress` ties the
servers tried to the index at each stage, `Unpublished` says that the session has
no socket until one is published, whatever the watchdog does, `Reported` that
the reason of a failure is recorded only at the end, and `Renewed` that a cookie
in use or in the store is newer than the ones given up, which holds because
`deleteCookie` empties the store whatever it holds by then. There is one lemma per
action, and types are proved in three groups (session, list, login).

`FramingProofs` proves every property of the run `framing`, for any lengths of
headers, segments, requests and packets. `FrameIsKept`: while no deadline has cut
a header, `off` bytes of the packet on the socket are held and `remaining` are due,
as `rd` says. `PayloadIsConserved` needs two more facts. The packets on the socket
continue each other (`Chained`), whether or not the frame is kept. What was taken,
what the read under way has and what `inBuffer` holds are consecutive runs of
bytes up to the first of those packets (`InOrder`). A run is `Bytes(k, n)`; the
lemmas `BytesConcat` and `BytesCut` carry the sequence reasoning. `StreamRefined`
follows: each step either adds a run to `result` or leaves it. For
`RequestIsWhole` and `ResendIsFaithful` the invariant relates each entry of
`sendPcks` to the packet written (`Keeps`): it has the bytes itself, or it refers to
the shared slice and the packet ends before the last segment.

`CallSessionProofs` proves `RepliesAreOwn`, `PoolIsClean` and `PoolRefined` for any
number of calls, watchdogs and packets in flight, any length of requests, any way
to interrupt and any reaction of an idle server, and `TypeCorrect`. That a reply
is the call's own depends on everything that is under way in both directions, so
the invariant is a grammar of each. `Incoming`: packets of the current call's
reply, then at most one break marker, then the end of the connection; a reset
marker only comes first, while the client waits for it, and an answer follows it.
`Outgoing`: the rest of the current request with interrupts anywhere in it, then a
reset marker while the client waits. `Serving` says what the server is doing by
what is under way: it has broken off exactly when a break marker is on its way or
was read and not yet answered by the reset. `Client` has the consequence that the
second branch of the recovery is never taken and `inBuffer` is empty between
packets, and `Ending` how each kind of call ends. For the refinement,
`AnswerFacts` says that the answer due is the code of the one packet in flight that
ends a reply. The three theorems assume `"refcursor" \notin Kinds`:
`RefCursor.Query` does not read on after `ErrConnReset` (`ref_cursor.go:143`), so
that the answer to the reset is left for the next call. The run has the same kinds.
They are about `Spec`, which has no read deadline; with one (`DeadlineSpec`)
`OwnReply` fails, as the run `read_deadline` shows.

`TempLobsProofs` proves all four properties of TempLobs for any number of values,
locators and any length of a batch. The invariant: the locators noted are those
of the LOBs that live, each once, and once `Free` was called of some that do not
(`NotedInv`); values with one streamer know each other and have one locator
(`GroupInv`), so that giving the streamer a locator, or taking it away, does so for
all of them; a value with a locator and no mark in `past` has the data of that LOB,
which lives, and two values that do not share a streamer have the same LOB only if
both are marked (`ValueInv`, without which `Free` of one would break the other);
what the loop of `freeTemporaryLobs` has sent comes from before `start`, nothing
twice and, with at most two batches, everything before `start` (`Loop`).

`TransactionProofs` and `ConnectProofs` also prove the types (`TypesKept`).

Only model-checked are:

- the liveness properties `RowsEnd`, `CancelReturns`, `StruckReturns` and
  `OpenEnds`, as the prover has no rules for fairness;
- the properties of Statement;
- the properties of Codec and Numbers: what their recursive functions compute for
  every input needs induction over data, which is out of the prover's reach.

## Not modelled

- Negotiation tables, authentication and encryption, TLS, wallets and connection
  strings, conversion of values by reflection, dates and intervals, OSON and
  vectors, user defined types, advanced queuing: computation on data without
  protocol state.
- Output parameters, array binds and struct parameters of a statement, LOBs read
  by pieces, and replies that `defaultStmt.read` gives up in the middle of.
- The driver's session parameters: a map that each new connection applies.
- `SaveState` and `LoadState`: only `requestCustomTypeInfo`, which nothing calls,
  uses them. `bulk_copy.go` is commented out in the source.
- Character set tables (`converters/`), which are most of the repository's lines,
  and the older generations of the driver beside `src/v3`.

Measured in lines the modules therefore cover a small share of the repository:
the code that has state and order, not the tables and the older copies.
