------------------------------ MODULE TempLobs ------------------------------
(***************************************************************************)
(* Temporary LOBs of one connection: src/v3/lob.go, types/lob.go,          *)
(* types/blob.go, parameter_coder/blob.go, and freeTemporaryLobs of        *)
(* connection.go.                                                          *)
(*                                                                         *)
(* The data of a LOB value goes to the server as a temporary LOB, which is *)
(* created and then written, and the statement is given its locator.  The  *)
(* server also returns locators of temporary LOBs of its own.  A temporary *)
(* LOB takes space at the server until it is freed: by Free of the value,  *)
(* or for all locators the connection has noted, when it is closed.        *)
(*                                                                         *)
(* Data is a member of Data, or 0 for none.  A locator is <<kind, id>>.    *)
(***************************************************************************)
EXTENDS Naturals, Sequences, Functions

CONSTANTS
  Lobs,     \* the LOB values of the application (types.Blob)
  Data,     \* what their data may be
  MaxIds,   \* bound on the LOBs the server gives a locator for
  Batch     \* locators freed by one function call: 25000

ASSUME BoundsAssumption == MaxIds \in Nat /\ Batch \in Nat \ {0}

VARIABLES
  stream,         \* the values with the LobStreamer of a value, {} without one
  locator,        \* sourceLocator of the streamer
  data,           \* bValue of the value
  temporaryLocs,  \* the locators noted by the connection
  State,          \* "Opened", "Freeing" in freeTemporaryLobs, or "Closed"
  live,           \* the temporary LOBs at the server
  content,        \* the data of every LOB at the server
  bound,          \* the value the last step bound to a parameter
  start,          \* local variable of freeTemporaryLobs
  freed,          \* what freeTemporaryLobs sent, had noted, and found live
  past            \* <<what, value>>: what happened to a value

lobVars == <<stream, locator, data>>
vars == <<lobVars, temporaryLocs, State, live, content, bound, start, freed, past>>

Nil == <<"nil", 0>>
Dummy == <<"dummy", 0>>      \* what CreateTemporaryLocator sends
Temporary(id) == <<"temporary", id>>

NextId == Len(content) + 1

Unbound == [meant |-> 0, sent |-> 0, excused |-> FALSE]

Init ==
  /\ stream = [b \in Lobs |-> {}] /\ locator = [b \in Lobs |-> Nil]
  /\ data = [b \in Lobs |-> 0]
  /\ temporaryLocs = <<>> /\ State = "Opened"
  /\ live = {} /\ content = <<>>
  /\ bound = Unbound
  /\ start = 0 /\ freed = [sent |-> <<>>, noted |-> <<>>, live |-> {}]
  /\ past = {}

-----------------------------------------------------------------------------

\* Mutant: without the search for the locator.
appendAlways(loc) == temporaryLocs' = Append(temporaryLocs, loc)

appendTemporaryLoc(loc) ==
  temporaryLocs' = IF loc \in Range(temporaryLocs) THEN temporaryLocs
                   ELSE Append(temporaryLocs, loc)

\* Mutant: a locator is noted only if the data could be written.
noteWritten(loc, written) ==
  IF written THEN appendTemporaryLoc(loc) ELSE UNCHANGED temporaryLocs

\* CreateTemporaryLocator notes the locator before the data is written.
note(loc, written) == appendTemporaryLoc(loc)

\* uploadData with the streamer of a new LOB: create it, then write v to it.
\* written says whether the second round trip works.
Upload(v, written) ==
  /\ NextId <= MaxIds
  /\ live' = live \cup {NextId}
  /\ content' = Append(content, IF written THEN v ELSE 0)
  /\ note(Temporary(NextId), written)

\* The server refuses to create the LOB.
NoUpload == UNCHANGED <<live, content, temporaryLocs>>

-----------------------------------------------------------------------------
(* Values                                                                  *)

\* The streamer the values bs have is given a locator.
Locate(bs, loc) ==
  locator' = [b \in Lobs |-> IF b \in bs THEN loc ELSE locator[b]]

\* Blob.SetValue with data v: Upload does something only if there is data, and
\* unless IsDataUploaded.
Store(b, v) ==
  LET uploads == v # 0 /\ stream'[b] # {} /\ locator[b] = Nil
  IN  /\ data' = [data EXCEPT ![b] = v]
      /\ \/ \E written \in BOOLEAN :
              /\ uploads /\ Upload(v, written)
              /\ Locate(stream'[b], Temporary(NextId))
              /\ past' = past \cup
                   (IF written
                    THEN {<<"reset", c>> : c \in {d \in stream'[b] : data'[d] # v}}
                    ELSE {<<"broken", c>> : c \in stream'[b]})
         \/ /\ uploads /\ NoUpload
            /\ Locate(stream'[b], Dummy)
            /\ past' = past \cup {<<"broken", c>> : c \in stream'[b]}
         \/ /\ ~uploads /\ NoUpload
            /\ locator' = locator
            /\ past' = IF locator[b] = Nil THEN past ELSE past \cup {<<"reset", b>>}
      /\ bound' = Unbound
      /\ UNCHANGED <<State, start, freed>>

\* types.CreateBlob: a value with a streamer, and data or none.
CreateBlob(b, v) ==
  /\ State = "Opened" /\ stream[b] = {}
  /\ stream' = [stream EXCEPT ![b] = {b}]
  /\ Store(b, v)

SetValue(b, v) ==
  /\ State = "Opened"
  /\ stream' = stream
  /\ Store(b, v)

\* What is remembered once the values bs have another locator.
Forget(bs) == {p \in past : p[2] \notin bs \/ p[1] = "freed"}

\* SetValue with another Blob c: its data, and its streamer itself.
CopyBlob(b, c) ==
  /\ State = "Opened" /\ b # c
  /\ LET group == IF stream[c] = {} THEN {} ELSE stream[c] \cup {b}
     IN  stream' = [d \in Lobs |-> IF d \in group \cup {b} THEN group
                                   ELSE stream[d] \ {b}]
  /\ locator' = [locator EXCEPT ![b] = locator[c]]
  /\ data' = [data EXCEPT ![b] = data[c]]
  /\ past' = Forget({b}) \cup {<<p[1], b>> : p \in {q \in past : q[2] = c}}
  /\ bound' = Unbound
  /\ UNCHANGED <<temporaryLocs, State, live, content, start, freed>>

\* A value that is read has a streamer of its own.
NewStreamer(b) ==
  stream' = [d \in Lobs |-> IF d = b THEN {b} ELSE stream[d] \ {b}]

\* lobParameter.Read and SetLocator: the value becomes LOB id of the server, a
\* temporary one or one of a table, which it may have returned before, and its
\* data is read.
SetLocator(b, kind, id, v) ==
  /\ State = "Opened"
  /\ \/ /\ id = NextId
        /\ content' = Append(content, v)
     \/ /\ id \in live /\ v = content[id] /\ kind = "temporary"
        /\ content' = content
  /\ NewStreamer(b)
  /\ locator' = [locator EXCEPT ![b] = <<kind, id>>]
  /\ data' = [data EXCEPT ![b] = v]
  /\ IF kind = "temporary"
     THEN live' = live \cup {id} /\ appendTemporaryLoc(Temporary(id))
     ELSE UNCHANGED <<live, temporaryLocs>>
  /\ past' = Forget({b})
       \cup (IF id = NextId THEN {}
             ELSE {<<"shared", c>> : c \in {b} \cup {d \in Lobs : locator[d][2] = id}})
  /\ bound' = Unbound
  /\ UNCHANGED <<State, start, freed>>

\* The LOB that is read is NULL: SetLocator with no locator, and no data.
SetLocatorNil(b) ==
  /\ State = "Opened"
  /\ NewStreamer(b)
  /\ locator' = [locator EXCEPT ![b] = Nil]
  /\ data' = [data EXCEPT ![b] = 0]
  /\ past' = Forget({b})
  /\ bound' = Unbound
  /\ UNCHANGED <<temporaryLocs, State, live, content, start, freed>>

\* Mutant: only values with a streamer of their own are ever uploaded.
EncodeNever(b) == FALSE

\* Whether BlobParameter.Encode uploads the data for a parameter of its own.
EncodeUploads(b) == locator[b] = Nil /\ data[b] # 0

\* Content of the LOB a locator stands for; the dummy stands for none, and so
\* does the locator of a temporary LOB that was freed.
At(loc) == IF loc[2] = 0 \/ (loc[1] = "temporary" /\ loc[2] \notin live) THEN 0
           ELSE content[loc[2]]

\* BlobParameter.Encode, and the execution of the statement.  The value itself
\* does not keep the streamer of the upload.
Bind(b) ==
  /\ State = "Opened"
  /\ \/ /\ EncodeUploads(b)
        /\ \E written \in BOOLEAN :
             /\ Upload(data[b], written)
             /\ bound' = IF written THEN [meant |-> data[b], sent |-> data[b],
                                          excused |-> FALSE]
                         ELSE Unbound
     \/ EncodeUploads(b) /\ NoUpload /\ bound' = Unbound
     \/ /\ ~EncodeUploads(b) /\ NoUpload
        /\ bound' = [meant |-> data[b], sent |-> At(locator[b]),
                     excused |-> \E w \in {"reset", "broken", "shared"} :
                                   <<w, b>> \in past]
  /\ UNCHANGED <<lobVars, State, start, freed, past>>

\* lobBase.Free takes the locator from the streamer, and so from every value that
\* has it.  The server refuses a locator that is no temporary LOB of it, and a
\* quasi locator is not sent: either way nothing changes.
Free(b) ==
  /\ State = "Opened" /\ locator[b] # Nil
  /\ \/ /\ locator[b][1] = "temporary" /\ locator[b][2] \in live
        /\ live' = live \ {locator[b][2]}
        /\ Locate(stream[b], Nil)
        /\ past' = Forget(stream[b]) \cup {<<"freed", b>>}
     \/ UNCHANGED <<live, locator, past>>
  /\ bound' = Unbound
  /\ UNCHANGED <<stream, data, temporaryLocs, State, content, start, freed>>

-----------------------------------------------------------------------------
(* The connection                                                          *)

Least(m, n) == IF m < n THEN m ELSE n

\* Mutant: each batch starts after the first locator of it.
batchLate(locs, first) == SubSeq(locs, first + 2, Least(first + Batch, Len(locs)))

\* The locators of one function call.
batch(locs, first) == SubSeq(locs, first + 1, Least(first + Batch, Len(locs)))

\* Connection.Close calls freeTemporaryLobs.
Close ==
  /\ State = "Opened"
  /\ State' = "Freeing" /\ start' = 0
  /\ freed' = [sent |-> <<>>, noted |-> temporaryLocs, live |-> live]
  /\ bound' = Unbound
  /\ UNCHANGED <<lobVars, temporaryLocs, live, content, past>>

\* One turn of the loop of freeTemporaryLobs.  The next one starts at start + end.
FreeBatch ==
  /\ State = "Freeing" /\ start < Len(temporaryLocs)
  /\ freed' = [freed EXCEPT !.sent = @ \o batch(temporaryLocs, start)]
  /\ start' = start + Least(start + Batch, Len(temporaryLocs))
  /\ bound' = Unbound
  /\ UNCHANGED <<lobVars, temporaryLocs, State, live, content, past>>

\* All batches are written as one request, which may fail; then the session
\* ends, with which the server drops what is left.
Closed ==
  /\ State = "Freeing" /\ start >= Len(temporaryLocs)
  /\ temporaryLocs' \in {<<>>, temporaryLocs}
  /\ State' = "Closed"
  /\ live' = {}
  /\ bound' = Unbound
  /\ UNCHANGED <<lobVars, content, start, freed, past>>

Next ==
  \/ \E b \in Lobs :
       \/ Bind(b) \/ Free(b) \/ SetLocatorNil(b)
       \/ \E c \in Lobs : CopyBlob(b, c)
       \/ \E v \in Data \cup {0} : CreateBlob(b, v) \/ SetValue(b, v)
       \/ \E v \in Data, kind \in {"temporary", "table"}, id \in 1..MaxIds :
            SetLocator(b, kind, id, v)
  \/ Close \/ FreeBatch \/ Closed

Spec == Init /\ [][Next]_vars

-----------------------------------------------------------------------------
(* Properties                                                              *)

Ids(locs) == {locs[i][2] : i \in DOMAIN locs}

\* No temporary LOB is forgotten: while the connection is open it has noted the
\* locator of every one that lives at the server, those included whose data
\* could not be written (lob.go:277) and those the server made (lob.go:80).
Noted == State = "Opened" => live \subseteq Ids(temporaryLocs)

\* The LOB a statement is given has the data of the value that was bound
\* (parameter_coder/blob.go:20, types/lob.go:60), copies of a Blob, which have its
\* streamer, included.  Not so for a value that was set again while it had a
\* locator, or whose copy was set and uploaded first, or whose upload has failed,
\* as these count as uploaded; nor if the server returned the LOB a second time
\* and the other value may have freed it.
BoundData == bound.excused \/ bound.sent = bound.meant

\* Closing a connection frees every temporary LOB that lives, if no more than
\* two batches were noted: after the second batch the loop goes too far
\* (connection.go:901).
FreesAll ==
  State = "Closed" /\ Len(freed.noted) <= 2 * Batch
    => freed.live \subseteq Ids(freed.sent)

\* Closing a connection frees no LOB twice, and none that was freed before,
\* unless Free was called: that does not take the locator from the connection
\* (lob.go:225).
FreesOnce ==
  /\ \A i, j \in DOMAIN freed.sent : freed.sent[i] = freed.sent[j] => i = j
  /\ \/ \E b \in Lobs : <<"freed", b>> \in past
     \/ Ids(freed.sent) \subseteq freed.live
=============================================================================
