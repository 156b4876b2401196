--------------------------- MODULE ConnectProofs ---------------------------
(***************************************************************************)
(* Proofs about Connect, for any number of connections, any lists of       *)
(* servers and any number of redirects and upgrades.                       *)
(***************************************************************************)
EXTENDS Connect, TLAPS

(* How far along its list a connection is: the servers tried are the ones  *)
(* before the current one, and the current one from the dial on.           *)
Progress(c) ==
    /\ pc[c] \in {"dial", "publish", "send", "answer"} => idx[c] < Len(servers[c])
    /\ pc[c] = "dial" => tried[c] = 1..idx[c]
    /\ pc[c] \in {"publish", "send", "answer"} => tried[c] = 1..(idx[c] + 1)

(* No socket is published while there may be a new one.                    *)
Unpublished(c) == pc[c] \in {"start", "dial", "publish"} => sock[c] = "nil"

(* Why it failed is recorded at the end and not before.                    *)
Reported(c) ==
    /\ pc[c] # "failed" => out[c].err = "none"
    /\ out[c].err \in {"dial", "refused"} => tried[c] = 1..Len(servers[c])

(* A cookie a connection uses, or may find in the store, was saved after   *)
(* the one it gave up, which was saved already.                            *)
Renewed(c) ==
    /\ spent[c] <= saved
    /\ cookie[c] # NoCookie \/ store # NoCookie => spent[c] < saved

ConnInv(c) == Progress(c) /\ Unpublished(c) /\ Reported(c) /\ Renewed(c) /\ stray[c] = 0

(* The inductive invariant.                                               *)
IInv == TypeOK /\ \A c \in Conns : ConnInv(c)

(* Every list a connection may work on has a first server.                 *)
LEMMA ListLen == \A list \in {InitialList} \cup RedirectLists : Len(list) \in Nat /\ Len(list) > 0
<1> SUFFICES ASSUME NEW list \in {InitialList} \cup RedirectLists
             PROVE  Len(list) \in Nat /\ Len(list) > 0
    OBVIOUS
<1>1. list \in Seq(Servers) /\ list # <<>>
    BY ListAssumption
<1> QED
    BY <1>1

(* The servers tried, and the one after them.                              *)
LEMMA Grows == \A i \in Nat : (1..i) \cup {i + 1} = 1..(i + 1)
OBVIOUS

(* Opening begins with the first server and without a socket.              *)
LEMMA OpenStep ==
    ASSUME IInv, NEW d \in Conns, Open(d)
    PROVE  IInv'
<1> USE ListLen
    DEF IInv, TypeOK, sessionVars, listVars, loginVars, cookieVars, dbVars, NoCookie,
        Open
<1>1. SessionTypes'
    BY DEF SessionTypes, Stages, Over, Errors
<1>2. ListTypes'
    BY DEF ListTypes
<1>3. LoginTypes'
    BY DEF LoginTypes
<1>4. ASSUME NEW c \in Conns
      PROVE  ConnInv(c)'
    <2>1. Progress(c)'
        BY DEF ConnInv, Progress, SessionTypes, ListTypes
    <2>2. Unpublished(c)'
        BY DEF ConnInv, Unpublished, SessionTypes
    <2>3. Reported(c)'
        BY DEF ConnInv, Reported, SessionTypes, ListTypes, LoginTypes
    <2>4. stray'[c] = 0
        BY DEF ConnInv, Unpublished, SessionTypes
    <2>5. Renewed(c)'
        BY DEF ConnInv, Renewed, LoginTypes
    <2> QED
        BY <2>1, <2>2, <2>3, <2>4, <2>5 DEF ConnInv
<1> HIDE DEF Open
<1> QED
    BY <1>1, <1>2, <1>3, <1>4

(* A dial that succeeds counts its server as tried.                        *)
LEMMA DialSucceedsStep ==
    ASSUME IInv, NEW d \in Conns, DialSucceeds(d)
    PROVE  IInv'
<1> USE DEF IInv, TypeOK, sessionVars, listVars, loginVars, cookieVars, dbVars, NoCookie,
        DialSucceeds, HasServer
<1>1. SessionTypes'
    BY DEF SessionTypes, Stages, Over, Errors
<1>2. ListTypes'
    BY DEF ListTypes
<1>3. LoginTypes'
    BY DEF LoginTypes
<1>4. ASSUME NEW c \in Conns
      PROVE  ConnInv(c)'
    <2>1. Progress(c)'
        BY DEF ConnInv, Progress, SessionTypes, ListTypes
    <2>2. Unpublished(c)'
        BY DEF ConnInv, Unpublished, SessionTypes
    <2>3. Reported(c)'
        BY DEF ConnInv, Reported, SessionTypes, ListTypes, LoginTypes
    <2>4. stray'[c] = 0
        BY DEF ConnInv, SessionTypes
    <2>5. Renewed(c)'
        BY DEF ConnInv, Renewed, LoginTypes
    <2> QED
        BY <2>1, <2>2, <2>3, <2>4, <2>5 DEF ConnInv
<1> HIDE DEF DialSucceeds
<1> QED
    BY <1>1, <1>2, <1>3, <1>4

(* A dial that fails goes on to the next server, or has tried the last one. *)
LEMMA DialFailsStep ==
    ASSUME IInv, NEW d \in Conns, DialFails(d)
    PROVE  IInv'
<1> USE ListLen
    DEF IInv, TypeOK, sessionVars, listVars, loginVars, cookieVars, dbVars, NoCookie,
        DialFails, HasServer, Jump, Fail
<1>1. /\ idx[d] \in Nat /\ Len(servers[d]) \in Nat
      /\ idx[d] < Len(servers[d]) /\ tried[d] = 1..idx[d]
    BY DEF ConnInv, Progress, ListTypes
<1>2. tried'[d] = 1..(idx[d] + 1) /\ idx'[d] = idx[d] + 1
    BY <1>1, Grows DEF ListTypes
<1>3. idx[d] + 1 < Len(servers[d]) \/ idx[d] + 1 = Len(servers[d])
    BY <1>1
<1>4. SessionTypes'
    <2>1. CASE HasServer(d, Jump(idx[d]))
        BY <2>1 DEF SessionTypes, Stages, Over
    <2>2. CASE ~HasServer(d, Jump(idx[d]))
        <3>1. /\ out' = [out EXCEPT ![d] = [at |-> pc[d], err |-> "dial"]]
              /\ pc' = [pc EXCEPT ![d] = "failed"]
              /\ wd' = [wd EXCEPT ![d] = IF @ = "wait" THEN "gone" ELSE @]
            BY <2>2, Zenon
        <3>2. /\ sock' = [sock EXCEPT ![d] = "nil"]
              /\ UNCHANGED <<ctx, connected, stray, broken>> /\ pc[d] = "dial"
            BY <2>2, Zenon
        <3> HIDE DEF DialFails, Fail
        <3> QED
            BY <3>1, <3>2 DEF SessionTypes, Stages, Over, Errors
    <2> QED
        BY <2>1, <2>2
<1>5. ListTypes'
    BY <1>1, <1>2, <1>3 DEF ListTypes
<1>6. LoginTypes'
    BY DEF LoginTypes
<1>7. ASSUME NEW c \in Conns
      PROVE  ConnInv(c)'
    <2>1. Progress(c)'
        <3>1. CASE c = d
            BY <1>1, <1>2, <1>3, <3>1 DEF Progress, SessionTypes
        <3>2. CASE c # d
            BY <3>2 DEF ConnInv, Progress, SessionTypes, ListTypes
        <3> QED
            BY <3>1, <3>2
    <2>2. Reported(c)'
        <3>1. CASE c # d
            BY <3>1 DEF ConnInv, Reported, SessionTypes, ListTypes
        <3>2. CASE c = d /\ HasServer(d, Jump(idx[d]))
            BY <3>2 DEF ConnInv, Reported, SessionTypes
        <3>3. CASE c = d /\ ~HasServer(d, Jump(idx[d]))
            <4>1. tried'[d] = 1..Len(servers'[d])
                BY <1>1, <1>2, <1>3, <3>3
            <4>2. pc'[d] = "failed" /\ out'[d] = [at |-> pc[d], err |-> "dial"]
                BY <3>3 DEF SessionTypes
            <4> HIDE DEF DialFails
            <4> QED
                BY <4>1, <4>2, <3>3 DEF Reported
        <3> QED
            BY <3>1, <3>2, <3>3
    <2>3. Unpublished(c)'
        BY DEF ConnInv, Unpublished, SessionTypes
    <2>4. stray'[c] = 0
        BY DEF ConnInv, SessionTypes
    <2>5. Renewed(c)'
        BY DEF ConnInv, Renewed, LoginTypes
    <2> QED
        BY <2>1, <2>2, <2>3, <2>4, <2>5 DEF ConnInv
<1> HIDE DEF DialFails
<1> QED
    BY <1>4, <1>5, <1>6, <1>7

(* Publishing a socket replaces none.                                      *)
LEMMA PublishStep ==
    ASSUME IInv, NEW d \in Conns, Publish(d)
    PROVE  IInv'
<1> USE DEF IInv, TypeOK, sessionVars, listVars, loginVars, cookieVars, dbVars, NoCookie,
        Publish
<1>1. SessionTypes'
    BY DEF SessionTypes, Stages, Over, Errors
<1>2. ListTypes'
    BY DEF ListTypes
<1>3. LoginTypes'
    BY DEF LoginTypes
<1>4. ASSUME NEW c \in Conns
      PROVE  ConnInv(c)'
    <2>1. Progress(c)'
        BY DEF ConnInv, Progress, SessionTypes, ListTypes
    <2>2. Unpublished(c)'
        BY DEF ConnInv, Unpublished, SessionTypes
    <2>3. Reported(c)'
        BY DEF ConnInv, Reported, SessionTypes, ListTypes, LoginTypes
    <2>4. stray'[c] = 0
        BY DEF ConnInv, SessionTypes, Unpublished
    <2>5. Renewed(c)'
        BY DEF ConnInv, Renewed, LoginTypes
    <2> QED
        BY <2>1, <2>2, <2>3, <2>4, <2>5 DEF ConnInv
<1> HIDE DEF Publish
<1> QED
    BY <1>1, <1>2, <1>3, <1>4

(* The connect packet leaves the list alone.                               *)
LEMMA SendConnectStep ==
    ASSUME IInv, NEW d \in Conns, SendConnect(d)
    PROVE  IInv'
<1> USE DEF IInv, TypeOK, sessionVars, listVars, loginVars, cookieVars, dbVars, NoCookie,
        SendConnect
<1>1. SessionTypes'
    BY DEF SessionTypes, Stages, Over, Errors
<1>2. ListTypes'
    BY DEF ListTypes
<1>3. LoginTypes'
    BY DEF LoginTypes
<1>4. ASSUME NEW c \in Conns
      PROVE  ConnInv(c)'
    <2>1. Progress(c)'
        BY DEF ConnInv, Progress, SessionTypes, ListTypes
    <2>2. Unpublished(c)'
        BY DEF ConnInv, Unpublished, SessionTypes
    <2>3. Reported(c)'
        BY DEF ConnInv, Reported, SessionTypes, ListTypes, LoginTypes
    <2>4. stray'[c] = 0
        BY DEF ConnInv, SessionTypes
    <2>5. Renewed(c)'
        BY DEF ConnInv, Renewed, LoginTypes
    <2> QED
        BY <2>1, <2>2, <2>3, <2>4, <2>5 DEF ConnInv
<1> HIDE DEF SendConnect
<1> QED
    BY <1>1, <1>2, <1>3, <1>4

(* So does the accept packet.                                              *)
LEMMA AcceptedStep ==
    ASSUME IInv, NEW d \in Conns, Accepted(d)
    PROVE  IInv'
<1> USE DEF IInv, TypeOK, sessionVars, listVars, loginVars, cookieVars, dbVars, NoCookie,
        Accepted
<1>1. SessionTypes'
    BY DEF SessionTypes, Stages, Over, Errors
<1>2. ListTypes'
    BY DEF ListTypes
<1>3. LoginTypes'
    BY DEF LoginTypes
<1>4. ASSUME NEW c \in Conns
      PROVE  ConnInv(c)'
    <2>1. Progress(c)'
        BY DEF ConnInv, Progress, SessionTypes, ListTypes
    <2>2. Unpublished(c)'
        BY DEF ConnInv, Unpublished, SessionTypes
    <2>3. Reported(c)'
        BY DEF ConnInv, Reported, SessionTypes, ListTypes, LoginTypes
    <2>4. stray'[c] = 0
        BY DEF ConnInv, SessionTypes
    <2>5. Renewed(c)'
        BY DEF ConnInv, Renewed, LoginTypes
    <2> QED
        BY <2>1, <2>2, <2>3, <2>4, <2>5 DEF ConnInv
<1> HIDE DEF Accepted
<1> QED
    BY <1>1, <1>2, <1>3, <1>4

(* A redirect begins again on the new list, its socket closed.             *)
LEMMA RedirectedStep ==
    ASSUME IInv, NEW d \in Conns, Redirected(d)
    PROVE  IInv'
<1> USE BoundAssumption, ListLen
    DEF IInv, TypeOK, sessionVars, listVars, loginVars, cookieVars, dbVars, NoCookie,
        Redirected, Reconnect
<1>1. SessionTypes'
    BY DEF SessionTypes, Stages, Over, Errors
<1>2. ListTypes'
    BY DEF ListTypes
<1>3. LoginTypes'
    BY DEF LoginTypes
<1>4. ASSUME NEW c \in Conns
      PROVE  ConnInv(c)'
    <2>1. Progress(c)'
        BY DEF ConnInv, Progress, SessionTypes, ListTypes
    <2>2. Unpublished(c)'
        BY DEF ConnInv, Unpublished, SessionTypes
    <2>3. Reported(c)'
        BY DEF ConnInv, Reported, SessionTypes, ListTypes, LoginTypes
    <2>4. stray'[c] = 0
        BY DEF ConnInv, SessionTypes
    <2>5. Renewed(c)'
        BY DEF ConnInv, Renewed, LoginTypes
    <2> QED
        BY <2>1, <2>2, <2>3, <2>4, <2>5 DEF ConnInv
<1> HIDE DEF Redirected
<1> QED
    BY <1>1, <1>2, <1>3, <1>4

(* A refusal goes on to the next server, or has tried the last one.        *)
LEMMA RefusedStep ==
    ASSUME IInv, NEW d \in Conns, Refused(d)
    PROVE  IInv'
<1> USE ListLen
    DEF IInv, TypeOK, sessionVars, listVars, loginVars, cookieVars, dbVars, NoCookie,
        Refused, Reconnect, HasServer, Jump, Fail
<1>1. /\ idx[d] \in Nat /\ Len(servers[d]) \in Nat
      /\ idx[d] < Len(servers[d]) /\ tried[d] = 1..(idx[d] + 1)
    BY DEF ConnInv, Progress, ListTypes
<1>2. tried'[d] = 1..(idx[d] + 1) /\ idx'[d] = idx[d] + 1
    BY <1>1, Grows DEF ListTypes
<1>3. idx[d] + 1 < Len(servers[d]) \/ idx[d] + 1 = Len(servers[d])
    BY <1>1
<1>4. SessionTypes'
    <2>1. CASE HasServer(d, Jump(idx[d]))
        <3>1. /\ pc' = [pc EXCEPT ![d] = "dial"] /\ sock' = [sock EXCEPT ![d] = "nil"]
              /\ UNCHANGED <<out, wd, ctx, connected, stray, broken>>
            BY <2>1, Zenon
        <3> HIDE DEF Refused, Reconnect
        <3> QED
            BY <3>1 DEF SessionTypes, Stages
    <2>2. CASE ~HasServer(d, Jump(idx[d]))
        <3>1. /\ out' = [out EXCEPT ![d] = [at |-> pc[d], err |-> "refused"]]
              /\ pc' = [pc EXCEPT ![d] = "failed"]
              /\ wd' = [wd EXCEPT ![d] = IF @ = "wait" THEN "gone" ELSE @]
            BY <2>2, Zenon
        <3>2. /\ sock' = [sock EXCEPT ![d] = "nil"]
              /\ UNCHANGED <<ctx, connected, stray, broken>> /\ pc[d] = "answer"
            BY <2>2, Zenon
        <3> HIDE DEF Refused, Fail
        <3> QED
            BY <3>1, <3>2 DEF SessionTypes, Stages, Over, Errors
    <2> QED
        BY <2>1, <2>2
<1>5. ListTypes'
    BY <1>1, <1>2, <1>3 DEF ListTypes
<1>6. LoginTypes'
    BY DEF LoginTypes
<1>7. ASSUME NEW c \in Conns
      PROVE  ConnInv(c)'
    <2>1. Progress(c)'
        <3>1. CASE c = d
            BY <1>1, <1>2, <1>3, <3>1 DEF Progress, SessionTypes
        <3>2. CASE c # d
            BY <3>2 DEF ConnInv, Progress, SessionTypes, ListTypes
        <3> QED
            BY <3>1, <3>2
    <2>2. Reported(c)'
        <3>1. CASE c # d
            BY <3>1 DEF ConnInv, Reported, SessionTypes, ListTypes
        <3>2. CASE c = d /\ HasServer(d, Jump(idx[d]))
            BY <3>2 DEF ConnInv, Reported, SessionTypes
        <3>3. CASE c = d /\ ~HasServer(d, Jump(idx[d]))
            <4>1. tried'[d] = 1..Len(servers'[d])
                BY <1>1, <1>2, <1>3, <3>3
            <4>2. pc'[d] = "failed" /\ out'[d] = [at |-> pc[d], err |-> "refused"]
                BY <3>3 DEF SessionTypes
            <4> HIDE DEF Refused
            <4> QED
                BY <4>1, <4>2, <3>3 DEF Reported
        <3> QED
            BY <3>1, <3>2, <3>3
    <2>3. Unpublished(c)'
        BY DEF ConnInv, Unpublished, SessionTypes
    <2>4. stray'[c] = 0
        BY DEF ConnInv, SessionTypes
    <2>5. Renewed(c)'
        BY DEF ConnInv, Renewed, LoginTypes
    <2> QED
        BY <2>1, <2>2, <2>3, <2>4, <2>5 DEF ConnInv
<1> HIDE DEF Refused
<1> QED
    BY <1>4, <1>5, <1>6, <1>7

(* A login with a cookie takes the capabilities from it.                   *)
LEMMA LoginWithCookieStep ==
    ASSUME IInv, NEW d \in Conns, LoginWithCookie(d)
    PROVE  IInv'
<1> USE BoundAssumption
    DEF IInv, TypeOK, sessionVars, listVars, loginVars, cookieVars, dbVars, NoCookie,
        LoginWithCookie
<1>1. SessionTypes'
    BY DEF SessionTypes, Stages, Over, Errors
<1>2. ListTypes'
    BY DEF ListTypes
<1>3. LoginTypes'
    BY DEF LoginTypes
<1>4. ASSUME NEW c \in Conns
      PROVE  ConnInv(c)'
    <2>1. Progress(c)'
        BY DEF ConnInv, Progress, SessionTypes, ListTypes
    <2>2. Unpublished(c)'
        BY DEF ConnInv, Unpublished, SessionTypes
    <2>3. Reported(c)'
        BY DEF ConnInv, Reported, SessionTypes, ListTypes, LoginTypes
    <2>4. stray'[c] = 0
        BY DEF ConnInv, SessionTypes
    <2>5. Renewed(c)'
        BY DEF ConnInv, Renewed, LoginTypes
    <2> QED
        BY <2>1, <2>2, <2>3, <2>4, <2>5 DEF ConnInv
<1> HIDE DEF LoginWithCookie
<1> QED
    BY <1>1, <1>2, <1>3, <1>4

(* A login without one takes them from the database.                       *)
LEMMA LoginNegotiatedStep ==
    ASSUME IInv, NEW d \in Conns, LoginNegotiated(d)
    PROVE  IInv'
<1> USE DEF IInv, TypeOK, sessionVars, listVars, loginVars, cookieVars, dbVars, NoCookie,
        LoginNegotiated
<1>1. SessionTypes'
    BY DEF SessionTypes, Stages, Over, Errors
<1>2. ListTypes'
    BY DEF ListTypes
<1>3. LoginTypes'
    BY DEF LoginTypes
<1>4. ASSUME NEW c \in Conns
      PROVE  ConnInv(c)'
    <2>1. Progress(c)'
        BY DEF ConnInv, Progress, SessionTypes, ListTypes
    <2>2. Unpublished(c)'
        BY DEF ConnInv, Unpublished, SessionTypes
    <2>3. Reported(c)'
        BY DEF ConnInv, Reported, SessionTypes, ListTypes, LoginTypes
    <2>4. stray'[c] = 0
        BY DEF ConnInv, SessionTypes
    <2>5. Renewed(c)'
        BY DEF ConnInv, Renewed, LoginTypes
    <2> QED
        BY <2>1, <2>2, <2>3, <2>4, <2>5 DEF ConnInv
<1> HIDE DEF LoginNegotiated
<1> QED
    BY <1>1, <1>2, <1>3, <1>4

(* Authentication sets the capabilities.                                   *)
LEMMA AuthenticatedStep ==
    ASSUME IInv, NEW d \in Conns, Authenticated(d)
    PROVE  IInv'
<1> USE BoundAssumption
    DEF IInv, TypeOK, sessionVars, listVars, loginVars, cookieVars, dbVars, NoCookie,
        Authenticated
<1>1. SessionTypes'
    BY DEF SessionTypes, Stages, Over, Errors
<1>2. ListTypes'
    BY DEF ListTypes
<1>3. LoginTypes'
    BY DEF LoginTypes
<1>4. ASSUME NEW c \in Conns
      PROVE  ConnInv(c)'
    <2>1. Progress(c)'
        BY DEF ConnInv, Progress, SessionTypes, ListTypes
    <2>2. Unpublished(c)'
        BY DEF ConnInv, Unpublished, SessionTypes
    <2>3. Reported(c)'
        BY DEF ConnInv, Reported, SessionTypes, ListTypes, LoginTypes
    <2>4. stray'[c] = 0
        BY DEF ConnInv, SessionTypes
    <2>5. Renewed(c)'
        BY DEF ConnInv, Renewed, LoginTypes
    <2> QED
        BY <2>1, <2>2, <2>3, <2>4, <2>5 DEF ConnInv
<1> HIDE DEF Authenticated
<1> QED
    BY <1>1, <1>2, <1>3, <1>4

(* A reset marker changes nothing but what is read next.                   *)
LEMMA AuthResetStep ==
    ASSUME IInv, NEW d \in Conns, AuthReset(d)
    PROVE  IInv'
<1> USE DEF IInv, TypeOK, sessionVars, listVars, loginVars, cookieVars, dbVars, NoCookie,
        AuthReset
<1>1. SessionTypes'
    BY DEF SessionTypes, Stages, Over, Errors
<1>2. ListTypes'
    BY DEF ListTypes
<1>3. LoginTypes'
    BY DEF LoginTypes
<1>4. ASSUME NEW c \in Conns
      PROVE  ConnInv(c)'
    <2>1. Progress(c)'
        BY DEF ConnInv, Progress, SessionTypes, ListTypes
    <2>2. Unpublished(c)'
        BY DEF ConnInv, Unpublished, SessionTypes
    <2>3. Reported(c)'
        BY DEF ConnInv, Reported, SessionTypes, ListTypes, LoginTypes
    <2>4. stray'[c] = 0
        BY DEF ConnInv, SessionTypes
    <2>5. Renewed(c)'
        BY DEF ConnInv, Renewed, LoginTypes
    <2> QED
        BY <2>1, <2>2, <2>3, <2>4, <2>5 DEF ConnInv
<1> HIDE DEF AuthReset
<1> QED
    BY <1>1, <1>2, <1>3, <1>4

(* The capabilities read again are those of the database.                  *)
LEMMA RenegotiatedStep ==
    ASSUME IInv, NEW d \in Conns, Renegotiated(d)
    PROVE  IInv'
<1> USE BoundAssumption
    DEF IInv, TypeOK, sessionVars, listVars, loginVars, cookieVars, dbVars, NoCookie,
        Renegotiated
<1>1. SessionTypes'
    BY DEF SessionTypes, Stages, Over, Errors
<1>2. ListTypes'
    BY DEF ListTypes
<1>3. LoginTypes'
    BY DEF LoginTypes
<1>4. ASSUME NEW c \in Conns
      PROVE  ConnInv(c)'
    <2>1. Progress(c)'
        BY DEF ConnInv, Progress, SessionTypes, ListTypes
    <2>2. Unpublished(c)'
        BY DEF ConnInv, Unpublished, SessionTypes
    <2>3. Reported(c)'
        BY DEF ConnInv, Reported, SessionTypes, ListTypes, LoginTypes
    <2>4. stray'[c] = 0
        BY DEF ConnInv, SessionTypes
    <2>5. Renewed(c)'
        BY DEF ConnInv, Renewed, LoginTypes
    <2> QED
        BY <2>1, <2>2, <2>3, <2>4, <2>5 DEF ConnInv
<1> HIDE DEF Renegotiated
<1> QED
    BY <1>1, <1>2, <1>3, <1>4

(* A rejected cookie costs the socket.                                     *)
LEMMA CookieRejectedStep ==
    ASSUME IInv, NEW d \in Conns, CookieRejected(d)
    PROVE  IInv'
<1> USE DEF IInv, TypeOK, sessionVars, listVars, loginVars, cookieVars, dbVars, NoCookie,
        CookieRejected
<1>1. SessionTypes'
    BY DEF SessionTypes, Stages, Over, Errors
<1>2. ListTypes'
    BY DEF ListTypes
<1>3. LoginTypes'
    BY DEF LoginTypes
<1>4. ASSUME NEW c \in Conns
      PROVE  ConnInv(c)'
    <2>1. Progress(c)'
        BY DEF ConnInv, Progress, SessionTypes, ListTypes
    <2>2. Unpublished(c)'
        BY DEF ConnInv, Unpublished, SessionTypes
    <2>3. Reported(c)'
        BY DEF ConnInv, Reported, SessionTypes, ListTypes, LoginTypes
    <2>4. stray'[c] = 0
        BY DEF ConnInv, SessionTypes
    <2>5. Renewed(c)'
        BY DEF ConnInv, Renewed, LoginTypes
    <2> QED
        BY <2>1, <2>2, <2>3, <2>4, <2>5 DEF ConnInv
<1> HIDE DEF CookieRejected
<1> QED
    BY <1>1, <1>2, <1>3, <1>4

(* Opening again begins without a socket and empties the store.            *)
LEMMA ReopenStep ==
    ASSUME IInv, NEW d \in Conns, Reopen(d)
    PROVE  IInv'
<1> USE BoundAssumption
    DEF IInv, TypeOK, sessionVars, listVars, loginVars, cookieVars, dbVars, NoCookie,
        Reopen, Reopens
<1>1. SessionTypes'
    BY DEF SessionTypes, Stages, Over, Errors
<1>2. ListTypes'
    BY DEF ListTypes
<1>3. LoginTypes'
    BY DEF LoginTypes
<1>4. ASSUME NEW c \in Conns
      PROVE  ConnInv(c)'
    <2>1. Progress(c)'
        BY DEF ConnInv, Progress, SessionTypes, ListTypes
    <2>2. Unpublished(c)'
        BY DEF ConnInv, Unpublished, SessionTypes
    <2>3. Reported(c)'
        BY DEF ConnInv, Reported, SessionTypes, ListTypes, LoginTypes
    <2>4. stray'[c] = 0
        BY DEF ConnInv, SessionTypes
    <2>5. Renewed(c)'
        BY DEF ConnInv, Renewed, LoginTypes
    <2> QED
        BY <2>1, <2>2, <2>3, <2>4, <2>5 DEF ConnInv
<1> HIDE DEF Reopen
<1> QED
    BY <1>1, <1>2, <1>3, <1>4

(* Rejected credentials are an error of their own.                         *)
LEMMA DeniedStep ==
    ASSUME IInv, NEW d \in Conns, Denied(d)
    PROVE  IInv'
<1> USE DEF IInv, TypeOK, sessionVars, listVars, loginVars, cookieVars, dbVars, NoCookie,
        Denied, Fail
<1>1. SessionTypes'
    BY DEF SessionTypes, Stages, Over, Errors
<1>2. ListTypes'
    BY DEF ListTypes
<1>3. LoginTypes'
    BY DEF LoginTypes
<1>4. ASSUME NEW c \in Conns
      PROVE  ConnInv(c)'
    <2>1. Progress(c)'
        BY DEF ConnInv, Progress, SessionTypes, ListTypes
    <2>2. Unpublished(c)'
        BY DEF ConnInv, Unpublished, SessionTypes
    <2>3. Reported(c)'
        BY DEF ConnInv, Reported, SessionTypes, ListTypes, LoginTypes
    <2>4. stray'[c] = 0
        BY DEF ConnInv, SessionTypes
    <2>5. Renewed(c)'
        BY DEF ConnInv, Renewed, LoginTypes
    <2> QED
        BY <2>1, <2>2, <2>3, <2>4, <2>5 DEF ConnInv
<1> HIDE DEF Denied
<1> QED
    BY <1>1, <1>2, <1>3, <1>4

(* A socket that is closed or lost is an error of its own.                 *)
LEMMA IOFailsStep ==
    ASSUME IInv, NEW d \in Conns, IOFails(d)
    PROVE  IInv'
<1> USE DEF IInv, TypeOK, sessionVars, listVars, loginVars, cookieVars, dbVars, NoCookie,
        IOFails, Reopens, Fail
<1>1. SessionTypes'
    BY DEF SessionTypes, Stages, Over, Errors
<1>2. ListTypes'
    BY DEF ListTypes
<1>3. LoginTypes'
    BY DEF LoginTypes
<1>4. ASSUME NEW c \in Conns
      PROVE  ConnInv(c)'
    <2>1. Progress(c)'
        BY DEF ConnInv, Progress, SessionTypes, ListTypes
    <2>2. Unpublished(c)'
        BY DEF ConnInv, Unpublished, SessionTypes
    <2>3. Reported(c)'
        <3>1. CASE c # d
            BY <3>1 DEF ConnInv, Reported, SessionTypes
        <3>2. CASE c = d
            <4>1. /\ pc'[d] = "failed"
                  /\ out'[d] = [at |-> pc[d], err |-> sock[d]]
                BY DEF SessionTypes
            <4>2. sock[d] \in {"nil", "eof", "rst"}
                BY DEF SessionTypes
            <4> HIDE DEF IOFails
            <4> QED
                BY <3>2, <4>1, <4>2 DEF Reported
        <3> QED
            BY <3>1, <3>2
    <2>4. stray'[c] = 0
        BY DEF ConnInv, SessionTypes
    <2>5. Renewed(c)'
        BY DEF ConnInv, Renewed, LoginTypes
    <2> QED
        BY <2>1, <2>2, <2>3, <2>4, <2>5 DEF ConnInv
<1> HIDE DEF IOFails
<1> QED
    BY <1>1, <1>2, <1>3, <1>4

(* A cookie saved is newer than every cookie given up.                     *)
LEMMA SaveCookieStep ==
    ASSUME IInv, NEW d \in Conns, SaveCookie(d)
    PROVE  IInv'
<1> USE BoundAssumption
    DEF IInv, TypeOK, sessionVars, listVars, loginVars, cookieVars, dbVars, NoCookie,
        SaveCookie
<1>1. SessionTypes'
    BY DEF SessionTypes, Stages, Over, Errors
<1>2. ListTypes'
    BY DEF ListTypes
<1>3. LoginTypes'
    BY DEF LoginTypes
<1>4. ASSUME NEW c \in Conns
      PROVE  ConnInv(c)'
    <2>1. Progress(c)'
        BY DEF ConnInv, Progress, SessionTypes, ListTypes
    <2>2. Unpublished(c)'
        BY DEF ConnInv, Unpublished, SessionTypes
    <2>3. Reported(c)'
        BY DEF ConnInv, Reported, SessionTypes, ListTypes, LoginTypes
    <2>4. stray'[c] = 0
        BY DEF ConnInv, SessionTypes
    <2>5. Renewed(c)'
        BY DEF ConnInv, Renewed, LoginTypes
    <2> QED
        BY <2>1, <2>2, <2>3, <2>4, <2>5 DEF ConnInv
<1> HIDE DEF SaveCookie
<1> QED
    BY <1>1, <1>2, <1>3, <1>4

(* The version of the database changes nothing here.                       *)
LEMMA GotVersionStep ==
    ASSUME IInv, NEW d \in Conns, GotVersion(d)
    PROVE  IInv'
<1> USE DEF IInv, TypeOK, sessionVars, listVars, loginVars, cookieVars, dbVars, NoCookie,
        GotVersion
<1>1. SessionTypes'
    BY DEF SessionTypes, Stages, Over, Errors
<1>2. ListTypes'
    BY DEF ListTypes
<1>3. LoginTypes'
    BY DEF LoginTypes
<1>4. ASSUME NEW c \in Conns
      PROVE  ConnInv(c)'
    <2>1. Progress(c)'
        BY DEF ConnInv, Progress, SessionTypes, ListTypes
    <2>2. Unpublished(c)'
        BY DEF ConnInv, Unpublished, SessionTypes
    <2>3. Reported(c)'
        BY DEF ConnInv, Reported, SessionTypes, ListTypes, LoginTypes
    <2>4. stray'[c] = 0
        BY DEF ConnInv, SessionTypes
    <2>5. Renewed(c)'
        BY DEF ConnInv, Renewed, LoginTypes
    <2> QED
        BY <2>1, <2>2, <2>3, <2>4, <2>5 DEF ConnInv
<1> HIDE DEF GotVersion
<1> QED
    BY <1>1, <1>2, <1>3, <1>4

(* Neither does the connected flag.                                        *)
LEMMA SetConnectedStep ==
    ASSUME IInv, NEW d \in Conns, SetConnected(d)
    PROVE  IInv'
<1> USE DEF IInv, TypeOK, sessionVars, listVars, loginVars, cookieVars, dbVars, NoCookie,
        SetConnected
<1>1. SessionTypes'
    BY DEF SessionTypes, Stages, Over, Errors
<1>2. ListTypes'
    BY DEF ListTypes
<1>3. LoginTypes'
    BY DEF LoginTypes
<1>4. ASSUME NEW c \in Conns
      PROVE  ConnInv(c)'
    <2>1. Progress(c)'
        BY DEF ConnInv, Progress, SessionTypes, ListTypes
    <2>2. Unpublished(c)'
        BY DEF ConnInv, Unpublished, SessionTypes
    <2>3. Reported(c)'
        BY DEF ConnInv, Reported, SessionTypes, ListTypes, LoginTypes
    <2>4. stray'[c] = 0
        BY DEF ConnInv, SessionTypes
    <2>5. Renewed(c)'
        BY DEF ConnInv, Renewed, LoginTypes
    <2> QED
        BY <2>1, <2>2, <2>3, <2>4, <2>5 DEF ConnInv
<1> HIDE DEF SetConnected
<1> QED
    BY <1>1, <1>2, <1>3, <1>4

(* Nor the queries that end the opening.                                   *)
LEMMA QueryEndsStep ==
    ASSUME IInv, NEW d \in Conns, QueryEnds(d)
    PROVE  IInv'
<1> USE DEF IInv, TypeOK, sessionVars, listVars, loginVars, cookieVars, dbVars, NoCookie,
        QueryEnds
<1>1. SessionTypes'
    BY DEF SessionTypes, Stages, Over, Errors
<1>2. ListTypes'
    BY DEF ListTypes
<1>3. LoginTypes'
    BY DEF LoginTypes
<1>4. ASSUME NEW c \in Conns
      PROVE  ConnInv(c)'
    <2>1. Progress(c)'
        BY DEF ConnInv, Progress, SessionTypes, ListTypes
    <2>2. Unpublished(c)'
        BY DEF ConnInv, Unpublished, SessionTypes
    <2>3. Reported(c)'
        BY DEF ConnInv, Reported, SessionTypes, ListTypes, LoginTypes
    <2>4. stray'[c] = 0
        BY DEF ConnInv, SessionTypes
    <2>5. Renewed(c)'
        BY DEF ConnInv, Renewed, LoginTypes
    <2> QED
        BY <2>1, <2>2, <2>3, <2>4, <2>5 DEF ConnInv
<1> HIDE DEF QueryEnds
<1> QED
    BY <1>1, <1>2, <1>3, <1>4

(* A context that ends changes nothing by itself.                          *)
LEMMA CancelStep ==
    ASSUME IInv, NEW d \in Conns, Cancel(d)
    PROVE  IInv'
<1> USE DEF IInv, TypeOK, sessionVars, listVars, loginVars, cookieVars, dbVars, NoCookie,
        Cancel
<1>1. SessionTypes'
    BY DEF SessionTypes, Stages, Over, Errors
<1>2. ListTypes'
    BY DEF ListTypes
<1>3. LoginTypes'
    BY DEF LoginTypes
<1>4. ASSUME NEW c \in Conns
      PROVE  ConnInv(c)'
    <2>1. Progress(c)'
        BY DEF ConnInv, Progress, SessionTypes, ListTypes
    <2>2. Unpublished(c)'
        BY DEF ConnInv, Unpublished, SessionTypes
    <2>3. Reported(c)'
        BY DEF ConnInv, Reported, SessionTypes, ListTypes, LoginTypes
    <2>4. stray'[c] = 0
        BY DEF ConnInv, SessionTypes
    <2>5. Renewed(c)'
        BY DEF ConnInv, Renewed, LoginTypes
    <2> QED
        BY <2>1, <2>2, <2>3, <2>4, <2>5 DEF ConnInv
<1> HIDE DEF Cancel
<1> QED
    BY <1>1, <1>2, <1>3, <1>4

(* A watchdog that fires has not acted yet.                                *)
LEMMA WatchdogFiresStep ==
    ASSUME IInv, NEW d \in Conns, WatchdogFires(d)
    PROVE  IInv'
<1> USE DEF IInv, TypeOK, sessionVars, listVars, loginVars, cookieVars, dbVars, NoCookie,
        WatchdogFires
<1>1. SessionTypes'
    BY DEF SessionTypes, Stages, Over, Errors
<1>2. ListTypes'
    BY DEF ListTypes
<1>3. LoginTypes'
    BY DEF LoginTypes
<1>4. ASSUME NEW c \in Conns
      PROVE  ConnInv(c)'
    <2>1. Progress(c)'
        BY DEF ConnInv, Progress, SessionTypes, ListTypes
    <2>2. Unpublished(c)'
        BY DEF ConnInv, Unpublished, SessionTypes
    <2>3. Reported(c)'
        BY DEF ConnInv, Reported, SessionTypes, ListTypes, LoginTypes
    <2>4. stray'[c] = 0
        BY DEF ConnInv, SessionTypes
    <2>5. Renewed(c)'
        BY DEF ConnInv, Renewed, LoginTypes
    <2> QED
        BY <2>1, <2>2, <2>3, <2>4, <2>5 DEF ConnInv
<1> HIDE DEF WatchdogFires
<1> QED
    BY <1>1, <1>2, <1>3, <1>4

(* A watchdog that disconnects takes the socket away.                      *)
LEMMA WatchdogDisconnectsStep ==
    ASSUME IInv, NEW d \in Conns, WatchdogDisconnects(d)
    PROVE  IInv'
<1> USE DEF IInv, TypeOK, sessionVars, listVars, loginVars, cookieVars, dbVars, NoCookie,
        WatchdogDisconnects
<1>1. SessionTypes'
    BY DEF SessionTypes, Stages, Over, Errors
<1>2. ListTypes'
    BY DEF ListTypes
<1>3. LoginTypes'
    BY DEF LoginTypes
<1>4. ASSUME NEW c \in Conns
      PROVE  ConnInv(c)'
    <2>1. Progress(c)'
        BY DEF ConnInv, Progress, SessionTypes, ListTypes
    <2>2. Unpublished(c)'
        BY DEF ConnInv, Unpublished, SessionTypes
    <2>3. Reported(c)'
        BY DEF ConnInv, Reported, SessionTypes, ListTypes, LoginTypes
    <2>4. stray'[c] = 0
        BY DEF ConnInv, SessionTypes
    <2>5. Renewed(c)'
        BY DEF ConnInv, Renewed, LoginTypes
    <2> QED
        BY <2>1, <2>2, <2>3, <2>4, <2>5 DEF ConnInv
<1> HIDE DEF WatchdogDisconnects
<1> QED
    BY <1>1, <1>2, <1>3, <1>4

(* A watchdog that interrupts leaves the socket.                           *)
LEMMA WatchdogBreaksStep ==
    ASSUME IInv, NEW d \in Conns, WatchdogBreaks(d)
    PROVE  IInv'
<1> USE DEF IInv, TypeOK, sessionVars, listVars, loginVars, cookieVars, dbVars, NoCookie,
        WatchdogBreaks
<1>1. SessionTypes'
    BY DEF SessionTypes, Stages, Over, Errors
<1>2. ListTypes'
    BY DEF ListTypes
<1>3. LoginTypes'
    BY DEF LoginTypes
<1>4. ASSUME NEW c \in Conns
      PROVE  ConnInv(c)'
    <2>1. Progress(c)'
        BY DEF ConnInv, Progress, SessionTypes, ListTypes
    <2>2. Unpublished(c)'
        BY DEF ConnInv, Unpublished, SessionTypes
    <2>3. Reported(c)'
        BY DEF ConnInv, Reported, SessionTypes, ListTypes, LoginTypes
    <2>4. stray'[c] = 0
        BY DEF ConnInv, SessionTypes
    <2>5. Renewed(c)'
        BY DEF ConnInv, Renewed, LoginTypes
    <2> QED
        BY <2>1, <2>2, <2>3, <2>4, <2>5 DEF ConnInv
<1> HIDE DEF WatchdogBreaks
<1> QED
    BY <1>1, <1>2, <1>3, <1>4

(* A lost socket was published.                                            *)
LEMMA LoseSocketStep ==
    ASSUME IInv, NEW d \in Conns, LoseSocket(d)
    PROVE  IInv'
<1> USE OptionAssumption
    DEF IInv, TypeOK, sessionVars, listVars, loginVars, cookieVars, dbVars, NoCookie,
        LoseSocket
<1>1. SessionTypes'
    BY DEF SessionTypes, Stages, Over, Errors
<1>2. ListTypes'
    BY DEF ListTypes
<1>3. LoginTypes'
    BY DEF LoginTypes
<1>4. ASSUME NEW c \in Conns
      PROVE  ConnInv(c)'
    <2>1. Progress(c)'
        BY DEF ConnInv, Progress, SessionTypes, ListTypes
    <2>2. Unpublished(c)'
        BY DEF ConnInv, Unpublished, SessionTypes
    <2>3. Reported(c)'
        BY DEF ConnInv, Reported, SessionTypes, ListTypes, LoginTypes
    <2>4. stray'[c] = 0
        BY DEF ConnInv, SessionTypes
    <2>5. Renewed(c)'
        BY DEF ConnInv, Renewed, LoginTypes
    <2> QED
        BY <2>1, <2>2, <2>3, <2>4, <2>5 DEF ConnInv
<1> HIDE DEF LoseSocket
<1> QED
    BY <1>1, <1>2, <1>3, <1>4

(* An answer that cannot be used ends the opening.                         *)
LEMMA BadAnswerStep ==
    ASSUME IInv, NEW d \in Conns, BadAnswer(d)
    PROVE  IInv'
<1> USE DEF IInv, TypeOK, sessionVars, listVars, loginVars, cookieVars, dbVars, NoCookie,
        BadAnswer, Fail
<1>1. SessionTypes'
    BY DEF SessionTypes, Stages, Over, Errors
<1>2. ListTypes'
    BY DEF ListTypes
<1>3. LoginTypes'
    BY DEF LoginTypes
<1>4. ASSUME NEW c \in Conns
      PROVE  ConnInv(c)'
    <2>1. Progress(c)'
        BY DEF ConnInv, Progress, SessionTypes, ListTypes
    <2>2. Unpublished(c)'
        BY DEF ConnInv, Unpublished, SessionTypes
    <2>3. Reported(c)'
        BY DEF ConnInv, Reported, SessionTypes, ListTypes, LoginTypes
    <2>4. stray'[c] = 0
        BY DEF ConnInv, SessionTypes
    <2>5. Renewed(c)'
        BY DEF ConnInv, Renewed, LoginTypes
    <2> QED
        BY <2>1, <2>2, <2>3, <2>4, <2>5 DEF ConnInv
<1> HIDE DEF BadAnswer
<1> QED
    BY <1>1, <1>2, <1>3, <1>4

(* An upgrade of the database ends published sockets.                      *)
LEMMA UpgradeStep ==
    ASSUME IInv, Upgrade
    PROVE  IInv'
<1> USE BoundAssumption DEF IInv, TypeOK, listVars, loginVars, cookieVars, Over, Upgrade
<1>1. TypeOK'
    <2>1. SessionTypes'
        BY DEF SessionTypes
    <2>2. ListTypes'
        BY DEF ListTypes
    <2>3. LoginTypes'
        BY DEF LoginTypes
    <2> QED
        BY <2>1, <2>2, <2>3
<1>2. ASSUME NEW c \in Conns
      PROVE  ConnInv(c)'
    BY DEF ConnInv, Progress, Unpublished, Reported, Renewed, SessionTypes
<1> QED
    BY <1>1, <1>2 DEF IInv

(* In the initial state nothing was tried.                                 *)
LEMMA InitIInv == Init => IInv
<1> SUFFICES ASSUME Init
             PROVE  IInv
    OBVIOUS
<1> USE BoundAssumption, OptionAssumption, ListLen DEF Init, NoCookie
<1>1. TypeOK
    <2>1. SessionTypes
        BY DEF SessionTypes, Stages, Over, Fine
    <2>2. ListTypes
        BY DEF ListTypes
    <2>3. LoginTypes
        BY DEF LoginTypes
    <2> QED
        BY <2>1, <2>2, <2>3 DEF TypeOK
<1>2. ASSUME NEW c \in Conns
      PROVE  ConnInv(c)
    BY DEF ConnInv, Progress, Unpublished, Reported, Renewed, Fine
<1> QED
    BY <1>1, <1>2 DEF IInv

(* Every step keeps the invariant.                                         *)
LEMMA StepIInv == IInv /\ [Next]_vars => IInv'
<1> SUFFICES ASSUME IInv, [Next]_vars
             PROVE  IInv'
    OBVIOUS
<1>1. ASSUME NEW d \in Conns, Steps(d)
      PROVE  IInv'
    BY <1>1, OpenStep, PublishStep, SendConnectStep, LoginWithCookieStep,
       LoginNegotiatedStep, ReopenStep, IOFailsStep, SaveCookieStep, SetConnectedStep
       DEF Steps
<1>2. ASSUME NEW d \in Conns,
             Dialled(d) \/ Answered(d) \/ LoggedIn(d) \/ GotVersion(d) \/ QueryEnds(d)
      PROVE  IInv'
    BY <1>2, DialSucceedsStep, DialFailsStep, AcceptedStep, RedirectedStep, RefusedStep,
       BadAnswerStep, AuthenticatedStep, AuthResetStep, RenegotiatedStep, DeniedStep,
       CookieRejectedStep, GotVersionStep, QueryEndsStep
       DEF Dialled, Answered, LoggedIn
<1>3. ASSUME NEW d \in Conns, Cancel(d) \/ Watchdog(d) \/ LoseSocket(d)
      PROVE  IInv'
    BY <1>3, CancelStep, WatchdogFiresStep, WatchdogDisconnectsStep, WatchdogBreaksStep,
       LoseSocketStep DEF Watchdog
<1>4. CASE UNCHANGED vars
    <2>1. TypeOK'
        BY <1>4 DEF vars, sessionVars, listVars, loginVars, cookieVars, dbVars, IInv, TypeOK,
           SessionTypes, ListTypes, LoginTypes
    <2>2. ASSUME NEW c \in Conns
          PROVE  ConnInv(c)'
        BY <1>4 DEF vars, sessionVars, listVars, loginVars, cookieVars, dbVars, IInv, ConnInv,
           Progress, Unpublished, Reported, Renewed
    <2> QED
        BY <2>1, <2>2 DEF IInv
<1> QED
    BY <1>1, <1>2, <1>3, <1>4, UpgradeStep DEF Next

(* The invariant holds in every state.                                     *)
THEOREM ConnectInvariant == Spec => []IInv
BY InitIInv, StepIInv, PTL DEF Spec

(* Opening fails for want of a server only after every server of its list  *)
(* was tried, whatever the lists and however many redirects.               *)
THEOREM NoServerSkipped == Spec => []EveryServerTried
<1>1. IInv => EveryServerTried
    BY DEF IInv, ConnInv, Reported, EveryServerTried
<1> QED
    BY <1>1, ConnectInvariant, PTL

(* However many connections share the store and however often the database *)
(* changes, a connection that begins again never uses the cookie it gave   *)
(* up, nor an older one.                                                   *)
THEOREM CookieGivenUp == Spec => []NewCookieOnly
<1>1. IInv => NewCookieOnly
    BY DEF IInv, ConnInv, Renewed, NewCookieOnly
<1> QED
    BY <1>1, ConnectInvariant, PTL

(* No open socket is dropped, whenever the watchdog disconnects.           *)
THEOREM SocketsKept == Spec => []NoStraySocket
<1>1. IInv => NoStraySocket
    BY DEF IInv, ConnInv, NoStraySocket
<1> QED
    BY <1>1, ConnectInvariant, PTL

(* Every variable of an opening keeps its type, whatever the number of     *)
(* connections, the lists and the versions.                                *)
THEOREM TypesKept == Spec => []TypeOK
<1>1. IInv => TypeOK
    BY DEF IInv
<1> QED
    BY <1>1, ConnectInvariant, PTL
=============================================================================
