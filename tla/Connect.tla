------------------------------ MODULE Connect ------------------------------
(***************************************************************************)
(* Opening connections: Connection.OpenWithContext and Session.Connect.    *)
(*                                                                         *)
(* Each connection has the goroutine that opens it and the watchdog of its *)
(* session.  Opening walks a list of listeners, which accept, redirect or  *)
(* refuse, then logs in to the database.  A login may be shortened by a    *)
(* cookie, the capabilities an earlier login learned; all connections      *)
(* share one cookie store.  The version of the database stands for the     *)
(* capabilities and character sets it announces.                           *)
(***************************************************************************)
EXTENDS Naturals, Sequences

CONSTANTS
    Conns,          \* connections being opened
    Servers,        \* addresses of listeners
    InitialList,    \* the listeners of the connection string
    RedirectLists,  \* lists a listener may redirect to
    MaxHops,        \* bound: redirects a connection meets
    MaxVersion,     \* bound: versions the database goes through
    FastOptions,    \* values FastAuthEnabled and FastLogin may have
    Losses          \* how a socket may be lost: "eof", "rst"

NoCookie == 0

ASSUME ListAssumption ==
    /\ InitialList \in Seq(Servers) \ {<<>>}
    /\ RedirectLists \subseteq Seq(Servers) \ {<<>>}
ASSUME BoundAssumption == MaxHops \in Nat /\ MaxVersion \in Nat \ {0}
ASSUME OptionAssumption == FastOptions \subseteq BOOLEAN /\ Losses \subseteq {"eof", "rst"}

VARIABLES
    pc,        \* where the goroutine that opens the connection is
    ctx,       \* its context
    wd,        \* the watchdog of its session
    connected, \* session.Connected
    sock,      \* session.conn: "nil", "open", or lost: "rst", or "eof", which is
               \* also a data packet that tells the client to disconnect
    stray,     \* open sockets no session refers to
    servers,   \* connOption.Servers
    idx,       \* connOption.serverIndex
    hops,      \* redirects so far
    tried,     \* positions of servers that were tried
    cookie,    \* conn.connectionCookie
    nego,      \* the version conn.tcpNego describes
    broken,    \* an interrupt is under way to the database
    out,       \* why the opening failed, and where
    store,     \* cookieStore
    saved,     \* calls of saveCookie so far
    spent,     \* saved when a connection last gave its cookie up
    version,   \* the database
    fast       \* FastAuthEnabled and FastLogin

sessionVars == <<wd, connected, sock, stray, broken>>
listVars == <<servers, idx, hops, tried>>
loginVars == <<cookie, nego>>
cookieVars == <<store, saved, spent>>
dbVars == <<version, fast>>
vars == <<pc, ctx, wd, connected, sock, stray, servers, idx, hops, tried, cookie,
          nego, broken, out, store, saved, spent, version, fast>>

Over == {"opened", "failed"}
Stages == {"start", "dial", "publish", "send", "answer", "login", "auth",
           "renego", "reread", "save", "version", "connect", "nls", "zone"}
Errors == {"dial", "refused", "denied", "nil", "eof", "rst"}
Fine == [at |-> "none", err |-> "none"]

Init ==
    /\ pc = [c \in Conns |-> "start"]
    /\ ctx = [c \in Conns |-> "live"]
    /\ wd = [c \in Conns |-> "gone"]
    /\ connected = [c \in Conns |-> FALSE]
    /\ sock = [c \in Conns |-> "nil"]
    /\ stray = [c \in Conns |-> 0]
    /\ servers = [c \in Conns |-> InitialList]
    /\ idx = [c \in Conns |-> 0]
    /\ hops = [c \in Conns |-> 0]
    /\ tried = [c \in Conns |-> {}]
    /\ cookie = [c \in Conns |-> NoCookie]
    /\ nego = [c \in Conns |-> 0]
    /\ broken = [c \in Conns |-> FALSE]
    /\ out = [c \in Conns |-> Fine]
    /\ store = NoCookie /\ saved = 0
    /\ spent = [c \in Conns |-> 0]
    /\ version = 1 /\ fast \in FastOptions

-----------------------------------------------------------------------------
(* The list of servers.                                                    *)

(* Mutant: off by one.                                                     *)
HasServerOffByOne(c, i) == i <= Len(servers[c])
(* GetActiveServer(false) on an index; GetActiveServer(true) has advanced  *)
(* it first.                                                               *)
HasServer(c, i) == i < Len(servers[c])

(* The opening fails.  The socket is left as it is.                        *)
Fail(c, e) ==
    /\ pc' = [pc EXCEPT ![c] = "failed"]
    /\ out' = [out EXCEPT ![c] = [at |-> pc[c], err |-> e]]
    /\ wd' = [wd EXCEPT ![c] = IF @ = "wait" THEN "gone" ELSE @]

-----------------------------------------------------------------------------
(* Session.Connect.                                                        *)

(* Mutant: Connect does not begin with Disconnect.                         *)
ReconnectKeepsSocket(c) ==
    /\ pc' = [pc EXCEPT ![c] = "dial"]
    /\ UNCHANGED <<sock, stray>>
(* Connect begins with ResetBuffer and Disconnect, also when it calls      *)
(* itself after a redirect or a refusal.                                   *)
Reconnect(c) ==
    /\ pc' = [pc EXCEPT ![c] = "dial"]
    /\ sock' = [sock EXCEPT ![c] = "nil"]
    /\ UNCHANGED stray

(* OpenWithContext: the first server, a new session, its watchdog, Connect.*)
(* The watchdog of a session given up by Reopen acts on that session only, *)
(* and a socket that session still has is lost.                            *)
Open(c) ==
    /\ pc[c] = "start"
    /\ idx' = [idx EXCEPT ![c] = 0]
    /\ tried' = [tried EXCEPT ![c] = {}]
    /\ connected' = [connected EXCEPT ![c] = FALSE]
    /\ wd' = [wd EXCEPT ![c] = "wait"]
    /\ pc' = [pc EXCEPT ![c] = "dial"]
    /\ stray' = [stray EXCEPT ![c] = IF sock[c] = "nil" THEN @ ELSE @ + 1]
    /\ sock' = [sock EXCEPT ![c] = "nil"]
    /\ UNCHANGED <<ctx, servers, hops, loginVars, broken, out, cookieVars, dbVars>>

(* DialContext returns a socket, which nobody else can see yet.            *)
DialSucceeds(c) ==
    /\ pc[c] = "dial" /\ HasServer(c, idx[c])
    /\ pc' = [pc EXCEPT ![c] = "publish"]
    /\ tried' = [tried EXCEPT ![c] = @ \cup {idx[c] + 1}]
    /\ UNCHANGED <<ctx, sessionVars, servers, idx, hops, loginVars, out, cookieVars, dbVars>>

(* GetActiveServer(true).                                                  *)
Jump(i) == i + 1

(* DialContext fails, at once if the context is over; session.conn is nil. *)
DialFails(c) ==
    /\ pc[c] = "dial" /\ HasServer(c, idx[c])
    /\ tried' = [tried EXCEPT ![c] = @ \cup {idx[c] + 1}]
    /\ idx' = [idx EXCEPT ![c] = Jump(@)]
    /\ sock' = [sock EXCEPT ![c] = "nil"]
    /\ IF HasServer(c, Jump(idx[c])) THEN UNCHANGED <<pc, out, wd>> ELSE Fail(c, "dial")
    /\ UNCHANGED <<ctx, connected, stray, broken, servers, hops, loginVars, cookieVars, dbVars>>

(* session.conn = conn, under the mutex.  A socket it replaces is lost.    *)
Publish(c) ==
    /\ pc[c] = "publish"
    /\ stray' = [stray EXCEPT ![c] = IF sock[c] = "nil" THEN @ ELSE @ + 1]
    /\ sock' = [sock EXCEPT ![c] = "open"]
    /\ pc' = [pc EXCEPT ![c] = "send"]
    /\ UNCHANGED <<ctx, wd, connected, broken, listVars, loginVars, out, cookieVars, dbVars>>

(* The connect packet is written.                                          *)
SendConnect(c) ==
    /\ pc[c] = "send" /\ sock[c] # "nil"
    /\ pc' = [pc EXCEPT ![c] = "answer"]
    /\ UNCHANGED <<ctx, sessionVars, listVars, loginVars, out, cookieVars, dbVars>>

(* The accept packet: Connect returns nil.                                 *)
Accepted(c) ==
    /\ pc[c] = "answer" /\ sock[c] = "open"
    /\ pc' = [pc EXCEPT ![c] = "login"]
    /\ UNCHANGED <<ctx, sessionVars, listVars, loginVars, out, cookieVars, dbVars>>

(* Mutant: the index is not set back.                                      *)
RedirectedKeepsIndex(c) ==
    /\ pc[c] = "answer" /\ sock[c] = "open"
    /\ hops[c] < MaxHops
    /\ \E list \in RedirectLists : servers' = [servers EXCEPT ![c] = list]
    /\ hops' = [hops EXCEPT ![c] = @ + 1]
    /\ tried' = [tried EXCEPT ![c] = {}]
    /\ Reconnect(c)
    /\ UNCHANGED <<ctx, idx, wd, connected, broken, loginVars, out, cookieVars, dbVars>>

(* The redirect packet: a new list, from its beginning.                    *)
Redirected(c) ==
    /\ pc[c] = "answer" /\ sock[c] = "open"
    /\ hops[c] < MaxHops
    /\ \E list \in RedirectLists : servers' = [servers EXCEPT ![c] = list]
    /\ hops' = [hops EXCEPT ![c] = @ + 1]
    /\ idx' = [idx EXCEPT ![c] = 0]
    /\ tried' = [tried EXCEPT ![c] = {}]
    /\ Reconnect(c)
    /\ UNCHANGED <<ctx, wd, connected, broken, loginVars, out, cookieVars, dbVars>>

(* The refuse packet: the next server, or the refusal is the error.        *)
Refused(c) ==
    /\ pc[c] = "answer" /\ sock[c] = "open"
    /\ idx' = [idx EXCEPT ![c] = Jump(@)]
    /\ IF HasServer(c, Jump(idx[c]))
       THEN Reconnect(c) /\ UNCHANGED <<out, wd>>
       ELSE Fail(c, "refused") /\ sock' = [sock EXCEPT ![c] = "nil"] /\ UNCHANGED stray
    /\ UNCHANGED <<ctx, connected, broken, servers, hops, tried, loginVars, cookieVars, dbVars>>

-----------------------------------------------------------------------------
(* The login.                                                              *)

(* With fast login and a cookie in the store the capabilities are taken    *)
(* from it and not negotiated.  Advanced negotiation comes before, if the  *)
(* listener asks for it.                                                   *)
LoginWithCookie(c) ==
    /\ pc[c] = "login" /\ fast /\ store # NoCookie
    /\ cookie' = [cookie EXCEPT ![c] = store]
    /\ nego' = [nego EXCEPT ![c] = store]
    /\ pc' = [pc EXCEPT ![c] = "auth"]
    /\ UNCHANGED <<ctx, sessionVars, listVars, out, cookieVars, dbVars>>

(* Otherwise the capabilities are negotiated with the database, in the     *)
(* same exchange as the authentication or before it.                       *)
LoginNegotiated(c) ==
    /\ pc[c] = "login" /\ (fast => store = NoCookie)
    /\ pc' = [pc EXCEPT ![c] = "auth"]
    /\ UNCHANGED <<ctx, sessionVars, listVars, loginVars, out, cookieVars, dbVars>>

(* doAuth succeeds, or the read after a reset marker finds no error.       *)
Authenticated(c) ==
    /\ pc[c] \in {"auth", "reread"} /\ sock[c] = "open"
    /\ cookie[c] \in {NoCookie, version}
    /\ nego' = [nego EXCEPT ![c] = version]
    /\ pc' = [pc EXCEPT ![c] = "save"]
    /\ UNCHANGED <<ctx, sessionVars, listVars, cookie, out, cookieVars, dbVars>>

(* doAuth meets a reset marker: ErrConnReset.                              *)
AuthReset(c) ==
    /\ pc[c] = "auth" /\ sock[c] = "open"
    /\ pc' = [pc EXCEPT ![c] = IF fast THEN "renego" ELSE "reread"]
    /\ UNCHANGED <<ctx, sessionVars, listVars, loginVars, out, cookieVars, dbVars>>

(* With fast login the capabilities are then read again, with a cookie     *)
(* too; the errors of these two reads are returned at once.                *)
Renegotiated(c) ==
    /\ pc[c] = "renego" /\ sock[c] = "open"
    /\ nego' = [nego EXCEPT ![c] = version]
    /\ pc' = [pc EXCEPT ![c] = "reread"]
    /\ UNCHANGED <<ctx, sessionVars, listVars, cookie, out, cookieVars, dbVars>>

(* The database rejects the credentials, at once or behind a reset marker, *)
(* or its answer cannot be used.                                           *)
Denied(c) ==
    /\ pc[c] \in {"auth", "renego", "reread"} /\ sock[c] = "open"
    /\ pc[c] = "auth" => cookie[c] \in {NoCookie, version}
    /\ Fail(c, "denied")
    /\ UNCHANGED <<ctx, connected, sock, stray, broken, listVars, loginVars, cookieVars, dbVars>>

(* A database of another version hangs up on the cookie (external).        *)
CookieRejected(c) ==
    /\ pc[c] = "auth" /\ sock[c] = "open"
    /\ cookie[c] \notin {NoCookie, version}
    /\ sock' = [sock EXCEPT ![c] = "eof"]
    /\ UNCHANGED <<pc, ctx, wd, connected, stray, broken, listVars, loginVars, out, cookieVars, dbVars>>

(* A login with a cookie that meets io.EOF, or the ErrBadConn of a packet  *)
(* that closes the connection, in doAuth or in the last read after a reset *)
(* marker, is begun again without it.                                      *)
Reopens(c) == pc[c] \in {"auth", "reread"} /\ sock[c] = "eof" /\ cookie[c] # NoCookie

(* Mutant: the cookie is forgotten and not deleted.                        *)
ReopenKeepsCookie(c) ==
    /\ Reopens(c)
    /\ cookie' = [cookie EXCEPT ![c] = NoCookie]
    /\ sock' = [sock EXCEPT ![c] = "nil"]
    /\ pc' = [pc EXCEPT ![c] = "start"]
    /\ spent' = [spent EXCEPT ![c] = saved]
    /\ UNCHANGED <<ctx, wd, connected, stray, broken, listVars, nego, out, store, saved, dbVars>>
(* deleteCookie, whatever the store holds by now, Disconnect, and          *)
(* OpenWithContext again.                                                  *)
Reopen(c) ==
    /\ Reopens(c)
    /\ store' = NoCookie
    /\ cookie' = [cookie EXCEPT ![c] = NoCookie]
    /\ sock' = [sock EXCEPT ![c] = "nil"]
    /\ pc' = [pc EXCEPT ![c] = "start"]
    /\ spent' = [spent EXCEPT ![c] = saved]
    /\ UNCHANGED <<ctx, wd, connected, stray, broken, listVars, nego, out, saved, dbVars>>

(* Any other write or read on a socket that is closed or lost.             *)
IOFails(c) ==
    /\ pc[c] \in {"send", "answer", "login", "auth", "renego", "reread", "version"}
    /\ sock[c] # "open"
    /\ ~Reopens(c)
    /\ Fail(c, sock[c])
    /\ UNCHANGED <<ctx, connected, sock, stray, broken, listVars, loginVars, cookieVars, dbVars>>

(* An answer Connect or a later stage cannot use: an unknown packet, a     *)
(* redirect without an address, a service or a version that does not       *)
(* parse, session properties without numbers.                              *)
BadAnswer(c) ==
    /\ pc[c] \in {"answer", "login", "version", "nls"} /\ sock[c] = "open"
    /\ Fail(c, "denied")
    /\ UNCHANGED <<ctx, connected, sock, stray, broken, listVars, loginVars, cookieVars, dbVars>>

(* State = Opened; saveCookie unless the login used one.                   *)
SaveCookie(c) ==
    /\ pc[c] = "save"
    /\ IF cookie[c] = NoCookie /\ fast
       THEN store' = nego[c] /\ saved' = saved + 1
       ELSE UNCHANGED <<store, saved>>
    /\ pc' = [pc EXCEPT ![c] = "version"]
    /\ UNCHANGED <<ctx, sessionVars, listVars, loginVars, out, spent, dbVars>>

(* GetDBVersion has its reply.                                             *)
GotVersion(c) ==
    /\ pc[c] = "version" /\ sock[c] = "open"
    /\ pc' = [pc EXCEPT ![c] = "connect"]
    /\ UNCHANGED <<ctx, sessionVars, listVars, loginVars, out, cookieVars, dbVars>>

SetConnected(c) ==
    /\ pc[c] = "connect"
    /\ connected' = [connected EXCEPT ![c] = TRUE]
    /\ pc' = [pc EXCEPT ![c] = "nls"]
    /\ UNCHANGED <<ctx, wd, sock, stray, broken, listVars, loginVars, out, cookieVars, dbVars>>

(* GetNLS, then the query of the server's time zone.  Their contexts are   *)
(* never over, but the watchdog of the opening may interrupt them; their   *)
(* errors are dropped.                                                     *)
QueryEnds(c) ==
    /\ pc[c] \in {"nls", "zone"}
    /\ broken' = [broken EXCEPT ![c] = FALSE]
    /\ pc' = [pc EXCEPT ![c] = IF @ = "nls" THEN "zone" ELSE "opened"]
    /\ wd' = [wd EXCEPT ![c] = IF pc[c] = "zone" /\ @ = "wait" THEN "gone" ELSE @]
    /\ UNCHANGED <<ctx, connected, sock, stray, listVars, loginVars, out, cookieVars, dbVars>>

-----------------------------------------------------------------------------
(* Contexts and watchdogs.                                                 *)

Cancel(c) ==
    /\ pc[c] \notin Over /\ ctx[c] = "live"
    /\ ctx' = [ctx EXCEPT ![c] = "cancelled"]
    /\ UNCHANGED <<pc, sessionVars, listVars, loginVars, out, cookieVars, dbVars>>

(* The watchdog reads session.Connected and decides.                       *)
WatchdogFires(c) ==
    /\ wd[c] = "wait" /\ ctx[c] = "cancelled"
    /\ wd' = [wd EXCEPT ![c] = IF connected[c] THEN "break" ELSE "disconnect"]
    /\ UNCHANGED <<pc, ctx, connected, sock, stray, broken, listVars, loginVars, out, cookieVars, dbVars>>

(* WriteFinalPacket and Disconnect, on the socket the session has by then. *)
WatchdogDisconnects(c) ==
    /\ wd[c] = "disconnect"
    /\ wd' = [wd EXCEPT ![c] = "gone"]
    /\ sock' = [sock EXCEPT ![c] = "nil"]
    /\ UNCHANGED <<pc, ctx, connected, stray, broken, listVars, loginVars, out, cookieVars, dbVars>>

WatchdogBreaks(c) ==
    /\ wd[c] = "break"
    /\ wd' = [wd EXCEPT ![c] = "gone"]
    /\ broken' = [broken EXCEPT ![c] = (sock[c] = "open")]
    /\ UNCHANGED <<pc, ctx, connected, sock, stray, listVars, loginVars, out, cookieVars, dbVars>>

-----------------------------------------------------------------------------
(* The network and the database (external).                                *)

LoseSocket(c) ==
    /\ sock[c] = "open"
    /\ \E e \in Losses : sock' = [sock EXCEPT ![c] = e]
    /\ UNCHANGED <<pc, ctx, wd, connected, stray, broken, listVars, loginVars, out, cookieVars, dbVars>>

(* The database is upgraded: its sessions end.                             *)
Upgrade ==
    /\ version < MaxVersion
    /\ version' = version + 1
    /\ sock' = [c \in Conns |->
                  IF sock[c] = "open" /\ pc[c] \notin {"dial", "publish", "send", "answer"}
                  THEN "eof" ELSE sock[c]]
    /\ UNCHANGED <<pc, ctx, wd, connected, stray, broken, listVars, loginVars, out, cookieVars, fast>>

-----------------------------------------------------------------------------
Answered(c) == Accepted(c) \/ Redirected(c) \/ Refused(c) \/ BadAnswer(c)
LoggedIn(c) ==
    \/ Authenticated(c) \/ AuthReset(c) \/ Renegotiated(c)
    \/ Denied(c) \/ CookieRejected(c)
Dialled(c) == DialSucceeds(c) \/ DialFails(c)
Steps(c) ==
    \/ Open(c) \/ Publish(c) \/ SendConnect(c) \/ LoginWithCookie(c) \/ LoginNegotiated(c)
    \/ Reopen(c) \/ IOFails(c) \/ SaveCookie(c) \/ SetConnected(c)
Watchdog(c) == WatchdogFires(c) \/ WatchdogDisconnects(c) \/ WatchdogBreaks(c)

Next ==
    \/ \E c \in Conns :
        \/ Steps(c) \/ Dialled(c) \/ Answered(c) \/ LoggedIn(c) \/ GotVersion(c) \/ QueryEnds(c)
        \/ Cancel(c) \/ Watchdog(c) \/ LoseSocket(c)
    \/ Upgrade

Spec == Init /\ [][Next]_vars

(* Everybody does their part: the client, the network, the servers.        *)
FairSpec ==
    /\ Spec
    /\ \A c \in Conns :
        /\ WF_vars(Steps(c)) /\ WF_vars(Watchdog(c)) /\ WF_vars(Dialled(c))
        /\ WF_vars(Answered(c)) /\ WF_vars(LoggedIn(c))
        /\ WF_vars(GotVersion(c)) /\ WF_vars(QueryEnds(c))

-----------------------------------------------------------------------------
SessionTypes ==
    /\ pc \in [Conns -> Stages \cup Over]
    /\ ctx \in [Conns -> {"live", "cancelled"}]
    /\ wd \in [Conns -> {"wait", "disconnect", "break", "gone"}]
    /\ connected \in [Conns -> BOOLEAN]
    /\ sock \in [Conns -> {"nil", "open", "eof", "rst"}]
    /\ stray \in [Conns -> Nat]
    /\ broken \in [Conns -> BOOLEAN]
    /\ out \in [Conns -> [at : Stages, err : Errors] \cup {Fine}]
ListTypes ==
    /\ servers \in [Conns -> {InitialList} \cup RedirectLists]
    /\ idx \in [Conns -> Nat] /\ \A c \in Conns : idx[c] <= Len(servers[c])
    /\ hops \in [Conns -> 0..MaxHops]
    /\ tried \in [Conns -> SUBSET Nat]
LoginTypes ==
    /\ cookie \in [Conns -> 0..MaxVersion]
    /\ nego \in [Conns -> 0..MaxVersion]
    /\ store \in 0..MaxVersion
    /\ saved \in Nat /\ spent \in [Conns -> Nat]
    /\ version \in 1..MaxVersion /\ fast \in BOOLEAN
(* Every variable keeps its type.                                          *)
TypeOK == SessionTypes /\ ListTypes /\ LoginTypes

(* Opening fails for want of a server only when every server of the list   *)
(* has been tried since the list was set: dial failures and refusals, in   *)
(* whatever mixture and with redirects and reopenings, skip none.          *)
EveryServerTried ==
    \A c \in Conns : out[c].err \in {"dial", "refused"} =>
        tried[c] = 1..Len(servers[c])

(* A connection that has begun again because of a cookie logs in later     *)
(* only with one that was saved after that, by whichever connection: the   *)
(* cookie it gave up never comes back to it, so that it begins again at    *)
(* most once for every cookie saved.                                       *)
NewCookieOnly == \A c \in Conns : cookie[c] # NoCookie => saved > spent[c]

(* No socket is dropped while open by redirects, refusals and reopenings,  *)
(* whenever the watchdog disconnects.                                      *)
NoStraySocket == \A c \in Conns : stray[c] = 0

(* Opening ends, opened or failed: stale cookies, which several            *)
(* connections save, use and delete, do not make it begin again for ever.  *)
OpenEnds == \A c \in Conns : <>(pc[c] \in Over)
=============================================================================
