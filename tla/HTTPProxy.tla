------------------------------ MODULE HTTPProxy ------------------------------
(***************************************************************************)
(* The HTTP proxy (internal/httpproxy): its loop, its server, and the requests *)
(* the server hands to a goroutine each.                                    *)
(*                                                                         *)
(* Nobody calls ApplyStatus or SetSettings of this loop in the program, so    *)
(* its start, stop and running channels never have anyone at the other end:   *)
(* a loop that is enabled waits on `running` from its first iteration on.    *)
(***************************************************************************)
EXTENDS Naturals, FiniteSets

CONSTANTS
    Requests,   \* the requests that may come, each with a goroutine of the server
    MaxFaults   \* bound on failures

\* What the constants are assumed to be.
HTTPProxyConstants == MaxFaults \in Nat

VARIABLE x
(* loop: where Loop.Run is; server: where Server.Run is; quit: the context of   *)
(* the loop is done, and with it that of the server and its handlers; password: *)
(* a user and a password are set; at, kind: where each request is and what it  *)
(* is; counted: the requests in the wait group of the handler; faults.       *)

Methods == {"CONNECT", "other"}
Credentials == {"none", "wrong", "right"}

\* What a request says: its HTTP version, its URL and its credentials.
Kinds == {k \in [method : Methods, version1 : BOOLEAN, url : {"http", "ftp", "relative"}, credentials : Credentials] :
             k.method = "CONNECT" => k.url = "relative"}
NoKind == [method |-> "none"]

Places == {"none", "handling", "dialled", "joined", "forwarded", "closed"}

HTTPProxyTypeOK ==
    /\ x.loop \in {"waitStart", "signal", "done"}
    /\ x.server \in {"none", "listening", "draining", "reporting"}
    /\ x.at \in [Requests -> Places] /\ x.counted \subseteq Requests
    /\ x.quit \in BOOLEAN /\ x.password \in BOOLEAN /\ x.faults \in 0..MaxFaults
    /\ \A r \in Requests :
          /\ x.kind[r] \in IF x.at[r] \in {"none", "closed"} THEN {NoKind} ELSE Kinds
          /\ r \in x.counted <=> x.at[r] = "joined"

HTTPProxyInit ==
    \E password, enabled \in BOOLEAN :
        x = [loop |-> IF enabled THEN "signal" ELSE "waitStart",
             server |-> IF enabled THEN "listening" ELSE "none",
             quit |-> FALSE, password |-> password,
             kind |-> [r \in Requests |-> NoKind],
             at |-> [r \in Requests |-> "none"], counted |-> {}, faults |-> 0]

CanFail == x.faults < MaxFaults
Failing(y) == [y EXCEPT !.faults = @ + 1]
Moves(r, place) == [x EXCEPT !.at[r] = place, !.kind[r] = IF place = "closed" THEN NoKind ELSE @]

---------------------------- (* Loop.Run, Server.Run *) -------------------------

\* Loop.Run of a proxy that is not enabled.
Quit == x.loop = "waitStart" /\ x.quit /\ x' = [x EXCEPT !.loop = "done"]

\* ListenAndServe returns: its context is done, or it failed.
StopsListening ==
    /\ x.server = "listening"
    /\ \/ x.quit /\ x' = [x EXCEPT !.server = "draining"]
       \/ CanFail /\ x' = Failing([x EXCEPT !.server = "draining"])

\* internalWG.Wait, and then the error for the loop.
Drained ==
    /\ x.server = "draining" /\ x.counted = {}
    /\ x' = [x EXCEPT !.server = "reporting"]

------------------------------ (* The handler *) --------------------------------

\* A bug: a request that is not for an absolute URL needs no credentials.
IsAuthorized_Relative(k) == ~x.password \/ k.url = "relative" \/ k.credentials = "right"

IsAuthorized(k) ==
    \/ ~x.password
    \/ k.method # "CONNECT" /\ k.url = "relative"
    \/ k.credentials = "right"

\* A request is taken while the server listens.
Request(r) ==
    /\ x.at[r] = "none" /\ x.server = "listening"
    /\ \E k \in Kinds : x' = [Moves(r, "handling") EXCEPT !.kind[r] = k]

\* isAccepted and isAuthorized, and handleHTTP for its scheme, answer by themselves.
Refused(r) ==
    LET k == x.kind[r] IN
    /\ x.at[r] = "handling"
    /\ ~k.version1 \/ ~IsAuthorized(k) \/ (k.method # "CONNECT" /\ k.url # "http")
    /\ x' = Moves(r, "closed")

\* handleHTTPS reaches the destination, or handleHTTP sends the request on.
Forward(r) ==
    LET k == x.kind[r] IN
    /\ x.at[r] = "handling" /\ ~x.quit
    /\ k.version1 /\ IsAuthorized(k) /\ (k.method = "CONNECT" \/ k.url = "http")
    /\ x' = Moves(r, IF k.method = "CONNECT" THEN "dialled" ELSE "forwarded")

\* The destination is not reached, or the context of the handler is done.
NotReached(r) ==
    /\ x.at[r] = "handling"
    /\ \/ x.quit /\ x' = Moves(r, "closed")
       \/ CanFail /\ x' = Failing(Moves(r, "closed"))

\* A bug: the wait group is not told of a connection.
Join_Uncounted(r) == x.at[r] = "dialled" /\ x' = Moves(r, "joined")

\* wg.Add(1), once the connection of the client was taken over.
Join(r) ==
    /\ x.at[r] = "dialled"
    /\ x' = [Moves(r, "joined") EXCEPT !.counted = @ \cup {r}]

\* h.ctx.Done: both connections are closed, and the request is aborted.
EndsByContext(r) ==
    /\ x.at[r] \in {"joined", "forwarded"} /\ x.quit
    /\ x' = [Moves(r, "closed") EXCEPT !.counted = @ \ {r}]

\* The client or the destination ends the exchange.
Ends(r) ==
    /\ x.at[r] \in {"joined", "forwarded"}
    /\ x' = [Moves(r, "closed") EXCEPT !.counted = @ \ {r}]

HandlerStep(r) == Refused(r) \/ Forward(r) \/ NotReached(r) \/ Join(r) \/ EndsByContext(r)

\* The program is told to end.
Cancel == ~x.quit /\ x' = [x EXCEPT !.quit = TRUE]

HTTPProxyNext ==
    \/ Quit \/ StopsListening \/ Drained \/ Cancel
    \/ \E r \in Requests : Request(r) \/ HandlerStep(r) \/ Ends(r)

\* The goroutines of the server run; its clients may keep their connections for good.
HTTPProxyFairness ==
    /\ WF_x(x.quit /\ StopsListening) /\ WF_x(Drained) /\ WF_x(Quit)
    /\ \A r \in Requests : WF_x(HandlerStep(r))

HTTPProxySpec == HTTPProxyInit /\ [][HTTPProxyNext]_x /\ HTTPProxyFairness

------------------------------- (* Properties *) --------------------------------

(* A request is sent on only for a client that gave the user and password set, *)
(* whatever its method and URL: a CONNECT has no absolute URL, and a request   *)
(* for a relative one, which is let through, is no request for a proxy        *)
(* (httpproxy/auth.go isAuthorized with http.go handleHTTP).                *)
ForwardedIfAuthorized ==
    \A r \in Requests :
        x.at[r] \in {"dialled", "joined", "forwarded"} /\ x.password => x.kind[r].credentials = "right"

(* Once the program is told to end, every connection is closed and the server   *)
(* has nothing left to do but report, though neither clients nor destinations  *)
(* end a connection (httpproxy/https.go handleHTTPS, server.go Run).         *)
ProxyWindsUp ==
    x.quit ~> (x.server \in {"none", "reporting"} /\ \A r \in Requests : x.at[r] \in {"none", "closed"})
=============================================================================
