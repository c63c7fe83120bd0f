--------------------------- MODULE PortForwarders ----------------------------
(***************************************************************************)
(* How each VPN provider forwards ports and keeps them (PortForward and        *)
(* KeepPortForward of internal/provider): Private Internet Access, which       *)
(* writes what it was given to a file and binds it again; ProtonVPN, which     *)
(* maps ports at the gateway with NAT-PMP (internal/natpmp) and refreshes the   *)
(* mappings; Perfect Privacy and PrivateVPN, with nothing to keep.  The service *)
(* of internal/portforward calls them again when they fail.                  *)
(***************************************************************************)
EXTENDS Integers, FiniteSets

CONSTANTS
    Externals,  \* the ports that may be given
    PortsCount, \* how many ProtonVPN is asked for
    Life,       \* how long PIA gives a port for
    MaxClock,   \* bound on the clock
    MaxFaults   \* bound on what fails, is lost, is forgotten or is cut short

\* What the constants are assumed to be.
ForwardersConstants ==
    /\ Externals \subseteq Nat \ {0} /\ PortsCount \in Nat \ {0} /\ Life \in Nat
    /\ MaxClock \in Nat /\ MaxFaults \in Nat

VARIABLE f
(* at: where PortForward or KeepPortForward is; data: the port PIA gave and until   *)
(* when; file: what is in its file; bound: what PIA forwards; given: the data       *)
(* written last, unless those before had not expired; ports: what ProtonVPN         *)
(* returned, per internal port; gateway: what the gateway maps, per protocol and    *)
(* internal port; todo: the mappings to ask for; refreshed: all of them were asked   *)
(* for again.                                                               *)

NoData == [port |-> 0, until |-> 0]
None == 0
Protocols == {"udp", "tcp"}
Internals == 0..PortsCount  \* 0 is one that nobody asked for
Asked == Internals \ {0}
Mappings == Asked \X Protocols
NoPorts == [i \in Internals |-> None]

ForwardersTypeOK ==
    /\ f.provider \in {"pia", "protonvpn", "perfectprivacy", "privatevpn"}
    /\ f.data.port \in Externals \cup {None} /\ f.now \in 0..MaxClock /\ f.faults \in 0..MaxFaults
    /\ f.file.is \in {"missing", "torn", "json"} /\ f.bound \subseteq Externals
    /\ f.todo \subseteq Mappings /\ f.ports \in [Internals -> Externals \cup {None}]
    /\ f.at = "keep" /\ f.provider = "pia" => f.data.port \in f.bound

ForwardersInit ==
    \E provider \in {"pia", "protonvpn", "perfectprivacy", "privatevpn"} :
    f = [provider |-> provider, at |-> "idle", data |-> NoData, expired |-> FALSE,
         file |-> [is |-> "missing", of |-> NoData], bound |-> {}, given |-> NoData, now |-> 0,
         ports |-> NoPorts, asking |-> NoPorts, todo |-> {}, refreshed |-> FALSE, faults |-> 0,
         gateway |-> [m \in Mappings |-> None]]

At(provider, at) == f.provider = provider /\ f.at = at
Goes(at) == f' = [f EXCEPT !.at = at]
Faulty(v) == f.faults < MaxFaults /\ f' = [v EXCEPT !.faults = @ + 1]

------------------------- (* Private Internet Access *) ----------------------

\* A bug: the two times are compared the other way.
Expired_Reversed(d) == d.port = 0 \/ d.until > f.now

Expired(d) == d.port = 0 \/ d.until <= f.now

\* readPIAPortForwardData: no file is no data, and one cut short is an error.
Read ==
    /\ At("pia", "read")
    /\ IF f.file.is = "torn" THEN Goes("failed")
       ELSE f' = [f EXCEPT !.at = "find", !.data = f.file.of, !.expired = Expired(f.file.of)]

\* findAPIIP asks two addresses, of which one may answer.
FindAPIIP == At("pia", "find") /\ Goes(IF f.expired THEN "refresh" ELSE "bind")

\* fetchToken, then fetchPortForwardData.
Refresh ==
    /\ At("pia", "refresh")
    /\ \E port \in Externals :
          f' = [f EXCEPT !.at = "open", !.data = [port |-> port, until |-> f.now + Life]]

\* writePIAPortForwardData truncates the file, then writes it.
Open == At("pia", "open") /\ f' = [f EXCEPT !.at = "encode", !.file = [is |-> "torn", of |-> NoData]]

Encode ==
    /\ At("pia", "encode")
    /\ f' = [f EXCEPT !.at = "bind", !.file = [is |-> "json", of |-> f.data],
                      !.given = IF @.until > f.now THEN @ ELSE f.data]

\* A bug: the port is returned and never bound.
BindPort_Skips == At("pia", "bind") /\ Goes("start")

\* bindPort, and PortForward returns.
BindPort == At("pia", "bind") /\ f' = [f EXCEPT !.at = "start", !.bound = @ \cup {f.data.port}]

\* KeepPortForward reads the file again.
KeepRead ==
    /\ At("pia", "start")
    /\ IF f.file.is = "torn" THEN Goes("failed")
       ELSE f' = [f EXCEPT !.data = f.file.of, !.at = IF Expired(f.file.of) THEN "failed" ELSE "keep"]

\* bindPort every 15 minutes, until the timer of the expiration.
KeepAlive == At("pia", "keep") /\ f' = [f EXCEPT !.bound = @ \cup {f.data.port}]
Expires == At("pia", "keep") /\ Expired(f.data) /\ Goes("failed")

\* The API does not answer, or says no, or the file cannot be opened or written.
PIAFails ==
    /\ f.provider = "pia" /\ f.at \in {"find", "refresh", "open", "encode", "bind", "keep"}
    /\ Faulty([f EXCEPT !.at = "failed"])

PIAStep == Read \/ FindAPIIP \/ Refresh \/ Open \/ Encode \/ BindPort \/ KeepRead \/ KeepAlive \/ Expires

------------------------------- (* ProtonVPN *) -------------------------------

\* ExternalAddress, then PortsCount mappings are asked for in each protocol.
ExternalAddress ==
    /\ At("protonvpn", "read")
    /\ f' = [f EXCEPT !.at = "add", !.todo = Mappings, !.ports = NoPorts, !.asking = NoPorts,
                      !.refreshed = FALSE]

Assigned(m, wanted) ==
    IF f.gateway[m] # None THEN {f.gateway[m]}
    ELSE IF wanted \in Externals THEN {wanted} \cup Externals ELSE Externals

(* PortForward asks for any external port, the internal ports in order and the     *)
(* protocols in any, and records what TCP was given.                          *)
AddMapping ==
    /\ At("protonvpn", "add")
    /\ \E m \in f.todo :
          /\ \A n \in f.todo : m[1] <= n[1]
          /\ \E e \in Assigned(m, None) :
                LET left == f.todo \ {m} IN
                f' = [f EXCEPT !.gateway[m] = e, !.todo = left, !.at = IF left = {} THEN "keep" ELSE "add",
                               !.ports[m[1]] = IF m[2] = "tcp" THEN e ELSE @]

\* 45 seconds later.
RefreshTimer == At("protonvpn", "keep") /\ f' = [f EXCEPT !.at = "again", !.todo = Mappings, !.refreshed = FALSE]

\* A bug: a port that changed is not an error.
Changed_Never(m, e) == FALSE

Changed(m, e) == e # f.ports[m[1]]

(* KeepPortForward asks again for each port, first in UDP then in TCP, and ends    *)
(* when the gateway gives another.                                          *)
RefreshMapping ==
    /\ At("protonvpn", "again")
    /\ \E m \in f.todo :
          /\ m[2] = "tcp" => <<m[1], "udp">> \notin f.todo
          /\ \A i \in Asked : Cardinality({n \in f.todo : n[1] = i}) = 1 => m[1] = i
          /\ \E e \in Assigned(m, f.ports[m[1]]) :
                LET left == f.todo \ {m} IN
                f' = [f EXCEPT !.gateway[m] = e, !.todo = IF Changed(m, e) THEN {} ELSE left,
                               !.refreshed = ~Changed(m, e) /\ left = {},
                               !.at = IF Changed(m, e) THEN "failed" ELSE IF left = {} THEN "keep" ELSE "again"]

\* The gateway does not answer the nine requests, or answers that it cannot.
ProtonFails ==
    /\ f.provider = "protonvpn" /\ f.at \in {"read", "add", "again"}
    /\ Faulty([f EXCEPT !.at = "failed", !.todo = {}])

\* The lifetime of a mapping ends, 60 seconds after it was last asked for.
GatewayForgets ==
    \E m \in Mappings : f.gateway[m] # None /\ Faulty([f EXCEPT !.gateway[m] = None])

ProtonStep == ExternalAddress \/ AddMapping \/ RefreshMapping \/ RefreshTimer

-------------------------------- (* The others *) ----------------------------

\* Perfect Privacy computes its ports; PrivateVPN asks for its port once.
Others ==
    /\ f.provider \in {"perfectprivacy", "privatevpn"} /\ f.at = "read"
    /\ \/ Goes("keep")
       \/ f.provider = "privatevpn" /\ Faulty([f EXCEPT !.at = "failed"])

------------------------------- (* The service *) ----------------------------

Call == f.at \in {"idle", "failed"} /\ Goes("read")

(* The context is done: a request fails, the write of a file is not interrupted, and *)
(* KeepPortForward returns.  The tunnel takes what the gateway maps with it.      *)
Cancel ==
    /\ f.at \notin {"idle", "open", "encode"}
    /\ Faulty([f EXCEPT !.at = "idle", !.todo = {}, !.bound = {}])

Crash ==
    /\ f.at # "idle"
    /\ Faulty([f EXCEPT !.at = "idle", !.todo = {}, !.data = NoData, !.bound = {}])

\* The user removes the file.
RemoveFile ==
    /\ f.provider = "pia" /\ f.file.is # "missing" /\ f.at \notin {"open", "encode"}
    /\ Faulty([f EXCEPT !.file = [is |-> "missing", of |-> NoData], !.given = NoData])

Tick == f.provider = "pia" /\ f.now < MaxClock /\ f' = [f EXCEPT !.now = @ + 1]

ForwardersNext ==
    \/ Call \/ PIAStep \/ PIAFails \/ ProtonStep \/ ProtonFails \/ GatewayForgets \/ Others
    \/ Cancel \/ Crash \/ RemoveFile \/ Tick

ForwardersFairness == WF_f(Call) /\ WF_f(PIAStep) /\ WF_f(ProtonStep) /\ WF_f(Others)

------------------------------- (* Properties *) -----------------------------

(* A port that PIA gave is the one that is forwarded until it expires, over        *)
(* failures, new tunnels and restarts of the program, as long as its file is      *)
(* there (privateinternetaccess/portforward.go, PortForward).                   *)
SamePort ==
    f.provider = "pia" /\ f.at \in {"start", "keep"} /\ f.now < f.given.until =>
        f.data.port = f.given.port

(* After a refresh, and until the gateway forgets it, a port is open in both        *)
(* protocols under the number that was returned                               *)
(* (protonvpn/portforward.go, KeepPortForward).                               *)
KeptBoth ==
    f.provider = "protonvpn" /\ f.refreshed =>
        \A m \in Mappings : f.gateway[m] \in {f.ports[m[1]], None}

(* PIA is called again until it forwards a port that has not expired, but when a    *)
(* crash or a failed write left its file cut short, which nothing repairs         *)
(* (privateinternetaccess/portforward.go, readPIAPortForwardData).               *)
PIARecovers == f.provider = "pia" ~> f.provider = "pia" /\ (f.at = "keep" \/ f.file.is = "torn")
=============================================================================
