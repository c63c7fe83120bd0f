----------------------------- MODULE MCServices -----------------------------
(* The services of gluetun, one at a time: a behaviour is that of the service   *)
(* `which` names, over the variable it calls its own.                          *)
EXTENDS LoopState

CONSTANTS Tunnels, Handlers, Free, DNSFaults, DNSCalls, UpdaterFaults, UpdaterCalls,
    Requests, ProxyFaults, TunnelRuns, Urls

VARIABLES which, s

vars == <<stateVars, which, s>>

D == INSTANCE DNS WITH dns <- s, MaxFaults <- DNSFaults, MaxCalls <- DNSCalls
U == INSTANCE UpdaterLoop WITH u <- s, Clients <- Handlers, MaxFaults <- UpdaterFaults,
                               MaxCalls <- UpdaterCalls
H == INSTANCE HTTPProxy WITH x <- s, MaxFaults <- ProxyFaults
S == INSTANCE Shadowsocks WITH y <- s, MaxFaults <- ProxyFaults
B == INSTANCE BoringPoll WITH z <- s

ASSUME ServicesConstants ==
    /\ D!DNSConstants /\ U!UpdaterConstants /\ H!HTTPProxyConstants
    /\ S!ShadowsocksConstants /\ B!BoringPollConstants

Init ==
    \/ which = "dns" /\ D!DNSInit
    \/ which = "updater" /\ U!UpdaterInit /\ StateInit
    \/ which = "http" /\ H!HTTPProxyInit /\ StateInit
    \/ which = "shadowsocks" /\ S!ShadowsocksInit /\ StateInit
    \/ which = "poll" /\ B!BoringPollInit /\ StateInit

Next ==
    \/ which = "dns" /\ D!DNSNext /\ UNCHANGED which
    \/ which = "updater" /\ U!UpdaterNext /\ UNCHANGED <<which, stateVars>>
    \/ which = "http" /\ H!HTTPProxyNext /\ UNCHANGED <<which, stateVars>>
    \/ which = "shadowsocks" /\ S!ShadowsocksNext /\ UNCHANGED <<which, stateVars>>
    \/ which = "poll" /\ B!BoringPollNext /\ UNCHANGED <<which, stateVars>>

Fairness ==
    /\ WF_vars(which = "dns" /\ D!DNSLoopStep /\ UNCHANGED which)
    /\ WF_vars(which = "dns" /\ D!Quit /\ UNCHANGED which)
    /\ \A c \in Callers :
          /\ WF_vars(which = "dns" /\ CallerStep(c) /\ UNCHANGED <<which, s>>)
          /\ WF_vars(which = "dns" /\ D!TakeStop(c) /\ UNCHANGED which)
    /\ WF_vars(which = "updater" /\ U!UpdaterLoopStep /\ UNCHANGED <<which, stateVars>>)
    /\ WF_vars(which = "updater" /\ U!JobStep /\ UNCHANGED <<which, stateVars>>)
    /\ WF_vars(which = "updater" /\ U!Quit /\ UNCHANGED <<which, stateVars>>)
    /\ \A c \in Handlers :
          /\ WF_vars(which = "updater" /\ U!ClientStep(c) /\ UNCHANGED <<which, stateVars>>)
          /\ WF_vars(which = "updater" /\ U!TakeStop(c) /\ UNCHANGED <<which, stateVars>>)
          /\ SF_vars(which = "updater" /\ U!LockStatus(c) /\ UNCHANGED <<which, stateVars>>)
    /\ WF_vars(which = "http" /\ s.quit /\ H!StopsListening /\ UNCHANGED <<which, stateVars>>)
    /\ WF_vars(which = "http" /\ (H!Drained \/ H!Quit) /\ UNCHANGED <<which, stateVars>>)
    /\ \A r \in Requests : WF_vars(which = "http" /\ H!HandlerStep(r) /\ UNCHANGED <<which, stateVars>>)
    /\ WF_vars(which = "shadowsocks" /\ S!LoopStep /\ UNCHANGED <<which, stateVars>>)
    /\ WF_vars(which = "shadowsocks" /\ S!CallerStep /\ UNCHANGED <<which, stateVars>>)
    /\ WF_vars(which = "poll" /\ B!BoringPollStep /\ UNCHANGED <<which, stateVars>>)

Spec == Init /\ [][Next]_vars /\ Fairness

Dns(F) == which = "dns" /\ F
Updater(F) == which = "updater" /\ F
Http(F) == which = "http" /\ F
Socks(F) == which = "shadowsocks" /\ F
Poll(F) == which = "poll" /\ F

\* The state of each service is of its type.
ServicesTypeOK ==
    /\ which = "dns" => D!DNSTypeOK
    /\ which = "updater" => U!UpdaterTypeOK
    /\ which = "http" => H!HTTPProxyTypeOK
    /\ which = "shadowsocks" => S!ShadowsocksTypeOK
    /\ which = "poll" => B!BoringPollTypeOK

(* What a client is shown is what goes on: the DNS server is up or down as its       *)
(* status says, no update goes on behind "stopped" or "completed" nor beside another, *)
(* and no poll after the cleanup of its tunnel (internal/dns, updater/loop,        *)
(* boringpoll).                                                            *)
AsShown ==
    /\ which = "dns" => D!DNSStatusTrue
    /\ which = "updater" => U!IdleMeansIdle /\ U!OneUpdate
    /\ which = "poll" => B!NoPollLeft

\* A request reaches its destination only for a client that gave the password (httpproxy).
ForwardedIfAuthorized == which = "http" => H!ForwardedIfAuthorized

(* A call returns to whoever made it, a tunnel, a handler or the cleanup of the VPN    *)
(* loop, but in the situations that the modules name: two mutexes taken in opposite    *)
(* orders, a wait for one who waits, an answer sent or expected by nobody.           *)
CallsReturn ==
    /\ \A c \in Callers : Dns(InCall(c)) ~> Dns(~InCall(c) \/ D!DNSStuck)
    /\ \A c \in Handlers :
          Updater(s.pc[c] # "idle") ~> Updater(s.pc[c] = "idle" \/ U!UpdaterStuck)
    /\ Poll(s.stop # "idle") ~> Poll(s.stop = "idle")

(* A server that fails is replaced without anybody asking, and one that is up again is  *)
(* shown as such; once told to end each service does, or hangs in a way its module      *)
(* names (Run of internal/dns, updater/loop, httpproxy, shadowsocks).                 *)
RecoverOrQuit ==
    /\ Dns(D!From("crashWait")) ~> Dns(s.server = "up" \/ s.loop = "done" \/ D!DNSStuck)
    /\ Socks(s.loop = "backoff" /\ s.timer # "read") ~> Socks(s.server # "none" \/ s.quit)
    /\ Socks(s.server = "up" /\ s.timer = "read") ~> Socks(s.status = "running" \/ s.server # "up" \/ s.quit)
    /\ Socks(s.quit) ~> Socks(s.loop = "done" \/ S!ShadowsocksHangs)
    /\ Updater(s.quit) ~> Updater(s.loop = "done" \/ U!UpdaterStuck)
    /\ Http(s.quit) ~> Http(s.server \in {"none", "reporting"} /\ \A r \in Requests : s.at[r] \in {"none", "closed"})
=============================================================================
