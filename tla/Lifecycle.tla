----------------------------- MODULE Lifecycle -----------------------------
(***************************************************************************)
(* What the VPN component promises to those who only read its status: which *)
(* status may follow which, and how the status is tied to the tunnel.  VPN   *)
(* implements it; the promise leaves out who asks, who waits and the        *)
(* goroutines in between.                                                  *)
(***************************************************************************)
VARIABLES
    st,         \* the status that is shown
    tunnel,     \* a tunnel has been launched and has not ended: "up" or "down"
    ending      \* the program is shutting down: contexts are done

Init == st = "stopped" /\ tunnel = "down" /\ ending = FALSE

\* A change of the status, possibly together with no change of the tunnel.
Show(new) == st' = new /\ UNCHANGED <<tunnel, ending>>

\* A stopped VPN has no tunnel until a start is accepted.
Start == st = "stopped" /\ Show("starting")

\* A tunnel is launched for a start, or to replace one that crashed.
Launch ==
    /\ st \in {"starting", "crashed"}
    /\ tunnel = "down" /\ tunnel' = "up"
    /\ UNCHANGED <<st, ending>>

End == tunnel = "up" /\ tunnel' = "down" /\ UNCHANGED <<st, ending>>

Started == st \in {"starting", "crashed"} /\ Show("running")

\* A crash is only reported for a tunnel that is down, unless it is left behind.
Crash ==
    /\ st \in {"starting", "running"}
    /\ tunnel = "down" \/ ending
    /\ Show("crashed")

Stop == st = "running" /\ Show("stopping")

\* The end of a stop is only reported once the tunnel is down.
Stopped == st = "stopping" /\ tunnel = "down" /\ Show("stopped")

\* A client whose context is done puts back the status its call had set.
GiveUp == ending /\ st \in {"running", "crashed"} /\ Show("starting")

Shutdown == ~ending /\ ending' = TRUE /\ UNCHANGED <<st, tunnel>>

Next == Start \/ Launch \/ End \/ Started \/ Crash \/ Stop \/ Stopped \/ GiveUp \/ Shutdown

Spec == Init /\ [][Next]_<<st, tunnel, ending>>
=============================================================================
