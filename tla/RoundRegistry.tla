---------------------------- MODULE RoundRegistry ----------------------------
(***************************************************************************)
(* What the runtime manager promises for one session, without its locks,   *)
(* channels and timers: a set of active rounds, and interrupt calls.  A    *)
(* call notes the rounds active when it begins (wanted) and may report     *)
(* success only when none of them is active any more.  CloseSession        *)
(* withdraws the promise for the rounds it drops: they leave the set.      *)
(***************************************************************************)
CONSTANTS Rounds, Interrupters

VARIABLES
    active,  \* rounds registered and not yet reported finished
    begun,   \* rounds that have ever been registered
    call,    \* per interrupt call: "idle", "calling", "stopped", "failed"
    wanted   \* per interrupt call: the rounds it has to see stopped

vars == <<active, begun, call, wanted>>

Init ==
    /\ active = {}
    /\ begun = {}
    /\ call = [i \in Interrupters |-> "idle"]
    /\ wanted = [i \in Interrupters |-> {}]

\* A round is registered at most once.
Start(r) ==
    /\ r \notin begun
    /\ active' = active \cup {r}
    /\ begun' = begun \cup {r}
    /\ UNCHANGED <<call, wanted>>

Finish(r) ==
    /\ r \in active
    /\ active' = active \ {r}
    /\ UNCHANGED <<begun, call, wanted>>

\* The session is closed: every active round is dropped at once.
Drop ==
    /\ active # {}
    /\ active' = {}
    /\ UNCHANGED <<begun, call, wanted>>

Call(i) ==
    /\ call[i] = "idle"
    /\ active # {}
    /\ call' = [call EXCEPT ![i] = "calling"]
    /\ wanted' = [wanted EXCEPT ![i] = active]
    /\ UNCHANGED <<active, begun>>

\* Nothing is active: the call has nothing to stop.
CallOnIdle(i) ==
    /\ call[i] = "idle"
    /\ active = {}
    /\ call' = [call EXCEPT ![i] = "stopped"]
    /\ UNCHANGED <<active, begun, wanted>>

Return(i) ==
    /\ call[i] = "calling"
    /\ wanted[i] \cap active = {}
    /\ call' = [call EXCEPT ![i] = "stopped"]
    /\ UNCHANGED <<active, begun, wanted>>

Fail(i) ==
    /\ call[i] = "calling"
    /\ call' = [call EXCEPT ![i] = "failed"]
    /\ UNCHANGED <<active, begun, wanted>>

Next ==
    \/ \E r \in Rounds : Start(r) \/ Finish(r)
    \/ Drop
    \/ \E i \in Interrupters : Call(i) \/ CallOnIdle(i) \/ Return(i) \/ Fail(i)

Spec == Init /\ [][Next]_vars
=============================================================================
