--------------------------- MODULE WorkspaceLease ---------------------------
(***************************************************************************)
(* What the runtime store promises about executing runs, without tables,   *)
(* versions or events.  Every workspace has at most one holder.  A run is  *)
(* granted its workspace when it starts, may write revisions only while it *)
(* holds it, and gives it up exactly when it is done.  Each grant raises   *)
(* the workspace's fence, so two grants are never confused.                *)
(***************************************************************************)
EXTENDS Naturals

CONSTANTS Runs, Workspaces, None

VARIABLES phase,    \* [Runs -> Phases]
          home,     \* the workspace a run was accepted for
          holder,   \* [Workspaces -> Runs \cup {None}]
          fence,    \* number of grants of each workspace
          tip       \* number of revisions of each workspace

leaseVars == <<phase, home, holder, fence, tip>>

Phases == {"unborn", "pending", "held", "done"}

Init ==
    /\ phase  = [r \in Runs |-> "unborn"]
    /\ home   = [r \in Runs |-> None]
    /\ holder = [w \in Workspaces |-> None]
    /\ fence  = [w \in Workspaces |-> 0]
    /\ tip    = [w \in Workspaces |-> 0]

Submit(r, w) ==
    /\ phase[r] = "unborn"
    /\ phase' = [phase EXCEPT ![r] = "pending"]
    /\ home'  = [home EXCEPT ![r] = w]
    /\ UNCHANGED <<holder, fence, tip>>

Grant(r) ==
    /\ phase[r] = "pending"
    /\ holder[home[r]] = None
    /\ phase'  = [phase EXCEPT ![r] = "held"]
    /\ holder' = [holder EXCEPT ![home[r]] = r]
    /\ fence'  = [fence EXCEPT ![home[r]] = @ + 1]
    /\ UNCHANGED <<home, tip>>

\* A run that never held its workspace leaves without touching it.
Withdraw(r) ==
    /\ phase[r] = "pending"
    /\ phase' = [phase EXCEPT ![r] = "done"]
    /\ UNCHANGED <<home, holder, fence, tip>>

Finish(r) ==
    /\ phase[r] = "held"
    /\ holder[home[r]] = r
    /\ phase'  = [phase EXCEPT ![r] = "done"]
    /\ holder' = [holder EXCEPT ![home[r]] = None]
    /\ UNCHANGED <<home, fence, tip>>

Write(w) ==
    /\ holder[w] # None
    /\ tip' = [tip EXCEPT ![w] = @ + 1]
    /\ UNCHANGED <<phase, home, holder, fence>>

Next ==
    \/ \E r \in Runs, w \in Workspaces : Submit(r, w)
    \/ \E r \in Runs : Grant(r) \/ Withdraw(r) \/ Finish(r)
    \/ \E w \in Workspaces : Write(w)

Spec == Init /\ [][Next]_leaseVars
=============================================================================
