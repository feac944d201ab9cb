----------------------------- MODULE LoanReview -----------------------------
(***************************************************************************)
(* What the loan workflow promises of an application, whoever works on it: *)
(* it is approved by enough people other than its maker, all voting in the *)
(* same cycle, and moves along                                             *)
(*   draft -> submitted -> appraised -> approved -> disbursed              *)
(* with a way back to draft through rejection.  Handlers that overlap may  *)
(* write from a row they read earlier; all that such a write can do is to  *)
(* send an application back to draft, delete it or call it disbursed.      *)
(***************************************************************************)
EXTENDS Naturals, FiniteSets

CONSTANTS Application, User, Required, NoUser

VARIABLES
    state,      \* where each application is
    maker,      \* who requested it
    needed,     \* approvals it needs
    cycle,      \* its approval cycle
    yes,        \* who approved it in this cycle
    overlapped  \* applications whose handlers overlapped or failed

row == <<state, maker, needed, cycle, yes>>
vars == <<row, overlapped>>

InReview == {"submitted", "appraised", "approved"}
State == InReview \cup {"absent", "draft", "rejected", "disbursed", "deleted"}

Init ==
    /\ state = [a \in Application |-> "absent"]
    /\ maker = [a \in Application |-> NoUser]
    /\ needed = [a \in Application |-> 1]
    /\ cycle = [a \in Application |-> 0]
    /\ yes = [a \in Application |-> {}]
    /\ overlapped = {}

Move(a, s) == state' = [state EXCEPT ![a] = s] /\ UNCHANGED <<maker, needed>>
Forget(a) == yes' = [yes EXCEPT ![a] = {}]

Open(a, u, n) ==
    /\ state[a] = "absent"
    /\ state' = [state EXCEPT ![a] = "draft"]
    /\ maker' = [maker EXCEPT ![a] = u]
    /\ needed' = [needed EXCEPT ![a] = n]
    /\ UNCHANGED <<cycle, yes>>

Revise(a) == state[a] \in {"draft", "rejected"} /\ Move(a, "draft") /\ UNCHANGED <<cycle, yes>>
Discard(a) == state[a] = "draft" /\ Move(a, "deleted") /\ UNCHANGED <<cycle, yes>>

Submit(a) ==
    /\ state[a] \in {"draft", "rejected"}
    /\ Move(a, "submitted") /\ Forget(a)
    /\ cycle' = [cycle EXCEPT ![a] = @ + 1]

Appraise(a) ==
    /\ state[a] \in {"submitted", "appraised"}
    /\ Move(a, "appraised") /\ UNCHANGED <<cycle, yes>>

Approve(a, u) ==
    /\ state[a] \in {"appraised", "approved"}
    /\ u \notin yes[a] \cup {maker[a]}
    /\ yes' = [yes EXCEPT ![a] = @ \cup {u}]
    /\ Move(a, IF Cardinality(yes[a]) + 1 >= needed[a] THEN "approved" ELSE "appraised")
    /\ UNCHANGED cycle

Reject(a) == state[a] \in InReview /\ Move(a, "rejected") /\ Forget(a) /\ UNCHANGED cycle
PayOut(a) == state[a] = "approved" /\ Move(a, "disbursed") /\ Forget(a) /\ UNCHANGED cycle

\* A write from a row read earlier.
StaleWrite(a) ==
    /\ a \in overlapped /\ state[a] \notin {"absent", "deleted"}
    /\ \E s \in {"draft", "deleted", "disbursed"} : Move(a, s)
    /\ Forget(a) /\ UNCHANGED cycle

Step(a) ==
    \/ Revise(a) \/ Discard(a) \/ Submit(a) \/ Appraise(a) \/ Reject(a) \/ PayOut(a)
    \/ StaleWrite(a)
    \/ \E u \in User : Approve(a, u) \/ \E n \in Required : Open(a, u, n)

Next ==
    /\ overlapped \subseteq overlapped'
    /\ UNCHANGED row \/ \E a \in Application : Step(a)

Spec == Init /\ [][Next]_vars
=============================================================================
