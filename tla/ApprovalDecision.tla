---------------------------- MODULE ApprovalDecision ----------------------------
(***************************************************************************)
(* What the tool-approval gate promises, whatever replica a decision       *)
(* arrives at: a pending approval is decided once, by one Resolve call, by *)
(* its timeout or by the cancelled request, and a caller is told "ok" only *)
(* when its decision is the one, "already" only when another's is.         *)
(***************************************************************************)
CONSTANT Calls    \* the Resolve calls made for one pending approval

VARIABLES
  decided,        \* who decided it
  told            \* told[c]: what call c was answered

vars == <<decided, told>>

Deciders == Calls \cup {"timeout", "canceled"}

Init ==
  /\ decided = "nobody"
  /\ told = [c \in Calls |-> "nothing"]

Decide ==
  /\ decided = "nobody"
  /\ decided' \in Deciders
  /\ UNCHANGED told

Tell(c, answer) ==
  /\ told[c] = "nothing"
  /\ answer = "ok" => decided = c
  /\ answer = "already" => decided \notin {"nobody", c}
  /\ told' = [told EXCEPT ![c] = answer]
  /\ UNCHANGED decided

Answers == {"ok", "already", "mismatch", "not_found", "error"}

Next == Decide \/ \E c \in Calls, answer \in Answers : Tell(c, answer)

Safety == Init /\ [][Next]_vars

Spec == Safety /\ WF_vars(Decide)
=============================================================================
