----------------------------- MODULE Migration -----------------------------
(***************************************************************************)
(* What `deesql apply` promises, without how: an operator's run decides on *)
(* a plan, and the cluster executes nothing of the run but the statements  *)
(* of the plan the operator agreed to, each once and in order, hazardous   *)
(* ones only if their hazard was allowed; success is reported only when    *)
(* all of them have been executed. A run may stop at any moment, and when  *)
(* it does so in the middle of a statement that one may still be executed. *)
(***************************************************************************)
EXTENDS Naturals, Sequences

CONSTANT Operators

VARIABLES
  allowed,    \* the hazards each operator allows
  phase,      \* "deciding", "running", "applied" or "stopped"
  approved,   \* the plan the operator agreed to
  executed    \* the statements the cluster has executed for this run

vars == <<allowed, phase, approved, executed>>

Init ==
  /\ phase = [p \in Operators |-> "stopped"]
  /\ approved = [p \in Operators |-> <<>>]
  /\ executed = [p \in Operators |-> <<>>]

Move(p, from, to) ==
  /\ phase[p] \in from
  /\ phase' = [phase EXCEPT ![p] = to]
  /\ UNCHANGED allowed

Begin(p) ==
  /\ Move(p, {"stopped", "applied"}, "deciding")
  /\ approved' = [approved EXCEPT ![p] = <<>>]
  /\ executed' = [executed EXCEPT ![p] = <<>>]

\* Up to date, refused by Diff or CheckHazards, declined, failed or dead.
GiveUp(p) ==
  /\ Move(p, {"deciding"}, "stopped")
  /\ UNCHANGED <<approved, executed>>

Approve(p) ==
  /\ Move(p, {"deciding"}, "running")
  /\ approved' = [approved EXCEPT ![p] = approved'[p]]
  /\ approved'[p] # <<>>
  /\ \A i \in DOMAIN approved'[p] : approved'[p][i].hazards \subseteq allowed[p]
  /\ UNCHANGED executed

\* The statement after the ones executed so far; the run may learn of it or not.
ExecuteNext(p) ==
  /\ Move(p, {"running"}, phase'[p])
  /\ phase'[p] \in {"running", "stopped"}
  /\ Len(executed[p]) < Len(approved[p])
  /\ executed' = [executed EXCEPT ![p] = Append(@, approved[p][Len(@) + 1])]
  /\ UNCHANGED approved

Stop(p) ==
  /\ Move(p, {"running"}, "stopped")
  /\ UNCHANGED <<approved, executed>>

Report(p) ==
  /\ Move(p, {"running"}, "applied")
  /\ executed[p] = approved[p]
  /\ UNCHANGED <<approved, executed>>

Next ==
  \E p \in Operators :
    Begin(p) \/ GiveUp(p) \/ Approve(p) \/ ExecuteNext(p) \/ Stop(p) \/ Report(p)

Spec == Init /\ [][Next]_vars

=============================================================================
