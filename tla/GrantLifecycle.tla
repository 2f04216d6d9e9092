---- MODULE GrantLifecycle ----
(***************************************************************************)
(* What a signup grant promises its provisioning operations, without rows, *)
(* clocks or requests: a grant is opened once, one operation at a time     *)
(* holds it, nobody takes it from its holder before the lease has lapsed,  *)
(* and it is spent at most once, by the operation that holds it.           *)
(* SignupGrants implements this specification.                             *)
(***************************************************************************)
CONSTANTS Grants, Claims, NoClaim

VARIABLES phase, holder

Phase == {"none", "free", "held", "lapsed", "spent", "void"}

Init == /\ phase = [g \in Grants |-> "none"]
        /\ holder = [g \in Grants |-> NoClaim]

\* Grant g moves from one of the phases `from` to `to`, held by c afterwards.
Move(g, from, to, c) ==
  /\ phase[g] \in from
  /\ phase' = [phase EXCEPT ![g] = to]
  /\ holder' = [holder EXCEPT ![g] = c]

Open(g)    == Move(g, {"none"}, "free", NoClaim)

\* A lease may be short enough to have lapsed by the time it is recorded.
Take(g, c) == \E to \in {"held", "lapsed"} : Move(g, {"free", "lapsed"}, to, c)
Return(g)  == Move(g, {"held", "lapsed"}, "free", NoClaim)
Spend(g)   == Move(g, {"held", "lapsed"}, "spent", holder[g])
Withdraw(g) == Move(g, {"free", "held", "lapsed"}, "void", holder[g])

\* Time passes: any of the leases lapse.
Lapse == /\ phase' \in [Grants -> Phase]
         /\ \A g \in Grants : phase'[g] # phase[g] => phase[g] = "held" /\ phase'[g] = "lapsed"
         /\ UNCHANGED holder

Next == \/ \E g \in Grants : \/ Open(g) \/ Return(g) \/ Spend(g) \/ Withdraw(g)
                             \/ \E c \in Claims : Take(g, c)
        \/ Lapse

Spec == Init /\ [][Next]_<<phase, holder>>
====
