-------------------------- MODULE MCServiceTokens --------------------------
(* Small instances of ServiceTokens: a panel of ann's that bob may take, a     *)
(* call of bob's that ann takes, a token for the panel and one for ann's       *)
(* event types that expires.                                                 *)
EXTENDS ServiceTokens, TLC

CONSTANTS ann, bob, call, panel, w1, w2

TwoTypesOwner == [e \in EventType |-> IF e = panel THEN ann ELSE bob]
TwoTypesPool == [e \in EventType |-> IF e = panel THEN {ann, bob} ELSE {ann}]

TwoGrants ==
  { [scopes |-> { "create", "read" }, host |-> "", types |-> {panel}, expires |-> 0],
    [scopes |-> { "create", "read" }, host |-> ann, types |-> {}, expires |-> 1] }

(* Requests are alike. *)
Symmetry == Permutations({w1, w2})

=============================================================================
