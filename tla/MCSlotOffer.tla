---------------------------- MODULE MCSlotOffer ----------------------------
(***************************************************************************)
(* Small instances of SlotOffer: days of four units, hours on Sunday to     *)
(* Wednesday, Monday being day 0.  A call keeps buffers, a chat does not, a *)
(* class has two seats, a panel is taken by either of two hosts.            *)
(***************************************************************************)
EXTENDS SlotOffer

CONSTANTS h1, h2

MCPool == [e \in EventType |-> IF e = "panel" THEN <<h1, h2>> ELSE <<h1>>]
MCStrategy == [e \in EventType |-> IF e = "panel" THEN "least_loaded" ELSE ""]
MCDur == [e \in EventType |-> IF e \in {"class", "panel"} THEN 2 ELSE 1]
MCBefore == [e \in EventType |-> IF e = "call" THEN 1 ELSE 0]
MCAfter == [e \in EventType |-> IF e = "call" THEN 1 ELSE 0]
MCNotice == [e \in EventType |-> IF e = "chat" THEN 1 ELSE 0]
MCHorizon == [e \in EventType |-> IF e = "call" THEN 2 ELSE 0]
MCCapacity == [e \in EventType |-> IF e = "class" THEN 2 ELSE 1]

MCRules ==
  [h \in Host |->
     { [weekday |-> 6, start |-> 2, end |-> 3],
       [weekday |-> 0, start |-> 0, end |-> 3],
       [weekday |-> 1, start |-> IF h = h1 THEN 0 ELSE 1, end |-> 3],
       [weekday |-> 2, start |-> 1, end |-> 2] }]

West == [h \in Host |-> [base |-> -2, shift |-> 0, jump |-> 0]]

MCExternal == [h \in Host |-> IF h = h1 THEN { {}, { Interval(-1, 0), Interval(4, 5) } }
                              ELSE { {} }]

=============================================================================
