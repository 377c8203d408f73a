-------------------------------- MODULE OnAir --------------------------------
(* What the site promises of its matches: they are planned, one at a time is on *)
(* air, and it ends, goes back to the plan or is called off.                    *)

CONSTANTS Match

VARIABLES plan, air, over

Vars == <<plan, air, over>>
New  == Match \ (plan \cup over \cup air)

Init == plan = {} /\ air = {} /\ over = {}

Book(m) ==
  /\ m \in New \cup over
  /\ plan' = plan \cup {m} /\ over' = over \ {m} /\ UNCHANGED air

\* The only way to the air is past an empty one.
Begin(m) ==
  /\ air = {} /\ m \in Match
  /\ air' = {m} /\ plan' = plan \ {m} /\ over' = over \ {m}

PutOff == plan' = plan \cup air /\ air' = {} /\ UNCHANGED over

Close(m) ==
  /\ m \in plan \cup air
  /\ over' = over \cup {m} /\ plan' = plan \ {m} /\ air' = air \ {m}

CallOff(m) ==
  /\ m \in plan \cup over \cup air
  /\ plan' = plan \ {m} /\ over' = over \ {m} /\ air' = air \ {m}

Next == PutOff \/ \E m \in Match : Book(m) \/ Begin(m) \/ Close(m) \/ CallOff(m)

Spec == Init /\ [][Next]_Vars
===============================================================================
