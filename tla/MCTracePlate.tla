---- MODULE MCTracePlate ----
(* TracePlate with two signals, three scope bytes and a ring of two events.   *)
EXTENDS TracePlate

MCSlots == {2, 3}
====
