----------------------------- MODULE MCDelivery -----------------------------
(* Instances of Delivery for TLC. *)
EXTENDS Delivery

CONSTANTS w1, w2, t1, t2

OneWriter  == {w1}
TwoWriters == {w1, w2}
Reporter   == {w2}
TwoTables  == {t1, t2}

\* Rows alternate between two tables, so that a flush has two groups.
Alternating == [r \in Rows |-> IF r % 2 = 1 THEN t1 ELSE t2]
OneTable    == [r \in Rows |-> t1]

Nothing      == {}
RejectsOne   == {t1}
Restarts     == {"backend", "crash", "stop"}
All          == FaultKinds
=============================================================================
