------------------------------- MODULE Outbox -------------------------------
(***************************************************************************)
(* What the buffer and the ingest worker promise together, whatever        *)
(* crashes, lost answers and shutdowns do: at-least-once delivery of every  *)
(* row that was put on disk, with one stated exception, the size limit.     *)
(***************************************************************************)
CONSTANT Row

VARIABLES
    offered,    \* rows handed to Buffer.write
    held,       \* rows on disk
    delivered,  \* rows the backend has accepted
    dropped     \* rows given up to the size limit

boxVars == <<offered, held, delivered, dropped>>

Init == offered = {} /\ held = {} /\ delivered = {} /\ dropped = {}

Offer == /\ offered' \in SUBSET Row
         /\ offered \subseteq offered'
         /\ UNCHANGED <<held, delivered, dropped>>

\* The disk takes new rows and lets go of rows that are accounted for.
Settle == /\ held' \subseteq offered
          /\ held \ held' \subseteq delivered \cup dropped
          /\ UNCHANGED <<offered, delivered, dropped>>

\* Possibly again, and possibly of rows that never reach the disk.
Deliver == /\ delivered \subseteq delivered'
           /\ delivered' \subseteq offered \cup delivered
           /\ UNCHANGED <<offered, held, dropped>>

Drop == /\ dropped \subseteq dropped'
        /\ dropped' \subseteq offered \cup dropped
        /\ UNCHANGED <<offered, held, delivered>>

Next == Offer \/ Settle \/ Deliver \/ Drop

Spec == Init /\ [][Next]_boxVars
=============================================================================
