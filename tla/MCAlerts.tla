------------------------------ MODULE MCAlerts ------------------------------
(* Instances of Alerts for TLC.                                            *)
EXTENDS Alerts

\* A rule with a cooldown, a table and a night window for one zone, and one that
\* is for every class and zone, has neither, and is not for the second camera.
TwoRules ==
    [night |-> [class |-> "person", cameras |-> {}, zones |-> {}, floor |-> 1,
                cooldown |-> 2, notify |-> TRUE, table |-> TRUE, severity |-> "critical",
                schedule |-> {[after |-> 3, before |-> 1]}],
     any   |-> [class |-> All, cameras |-> {"north"}, zones |-> {"gate"}, floor |-> 0,
                cooldown |-> 0, notify |-> TRUE, table |-> FALSE, severity |-> "info",
                schedule |-> {}]]

\* It does not want the alerts of the second rule.
OneWebhook == [board |-> [rules |-> {}, severities |-> {"critical"}]]

Person(zone) == [class |-> "person", zone |-> zone, confidence |-> 1]
Car == [class |-> "car", zone |-> "gate", confidence |-> 0]

\* Two people in one zone, and one in another with something else beside.
SomeFrames == {<<Person("gate"), Person("gate")>>, <<Person("unzoned"), Car>>}

PersonsRouted == [camera \in {"north", "south"} |-> {"person"}]
=============================================================================
