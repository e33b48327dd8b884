--------------------------- MODULE MCMatchingEngine ---------------------------
(* Values for MatchingEngine's constants. *)
EXTENDS MatchingEngine

CONSTANTS c1, c2, tn, s1, s2

OneClient == {c1}
TwoClients == {c1, c2}
OneSnapshot == {s1}
TwoSnapshots == {s1, s2}

ClientsAndNotifier == Clients \cup {Notifier}
AllCommands == CommandSet
=============================================================================
