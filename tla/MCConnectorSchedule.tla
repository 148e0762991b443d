------------------------- MODULE MCConnectorSchedule -------------------------
(* Instances of ConnectorSchedule for TLC. *)
EXTENDS ConnectorSchedule

\* Two ticks to the minute: every minute, every minute and a half, on the
\* second minute of a cron expression, and by hand only.
SomePlans == {[kind |-> "interval", every |-> 2], [kind |-> "interval", every |-> 3],
              [kind |-> "cron", every |-> 4], [kind |-> "manual", every |-> 2]}

EveryMinute == {[kind |-> "interval", every |-> 2]}
=============================================================================
