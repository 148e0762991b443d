---------------------------- MODULE MCTaskReminder ----------------------------
(* An instance of TaskReminder for TLC. *)
EXTENDS TaskReminder, TLC

CONSTANTS g1, g2,      \* replicas
          u1, u2,      \* users; u1's account may be disabled
          n1, n2,      \* outbound rows
          s1, s2, s3   \* steps

OneEach == (n1 :> u1) @@ (n2 :> u2)

\* s1 belongs to a tenant with reminders off and comes due before the others;
\* s2 has two assignees.
MutedFirst == (s1 :> 1) @@ (s2 :> 2) @@ (s3 :> 3)
BothUsers  == (s1 :> {u1}) @@ (s2 :> {u1, u2}) @@ (s3 :> {u1})

\* Two dispatchers over a full outbox; two reminders over the same steps, with
\* no outbound channel; one replica whose reminder feeds its dispatcher.
Backlog   == [replicas |-> {g1, g2}, outbound |-> TRUE,  queued |-> {n1, n2}, steps |-> {}]
InAppOnly == [replicas |-> {g1, g2}, outbound |-> FALSE, queued |-> {},       steps |-> {s1, s2}]
Mailed    == [replicas |-> {g1},     outbound |-> TRUE,  queued |-> {},       steps |-> {s3}]

Mixed         == {Backlog, InAppOnly, Mailed}
OnlyBacklog   == {Backlog}
OnlyReminders == {InAppOnly}
================================================================================
