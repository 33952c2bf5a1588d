---------------------------- MODULE MCTopicViews ----------------------------
(* TopicViews for TLC.                                                     *)
EXTENDS TopicViews

Plan(rights, runs, topics, faults, crashes, acts, people) ==
  [rights |-> rights, runs |-> runs, topics |-> topics, faults |-> faults,
   crashes |-> crashes, acts |-> acts, people |-> people]

All == {"write", "delete", "block", "share", "clean"}

MCPlans == {
  Plan(TRUE, 1, 3, 0, 0, 3, All),
  Plan(FALSE, 1, 2, 0, 0, 3, All),
  Plan(TRUE, 1, 3, 1, 0, 2, All),
  Plan(TRUE, 2, 2, 0, 0, 2, All),
  Plan(TRUE, 2, 2, 1, 0, 1, All),
  Plan(TRUE, 2, 2, 1, 0, 3, {"write", "clean"}),
  Plan(TRUE, 1, 2, 0, 1, 2, {"share", "clean"}),
  Plan(TRUE, 1, 2, 0, 1, 1, All) }
=============================================================================
