--------------------------- MODULE MCEcsDetectors ---------------------------
(* Accounts for EcsDetectors, small enough for TLC.                        *)
EXTENDS EcsDetectorsProperties

Stopped(time) == [status |-> "STOPPED", stoppedAt |-> time]

\* Times 2 and 4 are the edges of the window; time 0 stands for none.
SomeTasks ==
  LET running == [status |-> "RUNNING", stoppedAt |-> 0]
  IN  {<<>>, <<running>>, <<Stopped(2), Stopped(4)>>, <<Stopped(1), Stopped(4)>>,
       <<running, Stopped(0), Stopped(3)>>, <<Stopped(2), Stopped(3), running>>,
       <<Stopped(3), Stopped(5), running>>}

Failing == [state |-> "unhealthy", reason |-> "Target.FailedHealthChecks"]

SomeTargets ==
  LET healthy == [state |-> "healthy", reason |-> "none"]
      timeout == [state |-> "unhealthy", reason |-> "Target.Timeout"]
  IN  {{}, {healthy, timeout}, {healthy, Failing}}

SomeDatapoints == {<<>>, <<2>>, <<0, 0, 0, 2>>, <<0, 0, 0, 0, 2>>}

SomeGroups == {{}, {"g1"}, {"g1", "g2"}}

SomeAlarms ==
  [metric : {"AWS/ApplicationELB UnHealthyHostCount",
             "ECS/ContainerInsights RunningTaskCount", "AWS/ECS CPUUtilization"},
   of : {"g1", "other", "service"},
   actionsEnabled : BOOLEAN, actions : {{}, {"topic"}}]

World(desired, tasks, targets, datapoints, groups, healthCheck, alarms) ==
  [desired |-> desired, tasks |-> tasks, targets |-> targets,
   datapoints |-> datapoints, groups |-> groups, healthCheck |-> healthCheck,
   alarms |-> alarms]

\* Every mix of tasks, targets and datapoints, then every alarm.
SomeWorlds ==
  {World(desired, tasks, targets, datapoints, {"g1"}, TRUE, {}) :
     desired \in {0, 1, 2}, tasks \in SomeTasks, targets \in SomeTargets,
     datapoints \in SomeDatapoints}
  \cup {World(1, <<>>, {Failing}, <<0>>, groups, healthCheck, {alarm}) :
          groups \in SomeGroups, healthCheck \in BOOLEAN, alarm \in SomeAlarms}
============================================================================
