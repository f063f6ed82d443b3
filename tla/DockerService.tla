--------------------------- MODULE DockerService ---------------------------
(***************************************************************************)
(* src/manager/docker.service.ts: startAgent creates a container named     *)
(* after the agent and starts it; stopAgent only stops it and counts on    *)
(* AutoRemove.  The daemon itself is external: it accepts or refuses a     *)
(* call according to the objects ("container": the name is taken,          *)
(* "started": the container runs) it holds for the agent.                  *)
(***************************************************************************)

FirstStart == "createContainer"
FirstStop == "stopContainer"

StartCalls == {"createContainer", "startContainer"}
StopCalls == {"stopContainer"}

\* The call awaited after one that was accepted.
Following(call) == IF call = "createContainer" THEN "startContainer" ELSE "return"

Full == {"container", "started"}

\* Faulty variant: stopAgent forces the removal of any container it finds.
AcceptsRemove(call, objs) ==
  \/ call = "createContainer" /\ objs = {}
  \/ call = "startContainer" /\ objs = {"container"}
  \/ call = "stopContainer" /\ objs # {}

\* A name can be created once, a created container can be started once, and
\* only a running container can be stopped (304 "already stopped" is an error).
Accepts(call, objs) ==
  \/ call = "createContainer" /\ objs = {}
  \/ call = "startContainer" /\ objs = {"container"}
  \/ call = "stopContainer" /\ objs = Full

\* AutoRemove: a stopped container is removed with its name.
After(call, objs) ==
  IF call = "stopContainer" THEN {}
  ELSE objs \cup {IF call = "createContainer" THEN "container" ELSE "started"}

\* A container that the daemon could not start is removed (AutoRemove again).
Discards(call) == call = "startContainer"

\* What is left when the agent's process ends by itself (AutoRemove again).
Exit(objs) == {}
=============================================================================
