---------------------------- MODULE K8sService ----------------------------
(***************************************************************************)
(* src/manager/k8s.service.ts: startAgent creates a pod, then a service    *)
(* that gives it its name on the network; stopAgent deletes the service,   *)
(* then the pod.  The API server is external: a name can be created when   *)
(* it is free and deleted when it is there.                                *)
(***************************************************************************)

FirstStart == "createPod"
FirstStop == "deleteService"

StartCalls == {"createPod", "createService"}
StopCalls == {"deleteService", "deletePod"}

\* The call awaited after one that was accepted.
Following(call) ==
  IF call = "createPod" THEN "createService"
  ELSE IF call = "deleteService" THEN "deletePod"
  ELSE "return"

Full == {"pod", "service"}

Object(call) == IF call \in {"createPod", "deletePod"} THEN "pod" ELSE "service"

\* 409 for a name that is taken, 404 for one that is not there.
Accepts(call, objs) == call \in StartCalls <=> Object(call) \notin objs

After(call, objs) ==
  IF call \in StartCalls THEN objs \cup {Object(call)} ELSE objs \ {Object(call)}

\* A failed call removes nothing.
Discards(call) == FALSE

\* A pod whose process ends is restarted in place.
Exit(objs) == objs
=============================================================================
