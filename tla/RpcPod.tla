------------------------------- MODULE RpcPod -------------------------------
(***************************************************************************)
(* ReconcilePod: create the node's pod or bring its image up to date       *)
(* (CreateOrReconcile with ImageReconciler), delete it when it is beyond   *)
(* repair, and ask it through the API server's proxy whether it is ready.  *)
(***************************************************************************)
EXTENDS Cluster

\* What ReconcilePod does with the pod it holds.
Inspect(p) ==
    IF shouldPodGetRecreated(p) THEN "DeletePod"
    ELSE IF p.status = "Running" THEN "IsReady"
    ELSE "Done"

\* Variant: any image will do.
AnyImage(p, c) == p.image \in Images

ImageIsUpToDate(p, c) == p.image = getPodImage(c)

\* Whoever owns the pod of that name, it is taken as the node's pod.
CreatePod ==
    /\ pc = "CreatePod"
    /\ \/ /\ pod = Nil
          /\ pod' = NewPod(GetWantedPod(cluster))
          /\ Proceed("MarkCreating", cluster, pod')
       \/ /\ pod # Nil
          /\ Proceed("GetPod", cluster, podObj)
          /\ UNCHANGED pod
    /\ Announce("pod", pod, pod')
    /\ UNCHANGED <<rpc, pvc, scratch, job, containers, cache, budgets>>

MarkCreating ==
    /\ pc = "MarkCreating"
    /\ SetPhases(ApplyAvailable(cluster.conditions, "Creating"), Inspect(podObj))
    /\ UNCHANGED <<owned, job, containers, cache, budgets>>

GetPod ==
    /\ pc = "GetPod"
    /\ \/ /\ cache.pod = Nil
          /\ Return(TRUE)
       \/ /\ cache.pod # Nil
          /\ Proceed(IF ImageIsUpToDate(cache.pod, cluster)
                     THEN Inspect(cache.pod) ELSE "UpdateImage",
                     cluster, cache.pod)
    /\ UNCHANGED <<objects, containers, cache, budgets>>

\* The update is refused unless the copy is the pod's latest version; no two
\* versions are equal.  The container restarts with the new image.
UpdateImage ==
    /\ pc = "UpdateImage"
    /\ LET updated == NewPod([podObj EXCEPT !.image = getPodImage(cluster)]) IN
       \/ /\ pod = podObj
          /\ pod' = updated
          /\ serving' = FALSE
          /\ Proceed(Inspect(updated), cluster, updated)
       \/ /\ pod # podObj
          /\ Return(TRUE)
          /\ UNCHANGED <<pod, serving>>
    /\ Announce("pod", pod, pod')
    /\ UNCHANGED <<rpc, pvc, scratch, job, data, writer, orphan, cache, budgets>>

\* By name only: the pod deleted is the one that bears the name now.  Not
\* found is an error, success asks for another loop.
DeletePod ==
    /\ pc = "DeletePod"
    /\ pod' = IF pod = Nil THEN Nil ELSE DeletedPod(pod)
    /\ Return(TRUE)
    /\ Announce("pod", pod, pod')
    /\ UNCHANGED <<rpc, pvc, scratch, job, containers, cache, budgets>>

\* The port is looked up as "management" in the copy of the pod; the request
\* goes to the pod that bears the name now.  An error counts as not ready,
\* and nothing is scheduled to ask again.
Answers ==
    /\ podObj.management
    /\ pod # Nil /\ pod.status = "Running" /\ pod.management
    /\ serving

IsReady ==
    /\ pc = "IsReady"
    /\ Proceed(IF Answers THEN "MarkCatchingUp" ELSE "Done", cluster, podObj)
    /\ UNCHANGED <<objects, containers, cache, budgets>>

MarkCatchingUp ==
    /\ pc = "MarkCatchingUp"
    /\ SetPhases(ApplyAvailable(cluster.conditions, "CatchingUp"), "Done")
    /\ UNCHANGED <<owned, job, containers, cache, budgets>>

PodStep ==
    \/ CreatePod \/ MarkCreating \/ GetPod \/ UpdateImage
    \/ DeletePod \/ IsReady \/ MarkCatchingUp

=============================================================================
