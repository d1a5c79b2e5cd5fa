----------------------------- MODULE ProjectParts -----------------------------
(* The coordinator's projects of every kind, each with its own constants    *)
(* and variables, and what the coordinator promises of them.  MCCoordinator *)
(* checks the promises on small instances; ProjectProofs proves them for    *)
(* any.                                                                     *)

CONSTANTS
    None,
    \* ProjectLife
    AdminCalls, Configs, Hosts, Mutations, Ups, Background, Unset,
    \* EndpointProject
    Families, Requests,
    \* NodeReport
    NodeTypes, BoxStates, MaxHeight

VARIABLES
    part,           \* the setting, of those that a run composes
    \* ProjectLife
    row, compose, schema, boxes, calls, ups, unfinished, monitor, misses, refresh, forgotten,
    \* EndpointProject
    family, node, alive, entry, call, audit,
    \* NodeReport
    type, projectRow, chainNode, docker, report, since

Life == INSTANCE ProjectLife WITH Calls <- AdminCalls
Endpoint == INSTANCE EndpointProject
Report == INSTANCE NodeReport WITH
    Types <- NodeTypes, row <- projectRow, node <- chainNode, boxes <- docker

-----------------------------------------------------------------------------
\* Once every "docker up" has ended, the last one well, the containers that exist
\* were made from the compose file as it is (docker.service.ts,
\* project.service.ts).
ContainersFollowFile == Life!ContainersFollowFile

\* For one call at a time: what is marked as running is served, unless a job
\* saved an old row under the call (project.service.ts).
RunningIsServed == part # "busy" => Life!RunningIsServed

\* A running RPC or subgraph project's endpoints have passed their checks
\* (project.rpc.service.ts, project.subgraph.service.ts).
RunningWasChecked == Endpoint!RunningWasChecked

\* What is reported of a node is in order however it goes on meanwhile
\* (project.rpc.service.ts, project.service.ts).
ReportInOrder == Report!ReportInOrder
===============================================================================
