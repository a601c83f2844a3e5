------------------------------ MODULE AgentCore ------------------------------
(***************************************************************************)
(* AgentCore, the endpoint agent: events are submitted by the monitors,    *)
(* from any thread, and a heartbeat thread writes to the same producer     *)
(* past the ring and the batch.  A batch is produced in one step: a         *)
(* heartbeat between two of its messages would only be queued earlier.     *)
(***************************************************************************)
EXTENDS CollectorPipeline

CONSTANTS EndpointEvents,  \* the types of events that may be submitted
          MaxBeats         \* bound: heartbeats while the agent is running

ASSUME AgentAssumption == MaxBeats \in Nat

Heartbeat(n) == [src |-> <<0, n>>, data |-> "heartbeat"]

\* The mapping of event types to ECS category, type, action and severity.
EcsMapping == [
    ProcessStart   |-> <<"process", "start", "process_started", "">>,
    ProcessStop    |-> <<"process", "end", "process_terminated", "">>,
    FileCreate     |-> <<"file", "creation", "file_created", "">>,
    FileModify     |-> <<"file", "change", "file_modified", "">>,
    FileDelete     |-> <<"file", "deletion", "file_deleted", "">>,
    NetworkConnect |-> <<"network", "connection", "network_connection", "">>,
    NetworkListen  |-> <<"network", "connection", "network_listen", "">>,
    RegistryModify |-> <<"configuration", "change", "registry_modified", "">>,
    DnsQuery       |-> <<"network", "info", "dns_query", "">>,
    ScriptExecute  |-> <<"process", "start", "script_executed", "">>,
    ModuleLoad     |-> <<"driver", "load", "module_loaded", "">>,
    DriverLoad     |-> <<"driver", "load", "driver_loaded", "">>,
    RemoteThread   |-> <<"process", "start", "remote_thread_created", "high">>,
    PipeEvent      |-> <<"process", "info", "pipe_event", "">>,
    WmiEvent       |-> <<"process", "info", "wmi_event", "medium">>]

\* convert_endpoint_event: ImageLoad has no case and keeps the empty fields.
convert_endpoint_event(m) ==
    [src |-> m.id, data |-> IF m.body \in DOMAIN EcsMapping THEN EcsMapping[m.body]
                            ELSE <<"", "", "", "">>]

AgentStart == kind = "agent" /\ Launch(FALSE, TRUE, FALSE)

submit_event(r) == kind = "agent" /\ \E e \in EndpointEvents : CallIn(r, e)

AgentProcess ==
    /\ kind = "agent" /\ queue # << >>
    /\ Process(<<convert_endpoint_event(Head(queue))>>, 0, 0)
    /\ UNCHANGED templates

AgentFlush  == kind = "agent" /\ FlushBatch
AgentFinish == kind = "agent" /\ FinishLoop

\* heartbeat_loop: after its sleep the thread produces a heartbeat, running_
\* or not, counts it whether or not it was accepted, and then looks at
\* running_.
Beat ==
    /\ kind = "agent" /\ apc = "asleep"
    /\ stats.heartbeats < MaxBeats \/ ~running
    /\ ProduceBatch(<<Heartbeat(stats.heartbeats + 1)>>)
    /\ stats' = [stats EXCEPT !.heartbeats = @ + 1]
    /\ apc' = IF running THEN "asleep" ELSE "exited"
    /\ UNCHANGED <<kind, running, phase, rpc, hand, ppc, batch, ringVars, envVars, templates,
                   made, dropped, stops>>

\* execute_action only counts.
execute_action ==
    /\ kind = "agent" /\ stats.actions < MaxBeats
    /\ stats' = [stats EXCEPT !.actions = @ + 1]
    /\ UNCHANGED <<kind, running, phase, threadVars, ringVars, envVars, templates, made,
                   dropped, stops, producerVars>>
=============================================================================
