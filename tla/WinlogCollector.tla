-------------------------- MODULE WinlogCollector --------------------------
(***************************************************************************)
(* WinLogCollector and WinLogParser.  Events come in through ingest_xml,   *)
(* from any thread.  An XML text is [EventID, Channel, Level, Data]: what  *)
(* each element holds, NoText if the element is missing or empty, a number *)
(* or a text that is no number; Data is the sequence of <Data> elements,   *)
(* <<name, value>> each.  The other elements are copied the same way.      *)
(***************************************************************************)
EXTENDS CollectorPipeline

CONSTANTS XmlTexts,      \* the texts that may be forwarded
          EmptyXml,      \* the empty text
          NoText, NotANumber,
          SysmonChannel  \* a channel with "Sysmon" in its name

NoRecord == [event_id |-> -1]

\* stoul of an element; one that is absent or no number leaves the default.
NumberOr(default, text) == IF text \in {NoText, NotANumber} THEN default ELSE text

\* A later <Data> element of a name replaces an earlier one.
EventData(data) ==
    [n \in {data[i][1] : i \in DOMAIN data} |->
        data[CHOOSE i \in DOMAIN data : /\ data[i][1] = n
                /\ \A j \in i + 1 .. Len(data) : data[j][1] # n][2]]

\* parse_xml: nothing for an empty text or an EventID that is no number.
parse_xml(xml) ==
    IF xml = EmptyXml \/ xml.EventID = NotANumber THEN NoRecord
    ELSE [event_id |-> NumberOr(0, xml.EventID), channel |-> xml.Channel,
          level_value |-> NumberOr(0, xml.Level), event_data |-> EventData(xml.Data)]

map_level(level) ==
    CASE level = 1 -> "critical" [] level = 2 -> "high" [] level = 3 -> "medium" [] OTHER -> "info"

\* The categories of Sysmon's event ids 1 to 26.
SysmonCategory == <<
    "process_creation", "file_creation_time", "network_connection", "sysmon_service_state",
    "process_terminated", "driver_loaded", "image_loaded", "create_remote_thread",
    "raw_access_read", "process_access", "file_create", "registry_event", "registry_event",
    "registry_event", "file_create_stream_hash", "sysmon_config_change", "pipe_created",
    "pipe_created", "wmi_filter", "wmi_consumer", "wmi_binding", "dns_query", "file_delete",
    "clipboard_change", "process_tampering", "file_delete_detected">>

SecurityCategory(id) ==
    CASE id \in 4624 .. 4634 -> "authentication"
      [] id \in 4648 .. 4672 -> "authorization"
      [] id \in 4688 .. 4690 -> "process"
      [] id \in 4700 .. 4799 -> "policy"
      [] id \in 4800 .. 4899 -> "account"
      [] id \in 4900 .. 4999 -> "system"
      [] OTHER -> "security"

get_category(channel, id) ==
    CASE channel = "Security"    -> SecurityCategory(id)
      [] channel = SysmonChannel -> IF id \in DOMAIN SysmonCategory THEN SysmonCategory[id]
                                    ELSE "sysmon"
      [] channel = "System"      -> "system"
      [] channel = "Application" -> "application"
      [] OTHER -> "log"

-----------------------------------------------------------------------------
WinlogStart == kind = "winlog" /\ Launch(FALSE, TRUE, FALSE)

ingest_xml(r) == kind = "winlog" /\ \E xml \in XmlTexts : CallIn(r, xml)

\* collection_loop sleeps, looks at running_, and does nothing else.
CollectionExits ==
    /\ kind = "winlog" /\ apc = "asleep" /\ ~running
    /\ apc' = "exited"
    /\ UNCHANGED <<kind, running, phase, rpc, hand, ppc, batch, ringVars, envVars, templates,
                   bookVars, producerVars>>

\* What processing_loop makes of a message that parses.
WinlogEvent(m) ==
    LET p == parse_xml(m.body)
    IN  [src |-> m.id,
         data |-> [action |-> p.event_id, category |-> get_category(p.channel, p.event_id),
                   severity |-> map_level(p.level_value), fields |-> p.event_data]]

WinlogProcess ==
    /\ kind = "winlog" /\ queue # << >>
    /\ LET ok == parse_xml(Head(queue).body) # NoRecord
       IN  Process(IF ok THEN <<WinlogEvent(Head(queue))>> ELSE << >>,
                   IF ok THEN 1 ELSE 0, IF ok THEN 0 ELSE 1)
    /\ UNCHANGED templates

WinlogFlush  == kind = "winlog" /\ FlushBatch
WinlogFinish == kind = "winlog" /\ FinishLoop
=============================================================================
