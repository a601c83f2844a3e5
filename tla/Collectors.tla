----------------------------- MODULE Collectors -----------------------------
(***************************************************************************)
(* The collectors and the endpoint agent: a behaviour is one of them (kind *)
(* in Kinds), with its environment.                                        *)
(***************************************************************************)
EXTENDS SyslogCollector, NetflowCollector, WinlogCollector, AgentCore

CONSTANTS
    Kinds,   \* the collectors followed
    Meant    \* syslog messages as their senders meant them

ASSUME KindsAssumption == Kinds \subseteq {"syslog", "netflow", "winlog", "agent"}

\* The text of a message as RFC 5424 or RFC 3164 lays it out.  A tag with a
\* process id is app[proc].
Render(m) ==
    IF m.rfc = 5424
    THEN <<<<m.pri, m.version>>, <<"TS">>, m.host, m.app, m.proc, m.msgid>>
         \o (IF m.sd = << >> THEN <<<<"-">>>> ELSE m.sd) \o m.message
    ELSE <<<<m.pri, "TS">>, m.host,
           Append(IF m.proc = << >> THEN m.app ELSE m.app \o <<"[">> \o m.proc \o <<"]">>, ":")>>
         \o m.message

\* The words of structured data as RFC 5424 lays them out, for elements with
\* parameters: blanks only before parameters.  The jth element's bracket and
\* id are in word at[j], the last element's end is in word at[n + 1].
LaidOut(sd, elements) ==
    LET n == Len(elements)
    IN  \E at \in [1 .. n + 1 -> 1 .. Len(sd)] :
            /\ at[1] = 1 /\ at[n + 1] = Len(sd) /\ sd[1] = <<"[", elements[1].id>>
            /\ \A j \in 1 .. n :
                 LET ps == elements[j].params
                 IN  /\ at[j + 1] = at[j] + Len(ps)
                     /\ \A k \in 1 .. Len(ps) - 1 : sd[at[j] + k] = <<ps[k]>>
                     /\ sd[at[j + 1]] =
                          IF j = n THEN <<ps[Len(ps)], "]">>
                          ELSE <<ps[Len(ps)], "]", "[", elements[j + 1].id>>

\* An element with parameters, and no brackets but its own.
PlainElement(e) ==
    /\ e.params \in Seq(ToSet(e.params)) /\ e.params # << >> /\ ToSet(e.params) \subseteq DOMAIN KeyOf
    /\ {"[", "]"} \cap ({e.id} \cup ToSet(e.params)) = {}

\* No parameter has the id and the key of another one.
KeysDiffer(elements) ==
    \A i, j \in DOMAIN elements :
        \A k \in DOMAIN elements[i].params, l \in DOMAIN elements[j].params :
            /\ elements[i].id = elements[j].id
            /\ KeyOf[elements[i].params[k]] = KeyOf[elements[j].params[l]]
            => i = j /\ k = l

PlainApp(app) == app \in Seq(ToSet(app)) /\ {":", "["} \cap ToSet(app) = {}

\* What the texts show is what was meant: a priority made of facility and
\* level; a version; no colon and no bracket in the name of an application;
\* and the structured data, which has no brackets but those of its elements.
\* A message with such data has a text, too.
ASSUME MeantAssumption ==
    \A m \in Meant :
        /\ m.facility \in Nat /\ m.level \in 0 .. 7
        /\ m.pri \in DOMAIN Priority /\ Priority[m.pri] = 8 * m.facility + m.level
        /\ m.message \in Seq(ToSet(m.message)) /\ m.sd \in Seq(ToSet(m.sd))
        /\ m.rfc = 5424 => m.version \in Versions
        /\ m.rfc # 5424 => PlainApp(m.app) /\ m.sd = << >>
        /\ m.elements \in Seq(ToSet(m.elements)) /\ (m.sd = << >> <=> m.elements = << >>)
        /\ \A e \in ToSet(m.elements) : PlainElement(e)
        /\ m.sd # << >> => LaidOut(m.sd, m.elements) /\ m.message # << >>
        /\ KeysDiffer(m.elements)

\* A timestamp is no version.
ASSUME VersionsAssumption == "TS" \notin Versions

Init == kind \in Kinds /\ PipelineInit

Receive(r) == \/ SyslogReceive(r) \/ NetflowReceive(r) \/ ingest_xml(r) \/ submit_event(r)
              \/ PushOrDrop(r) \/ NothingReceived(r)

Handler    == HandlerReads \/ HandlerPushes \/ HandlerExits
Processing == \/ SyslogProcess \/ SyslogFlush \/ SyslogFinish
              \/ NetflowProcess \/ NetflowSticks \/ NetflowSpins \/ NetflowFlush \/ NetflowFinish
              \/ WinlogProcess \/ WinlogFlush \/ WinlogFinish
              \/ AgentProcess \/ AgentFlush \/ AgentFinish
Auxiliary  == CollectionExits \/ Beat
Control    == \/ SyslogStart \/ SyslogStartFails \/ NetflowStart \/ NetflowStartFails
              \/ WinlogStart \/ AgentStart \/ Stop \/ Stopped
Environment == DatagramArrives \/ PacketArrives \/ Accept \/ PeerSends \/ PeerCloses

\* A collector that nobody stops any more may wait for input for ever.
Rest == stops = MaxStops /\ phase = "running" /\ UNCHANGED vars

Next == \/ \E r \in Receivers : Receive(r)
        \/ Handler \/ Processing \/ Auxiliary \/ Control \/ Environment \/ execute_action \/ Rest

Spec == Init /\ [][Next]_vars

\* The threads the collectors own are scheduled, and their waits have
\* timeouts.  start(), stop(), senders and peers owe nothing.
FairSpec == /\ Spec
            /\ \A r \in Receivers : WF_vars(PushOrDrop(r) \/ NothingReceived(r))
            /\ WF_vars(Processing) /\ WF_vars(Auxiliary) /\ WF_vars(Stopped)

-----------------------------------------------------------------------------
(* Properties *)

InHand == {r \in Receivers : hand[r] # NoMsg}
Messages == ToSet(queue) \cup ToSet(delivered) \cup ToSet(conn.pieces) \cup dropped
            \cup {hand[r] : r \in InHand}
Events == made \o [i \in 1 .. stats.heartbeats |-> Heartbeat(i)]

\* The events that went to the producer and were accepted, oldest first; those
\* the processing loop made, heartbeats left out.
Sent == settled \o outq
FromLoop(events) == {e \in events : e.src[1] # 0}

\* Every variable holds a value of its type, and a thread that is stopped or
\* was never started holds nothing.
TypeOK ==
    /\ kind \in Kinds /\ running \in BOOLEAN /\ phase \in {"idle", "running", "joining"}
    /\ running <=> phase = "running"
    /\ \A r \in Receivers : rpc[r] = "push" <=> hand[r] # NoMsg
    /\ apc \in {"exited", "asleep"} /\ ppc \in {"exited", "loop", "parsing"}
    /\ ppc = "exited" => batch = << >>
    /\ Len(batch) < BatchSize /\ Len(queue) <= RingLimit /\ queue_size <= QueueMax
    /\ conn.pc = "pushing" <=> conn.pieces # << >>
    /\ refused \cup ToSet(Sent) \subseteq ToSet(Events)

\* Every message that a receiver or a connection handler took is in exactly
\* one place: in its hand, in the ring, popped from it, or dropped because the
\* ring was full; over any number of starts and stops, and with handlers that
\* go on pushing after stop() has returned.  No place holds more than its limit.
MessagesConserved ==
    LET count == Len(queue) + Len(delivered) + Len(conn.pieces) + Cardinality(dropped)
                 + Cardinality(InHand)
    IN  /\ TypeOK
        /\ Cardinality({m.id : m \in Messages}) = count
        /\ kind # "syslog" => stats.received = count

\* Every event is made once, and then batched, accepted or refused, once; the
\* accepted ones and after them the batch are in the order they were made in.
InOrder ==
    LET out == Sent \o batch
    IN  /\ ToSet(made) = FromLoop(ToSet(out) \cup refused)
        /\ IsInjective(made) /\ IsInjective(out) /\ ToSet(out) \cap refused = {}
        /\ \A i, j \in DOMAIN out : i < j /\ {out[i], out[j]} \subseteq ToSet(made) =>
             \E k, l \in DOMAIN made : k < l /\ made[k] = out[i] /\ made[l] = out[j]

StatsAgree ==
    /\ kind \in {"syslog", "winlog"} => stats.parsed + stats.errors = Len(delivered)
    /\ kind # "agent" => stats.parsed = Len(made)
    /\ pstats.produced = Len(settled) + Len(outq) /\ pstats.failed = Cardinality(refused)
    /\ kind = "syslog" => stats.produced = pstats.produced
    /\ kind = "agent" => stats.produced <= pstats.produced

\* The events that the processing loop makes reach the broker in order, each
\* once, except the ones that found librdkafka's queue full: whatever batches
\* were full, timed out or were left when the loop ended.  What get_stats()
\* reports agrees: a popped message was parsed or was an error, the producer
\* counts each event once, and the syslog collector reports as produced what
\* the producer accepted.
EventsConserved == InOrder /\ StatsAgree

\* Wherever TCP cuts the stream, the pieces of a line are together what was
\* read of it: no character is lost, taken twice or put into another line.
\* A line that recv() cuts is more than one piece, and so more than one message.
FramingExact ==
    \A s \in ToSet(conn.sent) :
        LET pieces == {m \in Messages : m.id[1] = s.line}
            unread == {c.pos : c \in {d \in ToSet(conn.stream) : d.line = s.line}}
            cells(m) == {<<m.id[2] + i - 1, m.body[i]>> : i \in DOMAIN m.body}
        IN  /\ UNION {cells(m) : m \in pieces}
                 = {<<i, s.text[i]>> : i \in DOMAIN s.text \ unread}
            /\ \A m, n \in pieces : m # n => cells(m) \cap cells(n) = {}

\* What events call the eight levels of RFC 5424, emergency to debug.
Severities == <<"critical", "critical", "critical", "high", "medium", "info", "info", "info">>

ParamsOf(elements) == UNION {{<<e.id, p>> : p \in ToSet(e.params)} : e \in ToSet(elements)}

\* The data of an event say what message m means.
Says(data, m) ==
    LET f == data.fields
    IN  /\ <<f.host, f.app, f.proc, f.message, f.sd>>
             = <<m.host, m.app, m.proc, m.message, m.sd>>
        /\ m.rfc = 5424 => f.version = <<m.version>> /\ f.msgid = m.msgid
        /\ <<data.facility, data.severity>> = <<m.facility, Severities[m.level + 1]>>
        /\ data.params = ParamsOf(m.elements)

TagHasProc(m) == m.rfc # 5424 /\ m.proc # << >>

\* Of a text laid out by RFC 5424, or by RFC 3164 with a tag without a process
\* id, an event is made when it is popped, and each event made of it says what
\* its sender meant: host, application, process, severity, every parameter
\* under its element, and the message.  The text is one that was pushed whole,
\* and no two of its parameters have the same element and key.
EventsFaithful ==
    kind = "syslog" =>
        \A d \in ToSet(delivered), m \in {n \in Meant : ~TagHasProc(n)} :
            d.body = Render(m) =>
                LET about == {e \in ToSet(made) : e.src = d.id}
                IN  about # {} /\ \A e \in about : Says(e.data, m)

\* Layouts that popped packets i, ... announced for template id in version v.
Announced(v, id, i) ==
    {t.layout : t \in {u \in UNION {UNION {ToSet(s.defs) :
        s \in {x \in ToSet(delivered[k].body.sets) : x.type = "template"}} :
            k \in {j \in i .. Len(delivered) : delivered[j].body.version = v}} : u.id = id}}

\* A NetFlow record is decoded with a layout that was announced for its id in
\* its own protocol version, and never with one from before the last start();
\* when all exporters gave the id the same layout, it is its exporter's own.
RecordsOwnLayout ==
    kind = "netflow" =>
        \A i \in DOMAIN made :
            LET r == made[i].data
                from == CHOOSE j \in DOMAIN delivered : delivered[j].id[1] = made[i].src[1]
                known == Announced(r.version, r.id, 1)
            IN  r.version # 5 => /\ r.used \in known
                                 /\ known = {r.sent} => r.used = r.sent
                                 /\ from > templates.since =>
                                      r.used \in Announced(r.version, r.id, templates.since + 1)

\* Once stop() has returned nothing is produced until the next start().
QuietWhenIdle == [][phase = "idle" => UNCHANGED <<producerVars, batch>>]_vars

\* stop() returns: every thread it joins leaves its loop.  Left out is a
\* processing thread that NetFlowParser keeps: after a set whose header says
\* length 0 it looks for the next one in the same place, and stop() waits for
\* it for ever.
StopReturns == phase = "joining" /\ ppc # "parsing" ~> phase = "idle"
=============================================================================
