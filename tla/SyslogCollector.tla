--------------------------- MODULE SyslogCollector ---------------------------
(***************************************************************************)
(* SyslogCollector: UDP receivers, and a detached handler for a TCP        *)
(* connection that cuts what each recv() returns at newlines.  The peer's  *)
(* stream is a sequence of cells [line, pos, sym], one for each word and   *)
(* newline.                                                                *)
(***************************************************************************)
EXTENDS CollectorPipeline, SyslogParser

CONSTANTS
    Transports, \* the transports the collector may be configured for
    Datagrams,  \* the messages a sender may send by UDP
    TcpLines,   \* the lines a peer may send by TCP
    RecvMax     \* how much one recv() returns at most

Newline == <<"\n">>

ASSUME SyslogAssumption ==
    /\ Transports \subseteq {"UDP", "TCP", "TLS"} /\ RecvMax \in Nat \ {0}
    /\ \A l \in TcpLines : l \in Seq(ToSet(l)) /\ Newline \notin ToSet(l)

\* start(): transports UDP and TCP bind the UDP port, TCP and TLS the TCP
\* port, and TCP goes on without the latter if it is taken.
SyslogStart ==
    /\ kind = "syslog"
    /\ \E t \in Transports, bound \in BOOLEAN :
         /\ t = "TLS" => bound
         /\ Launch(t # "TLS", FALSE, t # "UDP" /\ bound)

\* No socket could be bound, or not the UDP one: running_ is taken back.
SyslogStartFails == kind = "syslog" /\ phase = "idle" /\ UNCHANGED vars

\* A datagram arrives.  It is lost when no socket is open.
DatagramArrives ==
    /\ kind = "syslog" /\ running /\ inputs < MaxInputs
    /\ \E r \in Receivers : rpc[r] # "exited"
    /\ \E d \in Datagrams : socket' = Append(socket, [id |-> <<inputs + 1, 1>>, body |-> d])
    /\ inputs' = inputs + 1
    /\ UNCHANGED <<kind, running, phase, threadVars, ringVars, conn, templates, bookVars,
                   producerVars>>

SyslogReceive(r) == kind = "syslog" /\ ReceiveDatagram(r)

-----------------------------------------------------------------------------
(* TCP *)

ConnStep(new) ==
    /\ kind = "syslog" /\ conn' = new
    /\ UNCHANGED <<kind, running, phase, threadVars, socket, templates, made, stops, producerVars>>

\* A peer connects: a detached thread handles it.
Accept ==
    /\ conn.pc = "listen"
    /\ ConnStep([conn EXCEPT !.pc = "armed"])
    /\ UNCHANGED <<ringVars, inputs, stats, dropped>>

\* The peer sends a line, its newline included.
PeerSends ==
    /\ conn.pc \in {"armed", "pushing"} /\ inputs < MaxInputs
    /\ \E l \in TcpLines :
         ConnStep([conn EXCEPT
             !.stream = @ \o [i \in 1 .. Len(l) + 1 |->
                 [line |-> inputs + 1, pos |-> i, sym |-> IF i > Len(l) THEN Newline ELSE l[i]]],
             !.sent = Append(@, [line |-> inputs + 1, text |-> l])])
    /\ inputs' = inputs + 1
    /\ UNCHANGED <<ringVars, stats, dropped>>

Piece(cells, a, b) == [id |-> <<cells[a].line, cells[a].pos>>,
                       body |-> [i \in 1 .. b - a + 1 |-> cells[a + i - 1].sym]]

\* Mutant of Starts: what follows the last newline is not looked at.
StartsBeforeNewline(cells) ==
    {i \in DOMAIN cells : /\ i = 1 \/ cells[i - 1].sym = Newline
                          /\ \E j \in i .. Len(cells) : cells[j].sym = Newline}

\* Where the messages in what recv() returned begin: at its front, and behind
\* each newline.  What follows the last newline is a message too.
Starts(cells) == {i \in DOMAIN cells : i = 1 \/ cells[i - 1].sym = Newline}

\* The message that begins at a ends before the next newline, or with the cells.
MessageEnd(cells, a) ==
    CHOOSE b \in a - 1 .. Len(cells) :
        /\ \A i \in a .. b : cells[i].sym # Newline
        /\ b < Len(cells) => cells[b + 1].sym = Newline

\* What recv() returned, cut at the newlines: the kth message begins at the
\* start with k - 1 before it.
Frame(cells) ==
    LET starts == Starts(cells)
        begin(k) == CHOOSE a \in starts : Cardinality({i \in starts : i <= a}) = k
    IN  [k \in 1 .. Cardinality(starts) |->
            Piece(cells, begin(k), MessageEnd(cells, begin(k)))]

\* recv() cuts the stream anywhere.
HandlerReads ==
    /\ conn.pc = "armed"
    /\ \E n \in 1 .. RecvMax :
         /\ n <= Len(conn.stream)
         /\ ConnStep([conn EXCEPT !.pc = "pushing",
                                  !.pieces = Frame(SubSeq(conn.stream, 1, n)),
                                  !.stream = From(@, n + 1)])
    /\ stats' = [stats EXCEPT !.received = @ + 1]
    /\ UNCHANGED <<ringVars, inputs, dropped>>

\* One piece is pushed, or dropped by a full ring; after the last one the
\* handler reads running_ again.
HandlerPushes ==
    /\ conn.pc = "pushing" /\ conn.pieces # << >>
    /\ \/ Ring!Put(Head(conn.pieces)) /\ UNCHANGED dropped
       \/ /\ Len(queue) >= RingLimit
          /\ dropped' = dropped \cup {Head(conn.pieces)}
          /\ UNCHANGED ringVars
    /\ \/ /\ Len(conn.pieces) > 1
          /\ ConnStep([conn EXCEPT !.pieces = Tail(@)])
       \/ /\ Len(conn.pieces) = 1
          /\ ConnStep(IF running THEN [conn EXCEPT !.pieces = << >>, !.pc = "armed"] ELSE NoConn)
    /\ UNCHANGED <<inputs, stats>>

\* The handler finds running_ cleared after a poll() without data.
HandlerExits ==
    /\ conn.pc = "armed" /\ ~running
    /\ ConnStep(NoConn)
    /\ UNCHANGED <<ringVars, inputs, stats, dropped>>

\* The peer closes, or poll() or recv() fails, maybe with data unread: the
\* handler ends.  The listener would accept others; one connection is followed
\* for each call of start().
PeerCloses ==
    /\ conn.pc = "armed" /\ running
    /\ ConnStep(NoConn)
    /\ UNCHANGED <<ringVars, inputs, stats, dropped>>

-----------------------------------------------------------------------------
(* processing_loop *)

\* The fields of the event made from what was parsed, NoMessage if nothing was.
FieldsParsed(p) ==
    IF p = NoMessage THEN NoMessage
    ELSE [severity |-> map_severity(p.severity), facility |-> p.facility,
          fields |-> p.fields, params |-> parse_structured_data(p.fields.sd)]

SyslogFields(s) == FieldsParsed(parse(s))

SyslogProcess ==
    /\ kind = "syslog" /\ queue # << >>
    /\ \E p \in {parse(Head(queue).body)} : \E data \in {FieldsParsed(p)} :
         IF data = NoMessage THEN Process(<< >>, 0, 1)
         ELSE Process(<<[src |-> Head(queue).id, data |-> data]>>, 1, 0)
    /\ UNCHANGED templates

SyslogFlush  == kind = "syslog" /\ FlushBatch
SyslogFinish == kind = "syslog" /\ FinishLoop
=============================================================================
