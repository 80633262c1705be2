------------------------------- MODULE Syslog -------------------------------
(***************************************************************************)
(* The syslog listener and parser (internal/syslog: server.go, parse.go).  *)
(* Senders write framed messages to TCP connections or datagrams to UDP;   *)
(* the server finds the frames, parses each into an event and offers it to *)
(* the sink; Stop closes everything and waits for the handlers.            *)
(*                                                                         *)
(* Abstractions.                                                           *)
(*   - A text is a sequence of tokens: the characters that the framing and *)
(*     the parser look for, and words of others.  A number is one token,   *)
(*     and the lengths of octet counting count tokens.                     *)
(*   - A timestamp is a token of Stamps; its value is not modelled.        *)
(*   - Reading a frame is one step: a reader with less than a frame waits. *)
(*   - The sink takes every event or refuses it, which is counted and no    *)
(*     more; neither the verdict nor the counters are modelled.            *)
(*   - Byte limits are left out (MaxFrame alone remains): of a datagram,   *)
(*     and of the tag.                                                     *)
(***************************************************************************)
EXTENDS Naturals, FiniteSetsExt, SequencesExt, TLC

CONSTANTS
    Conns,       \* TCP connections
    Messages,    \* what senders log: [form, source, service, procid, elements, text]
    Framings,    \* "octets", "newline"
    Cuts,        \* numbers of tokens after which a sender is cut off
    Priorities,  \* tokens of a valid PRI, "<13>"
    Stamps,      \* tokens of a timestamp
    Numerals,    \* Numerals[n]: the token of the number n
    MaxFrame,    \* maxLineBytes
    MaxConns,    \* maxConns
    MaxSent      \* bound: messages sent in all

VARIABLES
    conn,     \* per connection: [phase, wire, hung, shut]
    tracked,  \* Server.conns
    tcp, udp, \* the two loops: "up", "ended"
    stop,     \* "no", "waiting", "stopped"; Server.closed is stop # "no"
    logged,   \* history: what was sent whole, by connection
    cutOff,   \* history: the text last sent in part, by connection
    parsed    \* history: events offered to the sink, by connection

syslogVars == <<conn, tracked, tcp, udp, stop, logged, cutOff, parsed>>

Datagrams == "datagrams"

\* RFC 5424: a space; a line break.
SP == " "
LF == "\n"

-----------------------------------------------------------------------------
(* What a sender writes. *)

Escaped(value) ==
    FlattenSeq([i \in DOMAIN value |->
        IF value[i] \in {"\"", "\\", "]"} THEN <<"\\", value[i]>> ELSE <<value[i]>>])

ElementText(e) ==
    <<"[", e.id>>
    \o FlattenSeq([i \in DOMAIN e.params |->
            <<SP, e.params[i].key, "=", "\"">> \o Escaped(e.params[i].value) \o <<"\"">>])
    \o <<"]">>

OrNil(field) == IF field = <<>> THEN <<"-">> ELSE field

MessageText(m) ==
    CASE m.form = "plain" -> m.text
      [] m.form = "3164" ->
            <<"<13>", "Oct 11 22:14:15", SP>> \o m.source \o <<SP>> \o m.service
            \o (IF m.procid = <<>> THEN <<>> ELSE <<"[">> \o m.procid \o <<"]">>)
            \o <<":", SP>> \o m.text
      [] m.form = "5424" ->
            <<"<13>", "1", SP, "2003-10-11T22:14:15Z", SP>> \o OrNil(m.source) \o <<SP>>
            \o OrNil(m.service) \o <<SP>> \o OrNil(m.procid) \o <<SP, "-", SP>>
            \o (IF m.elements = <<>> THEN <<"-">>
                ELSE FlattenSeq([i \in DOMAIN m.elements |-> ElementText(m.elements[i])]))
            \o (IF m.text = <<>> THEN <<>> ELSE <<SP>> \o m.text)

FrameText(m, framing) ==
    IF framing = "octets"
    THEN <<Numerals[Len(MessageText(m))], SP>> \o MessageText(m)
    ELSE MessageText(m) \o <<LF>>

\* A length that is sent has one numeral, and no other has the same.
ASSUME SyslogAssumption ==
    /\ MaxFrame \in Nat \ {0}
    /\ MaxConns \in Nat \ {0}
    /\ MaxSent \in Nat
    /\ Framings \subseteq {"octets", "newline"}
    /\ Cuts \subseteq Nat
    /\ Datagrams \notin Conns
    /\ DOMAIN Numerals \subseteq Nat
    /\ \A n, k \in DOMAIN Numerals : Numerals[n] \in STRING /\ (n # k => Numerals[n] # Numerals[k])
    /\ \A m \in Messages :
          MessageText(m) \in Seq(STRING) /\ Len(MessageText(m)) \in DOMAIN Numerals

-----------------------------------------------------------------------------
(* Framing: readFrame, readOctetCounted, readLineLimited. *)

Number(t) == \E n \in DOMAIN Numerals : Numerals[n] = t
Atoi(t) == CHOOSE n \in DOMAIN Numerals : Numerals[n] = t

\* The first t at or after i; 0 if there is none.
Find(s, t, i) == SelectInSubSeq(s, i, Len(s), LAMBDA x : x = t)

\* A frame that starts with a number and a space is counted.  The limit of
\* readLineLimited is checked only after the newline has been found.
Counted(w) == Len(w) >= 2 /\ Number(w[1]) /\ w[2] = SP
Undecided(w) == w = <<>> \/ (Len(w) = 1 /\ Number(w[1]))
Implausible(w) == Counted(w) /\ Atoi(w[1]) > MaxFrame

\* Length of the frame at the head of w; 0 while it is not all there.
FrameLength(w) ==
    CASE Undecided(w) \/ Implausible(w) -> 0
      [] Counted(w) /\ ~Implausible(w) ->
            IF Len(w) >= 2 + Atoi(w[1]) THEN 2 + Atoi(w[1]) ELSE 0
      [] ~Undecided(w) /\ ~Counted(w) -> Find(w, LF, 1)

FramePayload(w) == SubSeq(w, IF Counted(w) THEN 3 ELSE 1, FrameLength(w))

\* What is left of a connection that ends: of a line its beginning.
PartialPayload(w) == IF Undecided(w) \/ Counted(w) THEN <<>> ELSE w

-----------------------------------------------------------------------------
(* Parsing. *)

TrimLeft(s) ==
    LET kept == {i \in DOMAIN s : s[i] # SP}
    IN  IF kept = {} THEN <<>> ELSE SubSeq(s, Min(kept), Len(s))

TrimSpace(s) ==
    LET kept == {i \in DOMAIN s : s[i] \notin {SP, LF}}
    IN  IF kept = {} THEN <<>> ELSE SubSeq(s, Min(kept), Max(kept))

UnNil(s) == IF s = <<"-">> THEN <<>> ELSE s

\* A backslash escapes what follows it, if it is not escaped itself.
EscapedAt(s, i) ==
    Cardinality({j \in 1..(i - 1) : \A k \in j..(i - 1) : s[k] = "\\"}) % 2 = 1

Quotes(s) == {i \in DOMAIN s : s[i] = "\"" /\ ~EscapedAt(s, i)}

\* The brackets that count: those neither quoted nor escaped.
Structural(s, t) ==
    {i \in DOMAIN s : /\ s[i] = t
                      /\ ~EscapedAt(s, i)
                      /\ Cardinality({j \in Quotes(s) : j < i}) % 2 = 0}

\* Mutated: stops after the first element.
EndAtFirst(s, i) == TRUE

\* Several elements may stand back to back.
NoneFollows(s, i) == i = Len(s) \/ s[i + 1] # "["

\* splitStructuredData: where the block that s starts with ends.
BlockEnds(s) ==
    LET opening == Structural(s, "[")
        closing == Structural(s, "]")
        Upto(i, places) == Cardinality({j \in places : j <= i})
    IN  {i \in closing : Upto(i, opening) = Upto(i, closing) /\ NoneFollows(s, i)}

StripSpace(s) == IF s # <<>> /\ s[1] = SP THEN Tail(s) ELSE s

SplitStructuredData(s) ==
    IF s = <<>> \/ s[1] \notin {"-", "["} THEN [sd |-> <<>>, msg |-> s]
    ELSE IF s[1] = "-" THEN [sd |-> <<>>, msg |-> StripSpace(Tail(s))]
    ELSE LET ends == BlockEnds(s)
             end == IF ends = {} THEN Len(s) ELSE Min(ends)
         IN  [sd |-> SubSeq(s, 1, end), msg |-> StripSpace(SubSeq(s, end + 1, Len(s)))]

\* splitElements: from the first bracket that opens to the first that closes.
Elements(sd) ==
    LET opening == Structural(sd, "[")
        closing == Structural(sd, "]")
        Since(j) == {i \in opening : i < j /\ ~\E k \in closing : i < k /\ k < j}
    IN  {SubSeq(sd, Min(Since(j)) + 1, j - 1) : j \in {k \in closing : Since(k) # {}}}

\* readQuoted, of a value that starts at i: where it ends, 0 if it does not, and what
\* it is without the backslashes that escape.
QuoteEnd(s, i) ==
    LET ends == {j \in i..Len(s) : s[j] = "\"" /\ ~EscapedAt(s, j)}
    IN  IF ends = {} THEN 0 ELSE Min(ends)

Unescaped(s, i, j) ==
    LET kept == SelectSeq([k \in 1..(j - i) |-> i + k - 1], LAMBDA k : s[k] # "\\" \/ EscapedAt(s, k))
    IN  [k \in DOMAIN kept |-> s[kept[k]]]

\* splitElementID: the parameters up to the first that is malformed.
ElementParams(id, s) ==
    LET from[i \in 1..(Len(s) + 1)] ==
            LET eq == Find(s, "=", i)
                key == TrimLeft(SubSeq(s, i, eq - 1))
                end == QuoteEnd(s, eq + 2)
            IN  IF eq = 0 \/ eq = Len(s) THEN <<>>
                ELSE IF s[eq + 1] # "\"" \/ end = 0 THEN <<>>
                ELSE from[end + 1] @@ (<<id, key>> :> Unescaped(s, eq + 2, end))
    IN  from[1]

\* parseStructuredData, of one element.  One without parameters is a signal.
ElementAttrs(element) ==
    LET e == TrimSpace(element)
        sp == Find(e, SP, 1)
        id == IF sp = 0 THEN e ELSE SubSeq(e, 1, sp - 1)
        params == IF sp = 0 THEN <<>> ELSE ElementParams(id, SubSeq(e, sp + 1, Len(e)))
    IN  IF id = <<>> THEN <<>>
        ELSE IF DOMAIN params = {} THEN <<id>> :> <<"true">> ELSE params

Merged(maps) == FoldSet(LAMBDA m, all : m @@ all, <<>>, maps)

Named(name, value) == IF value = <<>> THEN <<>> ELSE <<<<name>>>> :> value

IsRFC5424(rest) == Counted(rest)

Parse5424(rest) ==
    LET spaces == SelectSeq([i \in DOMAIN rest |-> i], LAMBDA i : rest[i] = SP)
        sp(k) == IF k = 0 THEN 0 ELSE IF k <= Len(spaces) THEN spaces[k] ELSE Len(rest) + 1
        Field(k) == UnNil(SubSeq(rest, sp(k - 1) + 1, sp(k) - 1))
        parts == SplitStructuredData(TrimLeft(SubSeq(rest, sp(6) + 1, Len(rest))))
    IN  IF Len(spaces) < 5
        THEN [message |-> TrimSpace(rest), source |-> <<>>, service |-> <<>>, attrs |-> <<>>]
        ELSE [message |-> TrimSpace(parts.msg),
              source  |-> Field(3),
              service |-> Field(4),
              attrs   |-> Merged({ElementAttrs(e) : e \in Elements(parts.sd)})
                          @@ Named("msgid", Field(6)) @@ Named("procid", Field(5))]

\* Every part is optional: what is not there stays in the message.
Parse3164(rest) ==
    LET trimmed == TrimLeft(rest)
        stamped == trimmed # <<>> /\ trimmed[1] \in Stamps
        body == IF stamped THEN TrimLeft(Tail(trimmed)) ELSE trimmed
        sp == Find(body, SP, 1)
        hosted == sp > 1
        tail == IF hosted THEN TrimLeft(SubSeq(body, sp + 1, Len(body))) ELSE body
        colon == Find(tail, ":", 1)
        tag == SubSeq(tail, 1, colon - 1)
        tagged == colon > 1 /\ ~Contains(tag, SP)
        open == Find(tag, "[", 1)
        numbered == tagged /\ open > 1 /\ Last(tag) = "]"
    IN  [message |-> TrimSpace(IF tagged THEN SubSeq(tail, colon + 1, Len(tail)) ELSE tail),
         source  |-> IF hosted THEN SubSeq(body, 1, sp - 1) ELSE <<>>,
         service |-> IF numbered THEN SubSeq(tag, 1, open - 1)
                     ELSE IF tagged THEN tag ELSE <<>>,
         attrs   |-> IF numbered THEN <<<<"procid">>>> :> SubSeq(tag, open + 1, Len(tag) - 1) ELSE <<>>]

\* A line without a valid priority is kept as it is.
Parse(line) ==
    IF Len(line) < 1 \/ line[1] \notin Priorities
    THEN [message |-> TrimSpace(line), source |-> <<>>, service |-> <<>>, attrs |-> <<>>]
    ELSE IF IsRFC5424(Tail(line)) THEN Parse5424(Tail(line)) ELSE Parse3164(Tail(line))

-----------------------------------------------------------------------------
(* The server. *)

\* handle
Handle(c, payload) ==
    \E text \in {payload} : \E raw \in {TrimSpace(text)} :
       IF raw = <<>> THEN UNCHANGED parsed
       ELSE \E event \in {Parse(raw)} :
               parsed' = [parsed EXCEPT ![c] = Append(@, event)]

Untrack(c) ==
    /\ conn' = [conn EXCEPT ![c] = [phase |-> "ended", wire |-> <<>>, hung |-> @.hung, shut |-> TRUE]]
    /\ tracked' = tracked \ {c}

Accept(c) ==
    /\ tcp = "up" /\ stop = "no"
    /\ \A d \in Conns : conn[d].phase # "accepted"
    /\ conn[c].phase = "dialed"
    /\ conn' = [conn EXCEPT ![c].phase = "accepted"]
    /\ UNCHANGED <<tracked, tcp, udp, stop, logged, cutOff, parsed>>

\* Mutated: the cap on connections is not looked at.
NoCap == stop = "no"

MayTrack == stop = "no" /\ Cardinality(tracked) < MaxConns

\* trackConn, in serveTCP
TrackConn(c) ==
    /\ conn[c].phase = "accepted"
    /\ IF MayTrack
       THEN /\ tracked' = tracked \cup {c}
            /\ conn' = [conn EXCEPT ![c].phase = "served"]
       ELSE Untrack(c)
    /\ UNCHANGED <<tcp, udp, stop, logged, cutOff, parsed>>

\* Accept fails: the server is stopping, or the loop ends on any other error.
AcceptFails ==
    /\ tcp = "up"
    /\ \A d \in Conns : conn[d].phase # "accepted"
    /\ tcp' = "ended"
    /\ UNCHANGED <<conn, tracked, udp, stop, logged, cutOff, parsed>>

ReadUDPFails ==
    /\ udp = "up"
    /\ udp' = "ended"
    /\ UNCHANGED <<conn, tracked, tcp, stop, logged, cutOff, parsed>>

SentInAll ==
    FoldSet(LAMBDA c, n : n + Len(logged[c]), 0, DOMAIN logged)
    + Cardinality({c \in Conns : cutOff[c] # <<>>})

ReceiveDatagram(m) ==
    /\ udp = "up"
    /\ SentInAll < MaxSent
    /\ logged' = [logged EXCEPT ![Datagrams] = Append(@, m)]
    /\ Handle(Datagrams, MessageText(m))
    /\ UNCHANGED <<conn, tracked, tcp, udp, stop, cutOff>>

\* serveConn.  A read under way when Stop closes the connection may still return.
ServeFrame(c) ==
    /\ conn[c].phase = "served"
    /\ FrameLength(conn[c].wire) > 0
    /\ Handle(c, FramePayload(conn[c].wire))
    /\ conn' = [conn EXCEPT ![c].wire =
                    SubSeq(@, FrameLength(@) + 1, Len(@))]
    /\ UNCHANGED <<tracked, tcp, udp, stop, logged, cutOff>>

Waiting(c) == conn[c].phase = "served" /\ FrameLength(conn[c].wire) = 0

\* The read fails, closed by either side or for a length that cannot be: what was
\* read of a line is handled.
ReadFails(c) ==
    /\ Waiting(c)
    /\ conn[c].hung \/ conn[c].shut \/ Implausible(conn[c].wire)
    /\ Handle(c, PartialPayload(conn[c].wire))
    /\ Untrack(c)
    /\ UNCHANGED <<tcp, udp, stop, logged, cutOff>>

\* The connection was closed between two reads: SetReadDeadline fails.
FindsClosed(c) ==
    /\ conn[c].phase = "served"
    /\ conn[c].shut
    /\ Untrack(c)
    /\ UNCHANGED <<tcp, udp, stop, logged, cutOff, parsed>>

\* connIdleTimeout
IdleTimeout(c) ==
    /\ Waiting(c)
    /\ Handle(c, PartialPayload(conn[c].wire))
    /\ Untrack(c)
    /\ UNCHANGED <<tcp, udp, stop, logged, cutOff>>

StopServer ==
    /\ stop = "no"
    /\ stop' = "waiting"
    /\ conn' = [c \in Conns |-> [conn[c] EXCEPT !.shut = @ \/ c \in tracked]]
    /\ UNCHANGED <<tracked, tcp, udp, logged, cutOff, parsed>>

\* wg.Wait
StopDone ==
    /\ stop = "waiting"
    /\ tcp = "ended" /\ udp = "ended"
    /\ \A c \in Conns : conn[c].phase # "served"
    /\ stop' = "stopped"
    /\ UNCHANGED <<conn, tracked, tcp, udp, logged, cutOff, parsed>>

-----------------------------------------------------------------------------
(* The senders. *)

Dial(c) ==
    /\ conn[c].phase = "idle"
    /\ stop = "no"
    /\ conn' = [conn EXCEPT ![c].phase = "dialed"]
    /\ UNCHANGED <<tracked, tcp, udp, stop, logged, cutOff, parsed>>

Writes(c) ==
    /\ conn[c].phase \in {"dialed", "accepted", "served"}
    /\ ~conn[c].hung /\ ~conn[c].shut
    /\ SentInAll < MaxSent

\* A line cannot carry a newline, nor a number first, which would be a length.
Carries(framing, m) ==
    framing = "newline" => ~Contains(MessageText(m), LF) /\ ~Number(MessageText(m)[1])

SendFrame(c, m, framing) ==
    /\ Writes(c)
    /\ Carries(framing, m)
    /\ conn' = [conn EXCEPT ![c].wire = @ \o FrameText(m, framing)]
    /\ logged' = [logged EXCEPT ![c] = Append(@, m)]
    /\ UNCHANGED <<tracked, tcp, udp, stop, cutOff, parsed>>

\* A sender is cut off in the middle of a message, or hangs up after one.
SendCut(c, m, framing, n) ==
    /\ Writes(c)
    /\ Carries(framing, m)
    /\ n < Len(FrameText(m, framing))
    /\ conn' = [conn EXCEPT ![c].wire = @ \o SubSeq(FrameText(m, framing), 1, n), ![c].hung = TRUE]
    /\ cutOff' = [cutOff EXCEPT ![c] = SubSeq(FrameText(m, framing), 1, n)]
    /\ UNCHANGED <<tracked, tcp, udp, stop, logged, parsed>>

-----------------------------------------------------------------------------
SyslogInit ==
    /\ conn = [c \in Conns |-> [phase |-> "idle", wire |-> <<>>, hung |-> FALSE, shut |-> FALSE]]
    /\ tracked = {}
    /\ tcp = "up" /\ udp = "up" /\ stop = "no"
    /\ logged = [c \in Conns \cup {Datagrams} |-> <<>>]
    /\ cutOff = [c \in Conns |-> <<>>]
    /\ parsed = [c \in Conns \cup {Datagrams} |-> <<>>]

SyslogNext ==
    \/ \E c \in Conns : \/ Dial(c) \/ Accept(c) \/ TrackConn(c) \/ ServeFrame(c)
                        \/ ReadFails(c) \/ FindsClosed(c) \/ IdleTimeout(c)
    \/ \E c \in Conns, m \in Messages, f \in Framings :
          SendFrame(c, m, f) \/ \E n \in Cuts : SendCut(c, m, f, n)
    \/ \E m \in Messages : ReceiveDatagram(m)
    \/ AcceptFails \/ ReadUDPFails \/ StopServer \/ StopDone

\* What the server does once it stops.  No sender hangs up, no timer is waited for.
SyslogFairness ==
    /\ WF_syslogVars(stop # "no" /\ AcceptFails)
    /\ WF_syslogVars(stop # "no" /\ ReadUDPFails)
    /\ WF_syslogVars(StopDone)
    /\ \A c \in Conns : WF_syslogVars(TrackConn(c)) /\ WF_syslogVars(FindsClosed(c))

SyslogSpec == SyslogInit /\ [][SyslogNext]_syslogVars /\ SyslogFairness

-----------------------------------------------------------------------------
(* Properties. *)

SyslogTypeOK ==
    /\ \A c \in Conns : conn[c].phase \in {"idle", "dialed", "accepted", "served", "ended"}
    /\ tracked = {c \in Conns : conn[c].phase = "served"}
    /\ Cardinality(tracked) <= MaxConns
    /\ stop \in {"no", "waiting", "stopped"}

\* The event a message is meant to become.
Meant(m) ==
    [message |-> m.text, source |-> m.source, service |-> m.service,
     attrs   |-> Named("procid", m.procid) @@ Merged({
        IF m.elements[i].params = <<>> THEN <<<<m.elements[i].id>>>> :> <<"true">>
        ELSE Merged({<<<<m.elements[i].id>>, <<m.elements[i].params[j].key>>>>
                        :> m.elements[i].params[j].value : j \in DOMAIN m.elements[i].params}) :
        i \in DOMAIN m.elements})]

\* Each message, by itself, reads as it was meant.
ParsesBack ==
    \A m \in Messages : LET raw == TrimSpace(MessageText(m))
                        IN  raw # <<>> /\ Parse(raw) = Meant(m)

\* A message is never lost in parsing: whatever stands in its values and its text,
\* and however it is framed, each message that was sent whole becomes one event,
\* in the order of its connection, with the parts its sender put in.  Only what a
\* sender was cut off in may follow, as one more event.
ArrivesAsSent ==
    \A c \in DOMAIN parsed :
        /\ \A i \in DOMAIN parsed[c] :
              i <= Len(logged[c]) => parsed[c][i] = Meant(logged[c][i])
        /\ Len(parsed[c]) <= Len(logged[c]) + (IF c \in Conns /\ cutOff[c] # <<>> THEN 1 ELSE 0)

\* Stop waits for the handlers of the connections and returns: it closes them all,
\* one that was accepted while it did included, whatever their senders do.
StopReturns == stop = "waiting" ~> stop = "stopped"
=============================================================================
