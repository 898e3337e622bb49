--------------------------- MODULE HttpTransport ---------------------------
(***************************************************************************)
(* One connection of the bounded HTTP transport (src/native/http_io.rs):    *)
(* receive assembles a request from whatever pieces arrive, scanning each   *)
(* byte once, and send pushes the six segments of the response through a    *)
(* socket that takes as much as it likes.  Each phase has one absolute      *)
(* deadline, checked before every call and once more at the end.  A call    *)
(* that is interrupted (EINTR) is simply made again.                        *)
(*                                                                         *)
(* The client, the socket and the clock are the environment.  A handler     *)
(* whose checks fail on request data closes the connection as well.         *)
(***************************************************************************)
EXTENDS HttpFraming

CONSTANTS
    Streams,       \* what the client may send, one sequence of bytes each
    Capacity,      \* max_request: the receive buffer
    RequestTime,   \* request_timeout, in ticks of the monotonic clock
    ResponseTime,  \* response_timeout
    Segments       \* lengths of the response's segments

ASSUME TransportAssumption ==
    /\ Streams \subseteq Seq(Bytes)
    /\ Capacity \in Nat
    /\ RequestTime \in Nat \ {0} /\ ResponseTime \in Nat \ {0}
    /\ Segments \in Seq(Nat) /\ Len(Segments) > 0

VARIABLES
    wire,     \* the client's bytes
    arrived,  \* how many of them the socket has
    peer,     \* "open", "shut" after the client's last byte, "reset"
    pc,       \* where the connection is
    cause,    \* why it was closed, "none" before
    clock,    \* time to the phase's deadline
    have,     \* bytes in the receive buffer
    scan,     \* bytes the DFA has consumed
    state,    \* its state
    length,   \* Content-Length read so far
    seen,     \* 1 once Content-Length has been seen
    total,    \* length of the request, 0 while unknown
    path,     \* bytes of the target
    seg,      \* the segment being sent
    left,     \* what is left of it
    sent      \* bytes of the response the kernel has taken

client == <<wire, arrived, peer>>
frame == <<have, scan, state, length, seen, total, path>>
response == <<seg, left, sent>>
vars == <<client, pc, cause, clock, frame, response>>

Receiving == {"read", "scan", "body", "wait_read", "framed"}
Sending == {"send", "wait_send"}
Least(a, b) == IF a < b THEN a ELSE b

\* No byte is stored or read beyond the receive buffer, and no header or body
\* makes a counter exceed what was declared.
TypeOK ==
    /\ wire \in Streams /\ arrived \in 0..Len(wire)
    /\ peer \in {"open", "shut", "reset"}
    /\ pc \in Receiving \cup Sending \cup {"parse", "handle", "after", "closed"}
    /\ cause \in {"none", "answered", "malformed", "expired", "ended", "refused"}
    /\ clock \in Nat
    /\ have \in 0..Capacity /\ have <= arrived
    /\ scan \in 0..have
    /\ state \in States
    /\ length \in 0..Capacity /\ seen \in {0, 1}
    /\ total \in 0..Capacity
    /\ path \in 0..MaxTarget
    /\ seg \in 1..Len(Segments)
    /\ left \in 0..Segments[seg]
    /\ sent \in Nat

\* start: the deadline is taken and the scratch slots are reset.
Init ==
    /\ wire \in Streams /\ arrived = 0 /\ peer = "open"
    /\ pc = "read" /\ cause = "none"
    /\ clock = RequestTime
    /\ have = 0 /\ scan = 0 /\ state = START
    /\ length = 0 /\ seen = 0 /\ total = 0 /\ path = 0
    /\ seg = 1 /\ left = Segments[1] /\ sent = 0

-----------------------------------------------------------------------------
(* The environment. *)

\* Some more bytes arrive.
Deliver ==
    /\ peer = "open" /\ arrived < Len(wire)
    /\ arrived' \in (arrived + 1)..Len(wire)
    /\ UNCHANGED <<wire, peer, pc, cause, clock, frame, response>>

\* The client shuts its side down, early or after its last byte, or resets.
PeerLeaves ==
    /\ peer = "open"
    /\ peer' \in {"shut", "reset"}
    /\ UNCHANGED <<wire, arrived, pc, cause, clock, frame, response>>

Tick ==
    /\ pc # "closed" /\ clock > 0
    /\ clock' = clock - 1
    /\ UNCHANGED <<client, pc, cause, frame, response>>

-----------------------------------------------------------------------------
(* Closing: every failure jumps to the service's close label. *)

Close(why) ==
    /\ pc' = "closed"
    /\ cause' = why
    /\ UNCHANGED <<client, clock, frame, response>>

Goto(where) == pc' = where /\ UNCHANGED <<client, cause, clock, frame, response>>

Expired(where) == pc = where /\ clock = 0 /\ Close("expired")

-----------------------------------------------------------------------------
(* receive *)

Timely(where) == pc = where /\ clock > 0

\* A request that fills the buffer without being complete is refused.
ReadFull == Timely("read") /\ have = Capacity /\ Close("malformed")

\* recvfrom(MSG_DONTWAIT) takes what there is, as far as there is room.
ReadBytes ==
    /\ Timely("read") /\ have < Capacity /\ arrived > have
    /\ have' = have + Least(arrived - have, Capacity - have)
    /\ pc' = IF total # 0 THEN "body" ELSE "scan"
    /\ UNCHANGED <<client, cause, clock, scan, state, length, seen, total, path, response>>

\* EOF before the request is complete, or a socket error.
ReadEnds ==
    /\ Timely("read") /\ have < Capacity
    /\ peer = "reset" \/ (peer = "shut" /\ arrived = have)
    /\ Close("ended")

ReadBlocks ==
    /\ Timely("read") /\ have < Capacity /\ arrived = have
    /\ peer = "open"
    /\ Goto("wait_read")

\* Variant: every wait is given the whole timeout again.
ReadWakesRestarting ==
    /\ Timely("wait_read")
    /\ pc' = "read" /\ clock' = RequestTime
    /\ UNCHANGED <<client, cause, frame, response>>

\* poll(POLLIN) for the time that remains; it also returns for EOF and errors,
\* and when it is interrupted.
ReadWakes == Timely("wait_read") /\ Goto("read")

\* The bytes received so far are all scanned: more are needed.
ScanMore == pc = "scan" /\ scan = have /\ Goto("read")

\* Variant: a second Content-Length replaces the first.
RejectedIgnoringDuplicates(e, b) ==
    \/ e.next = Reject
    \/ e.action = "TARGET" /\ path = MaxTarget
    \/ e.action = "DIGIT" /\ length * 10 + Value(b) > Capacity
    \/ e.next = DONE /\ scan + 1 + length > Capacity

\* Variant: only the number itself is held against the buffer.
RejectedWithoutRoom(e, b) ==
    \/ e.next = Reject
    \/ e.action = "TARGET" /\ path = MaxTarget
    \/ e.action = "LENGTH" /\ seen = 1
    \/ e.action = "DIGIT" /\ length * 10 + Value(b) > Capacity

\* The byte leads nowhere, the target is too long, a second Content-Length
\* begins, or a length exceeds the buffer.
Rejected(e, b) ==
    \/ e.next = Reject
    \/ e.action = "TARGET" /\ path = MaxTarget
    \/ e.action = "LENGTH" /\ seen = 1
    \/ e.action = "DIGIT" /\ length * 10 + Value(b) > Capacity
    \/ e.next = DONE /\ scan + 1 + length > Capacity

\* One byte of the header: table lookup, then the action on the byte.
ScanByte ==
    /\ pc = "scan" /\ scan < have
    /\ LET b == wire[scan + 1]
           e == Edge(state, b)
       IN  IF Rejected(e, b)
           THEN Close("malformed")
           ELSE /\ scan' = scan + 1
                /\ state' = e.next
                /\ path' = IF e.action = "TARGET" THEN path + 1 ELSE path
                /\ seen' = IF e.action = "LENGTH" THEN 1 ELSE seen
                /\ length' = IF e.action = "DIGIT" THEN length * 10 + Value(b) ELSE length
                /\ total' = IF e.next = DONE THEN scan + 1 + length ELSE total
                /\ pc' = IF e.next = DONE THEN "body" ELSE "scan"
                /\ UNCHANGED <<client, cause, clock, have, response>>

CheckBody == pc = "body" /\ Goto(IF have >= total THEN "framed" ELSE "read")

\* The last check of the request's deadline.
Framed == Timely("framed") /\ Goto("parse")

\* emit_http_parse_method_path and the body scan, over the request alone: up to
\* the first space, then up to a space, CR or LF, then past the first blank line.
Spaces(d) == {i \in DOMAIN d : d[i] = "SP"}
PathEnds(d) == {i \in DOMAIN d : i > Min(Spaces(d)) /\ d[i] \in {"SP", "CR", "LF"}}
BodyStarts(d) == {end + 1 : end \in {e \in Ends(d) : e > Min(PathEnds(d)) + 3}}

Parses(d) ==
    /\ Spaces(d) # {} /\ Min(Spaces(d)) - 1 <= MaxMethod
    /\ PathEnds(d) # {} /\ Min(PathEnds(d)) - Min(Spaces(d)) - 1 <= MaxTarget
    /\ BodyStarts(d) # {}

Request == SubSeq(wire, 1, total)
Body == SubSeq(Request, Min(BodyStarts(Request)), total)

ParseRequest ==
    /\ pc = "parse"
    /\ IF Parses(Request) THEN Goto("handle") ELSE Close("malformed")

-----------------------------------------------------------------------------
(* The handler and send *)

\* A check on request data fails: the connection is closed without a response.
ClientAbort == pc = "handle" /\ Close("refused")

\* start_response: the second deadline, then the first segment.
StartResponse ==
    /\ pc = "handle"
    /\ clock' = ResponseTime
    /\ seg' = 1 /\ left' = Segments[1] /\ sent' = 0
    /\ pc' = "send"
    /\ UNCHANGED <<client, cause, frame>>

\* Variant: a short write is taken for a complete one.
SendBytesOnce ==
    /\ Timely("send") /\ left > 0 /\ peer # "reset"
    /\ \E n \in 1..left : sent' = sent + n
    /\ left' = 0
    /\ UNCHANGED <<client, pc, cause, clock, frame, seg>>

\* sendto(MSG_DONTWAIT) takes any part of the rest.
SendBytes ==
    /\ Timely("send") /\ left > 0 /\ peer # "reset"
    /\ \E n \in 1..left : sent' = sent + n /\ left' = left - n
    /\ UNCHANGED <<client, pc, cause, clock, frame, seg>>

SendBlocks == Timely("send") /\ left > 0 /\ peer # "reset" /\ Goto("wait_send")

SendFails == Timely("send") /\ left > 0 /\ peer = "reset" /\ Close("ended")

SendWakes == Timely("wait_send") /\ Goto("send")

\* A segment is complete only if the deadline has not passed by then.
NextSegment ==
    /\ Timely("send") /\ left = 0 /\ seg < Len(Segments)
    /\ seg' = seg + 1
    /\ left' = Segments[seg + 1]
    /\ UNCHANGED <<client, pc, cause, clock, frame, sent>>

SendDone == Timely("send") /\ left = 0 /\ seg = Len(Segments) /\ Goto("after")

\* The after block of the service follows; then the client is closed.
Finish == pc = "after" /\ Close("answered")

-----------------------------------------------------------------------------
Step ==
    \/ \E where \in {"read", "wait_read", "framed", "send", "wait_send"} : Expired(where)
    \/ ReadFull \/ ReadBytes \/ ReadEnds \/ ReadBlocks
    \/ ScanMore \/ ScanByte \/ CheckBody \/ Framed \/ ParseRequest
    \/ StartResponse \/ SendBytes \/ SendFails
    \/ NextSegment \/ SendDone \/ Finish

\* poll may return early, the socket may be full and the handler may refuse.
Host == Deliver \/ PeerLeaves \/ ReadWakes \/ SendBlocks \/ SendWakes \/ ClientAbort

Ended == pc = "closed" /\ UNCHANGED vars

Next == Step \/ Host \/ Tick \/ Ended

\* The process is scheduled and time passes; nothing is assumed of the client.
Fairness == WF_vars(Step) /\ WF_vars(Tick)

Spec == Init /\ [][Next]_vars /\ Fairness

-----------------------------------------------------------------------------
(* Properties. *)

Accepted == pc \in Sending \cup {"handle", "after"} \/ cause \in {"answered", "refused"}

\* What the handler gets is what the reference makes of the bytes received,
\* however they were cut into pieces, with the declared number of body bytes;
\* and a connection is closed as malformed only if the client's bytes do not
\* begin with a request.
FramedAsReference ==
    /\ Accepted =>
         /\ reference(SubSeq(wire, 1, have), Capacity) = [verdict |-> "complete", total |-> total]
         /\ Len(Body) = length
    /\ cause = "malformed" => reference(wire, Capacity).verdict # "complete"

\* Every segment of the response is sent in full and in order: the bytes the
\* kernel has taken are those of the finished segments and of the current one,
\* and a connection counts as answered only when all of them are out.
ResponseIsExact ==
    LET before == MapThenSumSet(LAMBDA i : Segments[i], 1..(seg - 1)) IN
    /\ pc \in Sending \cup {"after"} => sent = before + (Segments[seg] - left)
    /\ pc = "after" \/ cause = "answered" => sent = before + Segments[seg] /\ seg = Len(Segments)

\* A connection never outlives its deadlines, however slowly the client sends or
\* reads: it is closed in the end.
ConnectionEnds == <>(pc = "closed")

=============================================================================
