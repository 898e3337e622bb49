------------------------ MODULE HttpTransport_proofs ------------------------
(***************************************************************************)
(* The receive buffer, the counters, the framing and the response of the     *)
(* bounded transport, for every capacity, every set of reserved names, every *)
(* stream and every segments.                                                *)
(*                                                                         *)
(* TypeOK is inductive by the shape of the transition table.  That a         *)
(* response is exact needs Exact: what the kernel has taken is the sum of    *)
(* the segments before the current one and the part of it that is gone.  The *)
(* sum is a fold over a set; that it grows by a segment when the next one    *)
(* begins is shown by induction on the number of segments.                   *)
(*                                                                         *)
(* That the automaton frames as the reference does is shown through a third  *)
(* description: RequestAt says position by position what a request is.  The  *)
(* automaton has read a beginning of one (InOpening, InHeaders), goes on to  *)
(* one and refuses none; the reference accepts exactly those; and a request  *)
(* is one wherever its bytes are.                                            *)
(***************************************************************************)
EXTENDS HttpTransport, TLAPS, WellFoundedInduction, FiniteSetTheorems, SequenceTheorems

-----------------------------------------------------------------------------
(* The transition table. *)

Plain == {"done", "reject", "target_start", "target", "version_cr", "version_lf", "headers",
          "end_lf", "generic_name", "value", "value_lf", "leading", "digits", "trailing"}

\* An entry of the table leads to a state, and accumulates only digits.
IsEdge(e, b) == e.next \in States /\ (e.action = "DIGIT" => b \in Digits)

\* The states, by kind.
LEMMA StateKinds ==
    /\ \A w \in Plain : At(w) \in States
    /\ \A n \in 0..MaxMethod : <<"method", 0, n>> \in States
    /\ \A n \in 0..Len(Version) : <<"version", 0, n>> \in States
    /\ \A j \in DOMAIN Names : \A n \in 1..Len(Names[j]) : <<"name", j, n>> \in States
    /\ \A q \in States :
          \/ \E w \in Plain : q = At(w)
          \/ \E n \in 0..MaxMethod : q = <<"method", 0, n>>
          \/ \E n \in 0..Len(Version) : q = <<"version", 0, n>>
          \/ \E j \in DOMAIN Names : \E n \in 1..Len(Names[j]) : q = <<"name", j, n>>
BY DEF States, Plain

LEMMA GoIsEdge ==
    ASSUME NEW q \in States, NEW b PROVE IsEdge(Go(q), b)
BY DEF IsEdge, Go

\* The bytes of a header name.
LEMMA NameEdges ==
    ASSUME NEW b
    PROVE  /\ IsEdge(GenericByte(b), b)
           /\ IsEdge(FirstByte(b), b)
           /\ \A j \in DOMAIN Names : \A n \in 1..Len(Names[j]) : IsEdge(NameByte(j, n, b), b)
<1>1. At("generic_name") \in States /\ At("value") \in States /\ Reject \in States
      /\ At("leading") \in States
  BY StateKinds DEF Plain, Reject
<1>2. IsEdge(GenericByte(b), b)
  BY <1>1, GoIsEdge DEF GenericByte
<1>3. IsEdge(FirstByte(b), b)
  <2>1. \A j \in DOMAIN Names : Len(Names[j]) \in Nat /\ 1 <= Len(Names[j])
    BY FramingAssumption
  <2>2. \A j \in DOMAIN Names : <<"name", j, 1>> \in States
    BY <2>1, StateKinds
  <2> DEFINE matching == {j \in DOMAIN Names : Names[j][1] = Folded(b)}
             chosen == CHOOSE j \in matching : TRUE
  <2>3. CASE matching # {}
    <3>1. chosen \in matching
      BY <2>3
    <3>2. <<"name", chosen, 1>> \in States
      BY <2>2, <3>1
    <3>3. FirstByte(b) = Go(<<"name", chosen, 1>>)
      BY <2>3 DEF FirstByte
    <3>4. QED
      BY <3>2, <3>3, GoIsEdge
  <2>4. CASE matching = {}
    BY <2>4, <1>1, GoIsEdge DEF FirstByte
  <2>5. QED
    BY <2>3, <2>4
<1>4. ASSUME NEW j \in DOMAIN Names, NEW n \in 1..Len(Names[j])
      PROVE  IsEdge(NameByte(j, n, b), b)
  <2>1. Len(Names[j]) \in Nat
    BY FramingAssumption
  <2>2. n < Len(Names[j]) => <<"name", j, n + 1>> \in States
    BY <2>1, StateKinds
  <2>3. IsEdge(GoWith(At("leading"), "LENGTH"), b)
    BY <1>1 DEF IsEdge, GoWith
  <2>4. QED
    BY <1>1, <1>2, <2>2, <2>3, GoIsEdge DEF NameByte
<1>5. QED
  BY <1>2, <1>3, <1>4

\* The whole table.
LEMMA TableIsClosed ==
    ASSUME NEW q \in States, NEW b PROVE IsEdge(Edge(q, b), b)
<1>1. /\ \A w \in Plain : At(w) \in States
      /\ Reject \in States /\ DONE \in States
      /\ \A r \in States : IsEdge(Go(r), b)
      /\ IsEdge(GoWith(At("target"), "TARGET"), b)
      /\ b \in Digits => IsEdge(GoWith(At("digits"), "DIGIT"), b)
  <2>1. At("target") \in States /\ At("digits") \in States
    BY StateKinds DEF Plain
  <2>2. QED
    BY <2>1, StateKinds, GoIsEdge DEF Plain, Reject, DONE, IsEdge, GoWith
<1>2. CASE \E w \in Plain : q = At(w)
  <2>1. PICK w \in Plain : q = At(w)
    BY <1>2
  <2>2. q[1] = w /\ w \notin {"method", "version", "name"}
    BY <2>1 DEF At, Plain
  <2>3. /\ At("target") \in States /\ At("version_cr") \in States
        /\ At("version_lf") \in States /\ At("headers") \in States
        /\ At("end_lf") \in States /\ At("value") \in States /\ At("value_lf") \in States
        /\ At("leading") \in States /\ At("trailing") \in States
    BY <1>1 DEF Plain
  <2>4. <<"version", 0, 0>> \in States
    BY FramingAssumption, StateKinds
  <2>5. IsEdge(GenericByte(b), b) /\ IsEdge(FirstByte(b), b)
    BY NameEdges
  <2>6. CASE w \in {"done", "reject"}
    BY <1>1, <2>2, <2>6 DEF Edge
  <2>7. CASE w \in {"target_start", "target"}
    BY <1>1, <2>2, <2>3, <2>4, <2>7 DEF Edge
  <2>8. CASE w \in {"version_cr", "version_lf", "value_lf", "end_lf"}
    BY <1>1, <2>2, <2>3, <2>8 DEF Edge
  <2>9. CASE w \in {"headers", "generic_name", "value"}
    BY <1>1, <2>2, <2>3, <2>5, <2>9 DEF Edge
  <2>10. CASE w \in {"leading", "digits", "trailing"}
    BY <1>1, <2>2, <2>3, <2>10 DEF Edge
  <2>11. QED
    BY <2>6, <2>7, <2>8, <2>9, <2>10 DEF Plain
<1>3. CASE \E n \in 0..MaxMethod : q = <<"method", 0, n>>
  <2>1. PICK n \in 0..MaxMethod : q = <<"method", 0, n>>
    BY <1>3
  <2>2. q[1] = "method" /\ q[3] = n /\ At("target_start") \in States
    BY <1>1, <2>1 DEF Plain
  <2>3. n < MaxMethod => <<"method", 0, n + 1>> \in States
    BY FramingAssumption, StateKinds
  <2>4. QED
    BY <1>1, <2>2, <2>3 DEF Edge
<1>4. CASE \E n \in 0..Len(Version) : q = <<"version", 0, n>>
  <2>1. PICK n \in 0..Len(Version) : q = <<"version", 0, n>>
    BY <1>4
  <2>2. q[1] = "version" /\ q[3] = n /\ At("version_cr") \in States
    BY <1>1, <2>1 DEF Plain
  <2>3. n < Len(Version) => <<"version", 0, n + 1>> \in States
    BY FramingAssumption, StateKinds
  <2>4. QED
    BY <1>1, <2>2, <2>3 DEF Edge
<1>5. CASE \E j \in DOMAIN Names : \E n \in 1..Len(Names[j]) : q = <<"name", j, n>>
  <2>1. PICK j \in DOMAIN Names : \E n \in 1..Len(Names[j]) : q = <<"name", j, n>>
    BY <1>5
  <2>2. PICK n \in 1..Len(Names[j]) : q = <<"name", j, n>>
    BY <2>1
  <2>3. q[1] = "name" /\ q[2] = j /\ q[3] = n
    BY <2>2
  <2>4. Edge(q, b) = NameByte(j, n, b)
    BY <2>3 DEF Edge
  <2>5. QED
    BY <2>4, NameEdges
<1>6. QED
  BY <1>2, <1>3, <1>4, <1>5, StateKinds

-----------------------------------------------------------------------------
(* The connection. *)

\* The streams and the segments have lengths.
LEMMA Lengths ==
    /\ \A w \in Streams : Len(w) \in Nat
    /\ Len(Segments) \in Nat \ {0} /\ \A i \in 1..Len(Segments) : Segments[i] \in Nat
BY TransportAssumption

\* start leaves the buffer empty.
LEMMA InitTyped == Init => TypeOK
<1> SUFFICES ASSUME Init PROVE TypeOK
  OBVIOUS
<1>1. START \in States
  BY FramingAssumption, StateKinds DEF START
<1>2. 1 \in 1..Len(Segments) /\ Segments[1] \in Nat
  BY Lengths
<1>3. QED
  BY <1>1, <1>2, Lengths, TransportAssumption, FramingAssumption
  DEF Init, TypeOK, Receiving

\* Steps that only move on, close, or let time pass.
LEMMA PlainStep ==
    ASSUME TypeOK, UNCHANGED <<client, frame, response>>,
           pc' \in Receiving \cup Sending \cup {"parse", "handle", "after", "closed"},
           cause' \in {"none", "answered", "malformed", "expired", "ended", "refused"},
           clock' \in Nat
    PROVE  TypeOK'
BY DEF TypeOK, client, frame, response

\* recvfrom stores no more than there is room for.
LEMMA ReadStep ==
    ASSUME TypeOK, ReadBytes
    PROVE  TypeOK'
<1>1. have \in 0..Capacity /\ arrived \in Nat /\ Capacity \in Nat /\ scan \in 0..have
  BY Lengths, TransportAssumption DEF TypeOK
<1>2. have' \in 0..Capacity /\ have' <= arrived /\ have <= have'
  BY <1>1 DEF ReadBytes, Timely, Least
<1>3. scan \in 0..have' /\ pc' \in {"body", "scan"}
  BY <1>1, <1>2 DEF ReadBytes
<1>4. QED
  BY <1>2, <1>3 DEF TypeOK, ReadBytes, Receiving, client, response

\* One byte of the header keeps every counter within what it counts.
LEMMA ScanStep ==
    ASSUME TypeOK, ScanByte
    PROVE  TypeOK'
<1> DEFINE b == wire[scan + 1]
           e == Edge(state, b)
<1>1. CASE Rejected(e, b)
  <2>1. Close("malformed")
    BY <1>1 DEF ScanByte
  <2>2. QED
    BY <2>1, PlainStep DEF Close, TypeOK
<1>2. CASE ~Rejected(e, b)
  <2> HIDE DEF b, e
  <2>1. /\ scan' = scan + 1 /\ scan < have /\ state' = e.next
        /\ path' = IF e.action = "TARGET" THEN path + 1 ELSE path
        /\ seen' = IF e.action = "LENGTH" THEN 1 ELSE seen
        /\ length' = IF e.action = "DIGIT" THEN length * 10 + Value(b) ELSE length
        /\ total' = IF e.next = DONE THEN scan + 1 + length ELSE total
        /\ pc' = IF e.next = DONE THEN "body" ELSE "scan"
        /\ UNCHANGED <<client, cause, clock, have, response>>
    BY <1>2 DEF ScanByte, b, e
  <2>2. IsEdge(e, b)
    BY TableIsClosed DEF TypeOK, e
  <2>3. /\ scan \in Nat /\ have \in Nat /\ length \in 0..Capacity /\ Capacity \in Nat
        /\ path \in 0..MaxTarget /\ MaxTarget \in Nat
    BY TransportAssumption, FramingAssumption DEF TypeOK
  <2>4. path' \in 0..MaxTarget
    BY <1>2, <2>1, <2>3 DEF Rejected
  <2>5. length' \in 0..Capacity
    <3>1. CASE e.action = "DIGIT"
      <4>1. Value(b) \in Nat
        BY <2>2, <3>1 DEF IsEdge, Digits, Value
      <4>2. length * 10 + Value(b) \in Nat /\ ~(length * 10 + Value(b) > Capacity)
        BY <1>2, <2>3, <3>1, <4>1 DEF Rejected
      <4>3. QED
        BY <2>1, <2>3, <3>1, <4>2
    <3>2. CASE e.action # "DIGIT"
      BY <2>1, <2>3, <3>2
    <3>3. QED
      BY <3>1, <3>2
  <2>6. total' \in 0..Capacity
    BY <1>2, <2>1, <2>3 DEF Rejected, TypeOK
  <2>7. scan' \in 0..have /\ state' \in States /\ seen' \in {0, 1}
        /\ pc' \in {"body", "scan"}
    BY <2>1, <2>2, <2>3 DEF IsEdge, TypeOK
  <2>8. QED
    BY <2>1, <2>4, <2>5, <2>6, <2>7 DEF TypeOK, Receiving, client, response
<1>3. QED
  BY <1>1, <1>2

\* What is left to send never exceeds the segment, nor is there a segment beyond
\* the last one.
LEMMA SendStep ==
    ASSUME TypeOK, StartResponse \/ SendBytes \/ NextSegment
    PROVE  TypeOK'
<1>1. /\ UNCHANGED <<client, cause, frame>>
      /\ pc' \in Sending /\ clock' \in Nat
  BY TransportAssumption DEF StartResponse, SendBytes, NextSegment, Timely, TypeOK, Sending
<1>2. seg' \in 1..Len(Segments) /\ left' \in 0..Segments[seg'] /\ sent' \in Nat
  <2>1. /\ seg \in 1..Len(Segments) /\ left \in Nat /\ left <= Segments[seg] /\ sent \in Nat
        /\ Len(Segments) \in Nat \ {0}
    BY Lengths DEF TypeOK
  <2>2. CASE StartResponse
    BY <2>1, <2>2, Lengths DEF StartResponse
  <2>3. CASE SendBytes
    <3>1. PICK n \in 1..left : sent' = sent + n /\ left' = left - n /\ seg' = seg
      BY <2>3 DEF SendBytes
    <3>2. QED
      BY <2>1, <3>1, Lengths
  <2>4. CASE NextSegment
    BY <2>1, <2>4, Lengths DEF NextSegment
  <2>5. QED
    BY <2>2, <2>3, <2>4
<1>3. QED
  BY <1>1, <1>2 DEF TypeOK, client, frame

\* The client sends, leaves, or time passes.
LEMMA OutsideStep ==
    ASSUME TypeOK, Deliver \/ PeerLeaves \/ Tick
    PROVE  TypeOK'
<1>1. CASE Deliver
  <2>1. arrived' \in 0..Len(wire) /\ have <= arrived'
    BY <1>1, Lengths DEF Deliver, TypeOK
  <2>2. QED
    BY <1>1, <2>1 DEF Deliver, TypeOK, frame, response
<1>2. CASE PeerLeaves
  BY <1>2 DEF PeerLeaves, TypeOK, frame, response
<1>3. CASE Tick
  BY <1>3, PlainStep DEF Tick, TypeOK
<1>4. QED
  BY <1>1, <1>2, <1>3

-----------------------------------------------------------------------------
\* Each of the calls and tests keeps the buffer and its counters in bounds.
LEMMA StepTyped == TypeOK /\ [Next]_vars => TypeOK'
<1> SUFFICES ASSUME TypeOK, [Next]_vars PROVE TypeOK'
  OBVIOUS
<1>1. CASE UNCHANGED vars
  BY <1>1 DEF vars, client, frame, response, TypeOK
<1>2. CASE ReadBytes \/ ScanByte
  BY <1>2, ReadStep, ScanStep
<1>3. CASE StartResponse \/ SendBytes \/ NextSegment
  BY <1>3, SendStep
<1>4. CASE Deliver \/ PeerLeaves \/ Tick
  BY <1>4, OutsideStep
<1>5. CASE \/ \E where \in {"read", "wait_read", "framed", "send", "wait_send"} : Expired(where)
           \/ ReadFull \/ ReadEnds \/ SendFails \/ ClientAbort \/ Finish
  <2>1. \E why \in {"expired", "malformed", "ended", "refused", "answered"} : Close(why)
    BY <1>5 DEF Expired, ReadFull, ReadEnds, SendFails, ClientAbort, Finish
  <2>2. QED
    BY <2>1, PlainStep DEF Close, TypeOK
<1>6. CASE \/ ReadBlocks \/ ReadWakes \/ ScanMore \/ CheckBody \/ Framed
           \/ SendBlocks \/ SendWakes \/ SendDone
  <2>1. \E where \in Receiving \cup Sending \cup {"parse", "after"} : Goto(where)
    BY <1>6 DEF ReadBlocks, ReadWakes, ScanMore, CheckBody, Framed, SendBlocks, SendWakes,
                SendDone, Receiving, Sending
  <2>2. QED
    BY <2>1, PlainStep DEF Goto, TypeOK
<1>7. CASE ParseRequest
  <2>1. Goto("handle") \/ Close("malformed")
    BY <1>7 DEF ParseRequest
  <2>2. QED
    BY <2>1, PlainStep DEF Goto, Close, TypeOK
<1>8. QED
  BY <1>1, <1>2, <1>3, <1>4, <1>5, <1>6, <1>7 DEF Next, Step, Host, Ended

\* Whatever the client sends, and however the reads cut it into pieces, no byte is
\* stored or scanned beyond the receive buffer or what has arrived, and neither a
\* header nor a body length exceeds the buffer it is held against.
THEOREM BufferBounded == Spec => []TypeOK
BY InitTyped, StepTyped, PTL DEF Spec

-----------------------------------------------------------------------------
(* Induction, and sums. *)

\* What holds of 0 and of every successor holds of every number.
LEMMA Induction ==
    ASSUME NEW B, 0 \in B, \A m \in Nat : m \in B => m + 1 \in B
    PROVE  \A m \in Nat : m \in B
<1> SUFFICES ASSUME NEW n \in Nat, n \notin B PROVE FALSE
  OBVIOUS
<1> DEFINE S == Nat \ B
<1>1. S \in SUBSET Nat /\ S # {}
  OBVIOUS
<1> HIDE DEF S
<1>2. PICK m \in S : \A k \in S : <<k, m>> \notin OpToRel(<, Nat)
  BY <1>1, WFMin, NatLessThanWellFounded
<1>3. m \in Nat /\ m \notin B /\ m # 0
  BY DEF S
<1>4. m - 1 \in Nat /\ m - 1 < m /\ (m - 1) + 1 = m
  BY <1>3
<1>5. m - 1 \in S
  BY <1>3, <1>4 DEF S
<1>6. QED
  BY <1>2, <1>3, <1>4, <1>5 DEF OpToRel

\* The sizes of the sets of segments below n, whatever order they are added in.
Sums(n, G) ==
    /\ G \in [SUBSET (1..n) -> Nat] /\ G[{}] = 0
    /\ \A s \in SUBSET (1..n) : \A x \in s : G[s] = Segments[x] + G[s \ {x}]

LEMMA SumsExist ==
    \A n \in Nat : n <= Len(Segments) => \E G : Sums(n, G)
<1> DEFINE B == {n \in Nat : n <= Len(Segments) => \E G : Sums(n, G)}
<1>1. 0 \in B
  <2> DEFINE G == [s \in SUBSET (1..0) |-> 0]
  <2>1. SUBSET (1..0) = {{}}
    OBVIOUS
  <2>2. Sums(0, G)
    BY <2>1 DEF Sums
  <2>3. QED
    BY <2>2
<1>2. ASSUME NEW m \in Nat, m \in B PROVE m + 1 \in B
  <2> SUFFICES ASSUME m + 1 <= Len(Segments) PROVE \E G : Sums(m + 1, G)
    OBVIOUS
  <2>1. PICK F : Sums(m, F)
    BY <1>2, Lengths
  <2>2. PICK z \in Nat : z = Segments[m + 1]
    BY Lengths
  <2> DEFINE G == [s \in SUBSET (1..(m + 1)) |-> F[s \ {m + 1}] + (IF m + 1 \in s THEN z ELSE 0)]
  <2>3. \A s \in SUBSET (1..(m + 1)) : s \ {m + 1} \in SUBSET (1..m)
    OBVIOUS
  <2>4. \A s \in SUBSET (1..m) : F[s] \in Nat
    BY <2>1 DEF Sums
  <2>5. G \in [SUBSET (1..(m + 1)) -> Nat]
    BY <2>2, <2>3, <2>4
  <2>6. G[{}] = 0
    <3>1. {} \ {m + 1} = {} /\ m + 1 \notin {} /\ {} \in SUBSET (1..(m + 1))
      OBVIOUS
    <3>2. F[{}] = 0
      BY <2>1 DEF Sums
    <3>3. QED
      BY <3>1, <3>2
  <2>7. ASSUME NEW s \in SUBSET (1..(m + 1)), NEW x \in s
        PROVE  G[s] = Segments[x] + G[s \ {x}]
    <3>1. PICK t \in SUBSET (1..(m + 1)) : t = s \ {x}
      OBVIOUS
    <3>2. CASE x = m + 1
      <4>1. t \ {m + 1} = s \ {m + 1} /\ m + 1 \notin t /\ m + 1 \in s
        BY <3>1, <3>2
      <4>2. G[s] = F[s \ {m + 1}] + z /\ G[t] = F[s \ {m + 1}] + 0
        BY <4>1
      <4>3. F[s \ {m + 1}] \in Nat
        BY <2>3, <2>4
      <4>4. QED
        BY <2>2, <3>1, <3>2, <4>2, <4>3
    <3>3. CASE x # m + 1
      <4>1. PICK u \in SUBSET (1..m) : u = s \ {m + 1}
        BY <2>3
      <4>2. x \in u /\ t \ {m + 1} = u \ {x} /\ (m + 1 \in t <=> m + 1 \in s)
        BY <3>1, <3>3, <4>1
      <4>3. F[u] = Segments[x] + F[u \ {x}]
        BY <2>1, <4>2 DEF Sums
      <4>4. PICK c \in Nat : c = IF m + 1 \in s THEN z ELSE 0
        BY <2>2
      <4>5. G[s] = F[u] + c /\ G[t] = F[u \ {x}] + c
        BY <4>1, <4>2, <4>4
      <4>6. F[u \ {x}] \in Nat /\ Segments[x] \in Nat
        BY <2>4, Lengths
      <4>7. QED
        BY <3>1, <4>3, <4>5, <4>6
    <3>4. QED
      BY <3>2, <3>3
  <2> HIDE DEF G
  <2>8. Sums(m + 1, G)
    BY <2>5, <2>6, <2>7 DEF Sums
  <2>9. QED
    BY <2>8
<1>3. QED
  <2> HIDE DEF B
  <2>1. \A n \in Nat : n \in B
    BY <1>1, <1>2, Induction
  <2>2. QED
    BY <2>1 DEF B

\* The bytes of the segments before the k-th.
Before(k) == MapThenSumSet(LAMBDA i : Segments[i], 1..(k - 1))

LEMMA SegmentsAdd ==
    /\ Before(1) = 0
    /\ \A k \in 1..Len(Segments) :
          Before(k) \in Nat /\ (k < Len(Segments) => Before(k + 1) = Before(k) + Segments[k])
<1>1. PICK G : Sums(Len(Segments), G)
  BY SumsExist, Lengths
<1>2. ASSUME NEW k \in 1..(Len(Segments) + 1) PROVE Before(k) = G[1..(k - 1)]
  <2> DEFINE S == 1..(k - 1)
             Picked(s) == CHOOSE x \in s : TRUE
             Equation(f) == f = [s \in SUBSET S |->
                                   IF s = {} THEN 0 ELSE Segments[Picked(s)] + f[s \ {Picked(s)}]]
  <2>1. S \in SUBSET (1..Len(Segments)) /\ IsFiniteSet(S)
    <3>1. k - 1 \in Int /\ 1 \in Int
      BY Lengths
    <3>2. IsFiniteSet(1..(k - 1))
      BY <3>1, FS_Interval
    <3>3. 1..(k - 1) \in SUBSET (1..Len(Segments))
      BY Lengths
    <3>4. QED
      BY <3>2, <3>3
  <2>2. \E f : Equation(f)
    <3> DEFINE f == [s \in SUBSET S |-> G[s]]
    <3>1. ASSUME NEW s \in SUBSET S, s # {} PROVE f[s] = Segments[Picked(s)] + f[s \ {Picked(s)}]
      <4>1. Picked(s) \in s
        BY <3>1
      <4>2. s \in SUBSET (1..Len(Segments)) /\ s \ {Picked(s)} \in SUBSET S
        BY <2>1
      <4> HIDE DEF Picked
      <4>3. QED
        BY <1>1, <4>1, <4>2 DEF Sums
    <3>2. {} \in SUBSET S => f[{}] = 0
      BY <1>1 DEF Sums
    <3> HIDE DEF Picked
    <3>3. Equation(f)
      BY <3>1, <3>2
    <3>4. QED
      BY <3>3
  <2>3. PICK f : Equation(f) /\ Before(k) = f[S]
    BY <2>2 DEF Before, MapThenSumSet, MapThenFoldSet
  <2> HIDE DEF Picked
  <2> DEFINE B == {m \in Nat : \A s \in SUBSET S : Cardinality(s) = m => f[s] = G[s]}
  <2>4. 0 \in B
    <3>1. \A s \in SUBSET S : Cardinality(s) = 0 => s = {}
      BY <2>1, FS_Subset, FS_EmptySet
    <3>2. f[{}] = 0
      BY <2>3
    <3>3. QED
      BY <1>1, <3>1, <3>2 DEF Sums
  <2>5. ASSUME NEW m \in Nat, m \in B PROVE m + 1 \in B
    <3> SUFFICES ASSUME NEW s \in SUBSET S, Cardinality(s) = m + 1 PROVE f[s] = G[s]
      OBVIOUS
    <3>1. IsFiniteSet(s) /\ s # {}
      <4>1. IsFiniteSet(s)
        BY <2>1, FS_Subset
      <4>2. m + 1 # 0
        OBVIOUS
      <4>3. QED
        BY <4>1, <4>2, FS_EmptySet
    <3>2. PICK x \in s : x = Picked(s)
      BY <3>1 DEF Picked
    <3>3. Cardinality(s \ {x}) = m
      BY <3>1, FS_RemoveElement
    <3>4. s \ {x} \in SUBSET S /\ f[s \ {x}] = G[s \ {x}]
      BY <2>5, <3>3
    <3>5. f[s] = Segments[x] + f[s \ {x}]
      BY <2>3, <3>1, <3>2
    <3>6. G[s] = Segments[x] + G[s \ {x}]
      BY <1>1, <2>1 DEF Sums
    <3>7. QED
      BY <3>4, <3>5, <3>6
  <2> HIDE DEF B
  <2>6. \A m \in Nat : m \in B
    BY <2>4, <2>5, Induction
  <2>7. Cardinality(S) \in Nat
    BY <2>1, FS_CardinalityType
  <2>8. QED
    BY <2>3, <2>6, <2>7 DEF B
<1>3. Before(1) = 0
  <2>1. 1..(1 - 1) = {}
    OBVIOUS
  <2>2. Before(1) = G[1..(1 - 1)]
    BY <1>2, Lengths
  <2>3. QED
    BY <1>1, <2>1, <2>2 DEF Sums
<1>4. ASSUME NEW k \in 1..Len(Segments)
      PROVE  Before(k) \in Nat /\ (k < Len(Segments) => Before(k + 1) = Before(k) + Segments[k])
  <2>1. /\ 1..(k - 1) \in SUBSET (1..Len(Segments)) /\ 1..k \in SUBSET (1..Len(Segments))
        /\ k \in 1..k /\ (1..k) \ {k} = 1..(k - 1) /\ (k + 1) - 1 = k
    BY Lengths
  <2>2. G[1..k] = Segments[k] + G[1..(k - 1)] /\ G[1..(k - 1)] \in Nat
    BY <1>1, <2>1 DEF Sums
  <2>3. Before(k) = G[1..(k - 1)]
    BY <1>2, Lengths
  <2>4. k < Len(Segments) => Before(k + 1) = G[1..k]
    BY <1>2, <2>1, Lengths
  <2>5. Segments[k] \in Nat
    BY Lengths
  <2>6. QED
    BY <2>2, <2>3, <2>4, <2>5
<1>5. QED
  BY <1>3, <1>4

-----------------------------------------------------------------------------
(* What the client gets. *)

\* ResponseIsExact, and what it needs: nothing happens to a closed connection, and
\* the response is over only in its last segment.
Exact ==
    /\ \A k \in 1..Len(Segments) : k = seg =>
          /\ pc \in Sending \cup {"after"} => sent = Before(k) + (Segments[k] - left)
          /\ pc = "after" \/ cause = "answered" => sent = Before(k) + Segments[k] /\ k = Len(Segments)
    /\ cause # "none" => pc = "closed"

LEMMA StepExact == TypeOK /\ Exact /\ [Next]_vars => Exact'
<1> SUFFICES ASSUME TypeOK, Exact, [Next]_vars PROVE Exact'
  OBVIOUS
<1>1. /\ seg \in 1..Len(Segments) /\ left \in 0..Segments[seg] /\ sent \in Nat
      /\ Segments[seg] \in Nat /\ Before(seg) \in Nat /\ Len(Segments) \in Nat
  BY Lengths, SegmentsAdd DEF TypeOK
<1>2. ASSUME UNCHANGED <<pc, cause, response>> PROVE Exact'
  BY <1>2 DEF Exact, response, Sending
<1>3. ASSUME NEW why \in {"expired", "malformed", "ended", "refused"}, Close(why) PROVE Exact'
  <2>1. pc' = "closed" /\ cause' = why /\ UNCHANGED response
    BY <1>3 DEF Close
  <2>2. QED
    BY <2>1, <1>3 DEF Exact, response, Sending
<1>4. ASSUME NEW where \in Receiving \cup {"parse", "handle"}, pc \notin {"closed"},
             pc' = where, UNCHANGED <<cause, response>>
      PROVE  Exact'
  BY <1>4 DEF Exact, Receiving, Sending, response
<1>5. CASE StartResponse
  <2>1. /\ pc' = "send" /\ cause' = cause /\ seg' = 1 /\ left' = Segments[1] /\ sent' = 0
        /\ pc = "handle" /\ Segments[1] \in Nat
    BY <1>5, Lengths DEF StartResponse
  <2>2. cause = "none"
    BY <2>1 DEF Exact
  <2>3. sent' = Before(1) + (Segments[1] - left')
    BY <2>1, SegmentsAdd
  <2>4. QED
    BY <2>1, <2>2, <2>3 DEF Exact, Sending
<1>6. CASE SendBytes
  <2>1. PICK n \in 1..left : sent' = sent + n /\ left' = left - n
    BY <1>6 DEF SendBytes
  <2>2. pc = "send" /\ UNCHANGED <<pc, cause, seg>>
    BY <1>6 DEF SendBytes, Timely
  <2>3. cause = "none" /\ sent = Before(seg) + (Segments[seg] - left)
    BY <1>1, <2>2 DEF Exact, Sending
  <2>4. sent' = Before(seg) + (Segments[seg] - left')
    BY <1>1, <2>1, <2>3
  <2>5. QED
    BY <2>2, <2>3, <2>4 DEF Exact, Sending
<1>7. CASE NextSegment
  <2>1. /\ pc = "send" /\ UNCHANGED <<pc, cause, sent>> /\ left = 0 /\ seg < Len(Segments)
        /\ seg' = seg + 1 /\ left' = Segments[seg + 1]
    BY <1>7 DEF NextSegment, Timely
  <2>2. cause = "none" /\ sent = Before(seg) + (Segments[seg] - left)
    BY <1>1, <2>1 DEF Exact, Sending
  <2>3. PICK k \in 1..Len(Segments) : k = seg + 1 /\ Before(k) = Before(seg) + Segments[seg]
    BY <1>1, <2>1, SegmentsAdd
  <2>4. Segments[k] \in Nat /\ sent = Before(k) + (Segments[k] - Segments[k])
    BY <1>1, <2>1, <2>2, <2>3, Lengths
  <2>5. QED
    BY <2>1, <2>2, <2>3, <2>4 DEF Exact, Sending
<1>8. CASE SendDone
  <2>1. pc = "send" /\ pc' = "after" /\ left = 0 /\ seg = Len(Segments) /\ UNCHANGED <<cause, response>>
    BY <1>8 DEF SendDone, Timely, Goto
  <2>2. sent = Before(seg) + (Segments[seg] - left) /\ cause = "none"
    BY <1>1, <2>1 DEF Exact, Sending
  <2>3. QED
    BY <1>1, <2>1, <2>2 DEF Exact, Sending, response
<1>9. CASE Finish
  <2>1. pc = "after" /\ pc' = "closed" /\ cause' = "answered" /\ UNCHANGED response
    BY <1>9 DEF Finish, Close
  <2>2. QED
    BY <2>1 DEF Exact, Sending, response
<1>10. CASE SendBlocks \/ SendWakes
  <2>1. pc \in Sending /\ pc' \in Sending /\ UNCHANGED <<cause, response>>
    BY <1>10 DEF SendBlocks, SendWakes, Timely, Goto, Sending
  <2>2. QED
    BY <2>1 DEF Exact, Sending, response
<1>11. CASE \/ \E where \in {"read", "wait_read", "framed", "send", "wait_send"} : Expired(where)
            \/ ReadFull \/ ReadEnds \/ SendFails \/ ClientAbort
  <2>1. \E why \in {"expired", "malformed", "ended", "refused"} : Close(why)
    BY <1>11 DEF Expired, ReadFull, ReadEnds, SendFails, ClientAbort
  <2>2. QED
    BY <2>1, <1>3
<1>12. CASE ReadBlocks \/ ReadWakes \/ ScanMore \/ CheckBody \/ Framed
  <2>1. pc # "closed" /\ \E where \in Receiving \cup {"parse"} : Goto(where)
    BY <1>12 DEF ReadBlocks, ReadWakes, ScanMore, CheckBody, Framed, Receiving, Timely
  <2>2. QED
    BY <2>1, <1>4 DEF Goto
<1>13. CASE ReadBytes \/ ScanByte
  <2>1. \/ Close("malformed")
        \/ pc # "closed" /\ pc' \in Receiving /\ UNCHANGED <<cause, response>>
    BY <1>13 DEF ReadBytes, ScanByte, Timely, Receiving
  <2>2. QED
    BY <2>1, <1>3, <1>4
<1>14. CASE ParseRequest
  <2>1. pc = "parse" /\ (Goto("handle") \/ Close("malformed"))
    BY <1>14 DEF ParseRequest
  <2>2. QED
    BY <2>1, <1>3, <1>4 DEF Goto
<1>15. CASE Deliver \/ PeerLeaves \/ Tick \/ UNCHANGED vars
  BY <1>15, <1>2 DEF Deliver, PeerLeaves, Tick, vars
<1>16. QED
  BY <1>5, <1>6, <1>7, <1>8, <1>9, <1>10, <1>11, <1>12, <1>13, <1>14, <1>15
  DEF Next, Step, Host, Ended

\* However little the socket takes at a time, the bytes the kernel has taken are
\* those of the finished segments and of the current one, and a connection is
\* answered only when the whole response is out.
THEOREM ResponseExact == Spec => []ResponseIsExact
<1>1. Init => Exact
  BY DEF Init, Exact, Sending
<1>2. TypeOK /\ Exact => ResponseIsExact
  BY Lengths DEF TypeOK, Exact, ResponseIsExact, Before
<1>3. QED
  BY InitTyped, StepTyped, StepExact, <1>1, <1>2, PTL DEF Spec

-----------------------------------------------------------------------------
(* What a request is, position by position.  w is a sequence of bytes, p the  *)
(* first position of a line, c that of a colon and i that of a line's LF.     *)

Span(w, p, r, S) == \A k \in p..r : w[k] \in S

\* The request line: a space at a, a space at b, an LF at f.
MethodAt(w, a) == a - 1 \in 1..MaxMethod /\ Span(w, 1, a - 1, TokenBytes) /\ w[a] = "SP"
TargetAt(w, a, b) ==
    /\ b - a - 1 \in 1..MaxTarget
    /\ w[a + 1] = "/" /\ Span(w, a + 1, b - 1, TargetBytes) /\ w[b] = "SP"
Opening(w, a, b) == MethodAt(w, a) /\ TargetAt(w, a, b)
VersionAt(w, b, m) == \A k \in 1..m : w[b + k] = Version[k]
RequestLineAt(w, f) ==
    \E a, b \in 1..f :
        /\ Opening(w, a, b) /\ VersionAt(w, b, Len(Version))
        /\ f = b + Len(Version) + 3
        /\ w[f - 2] \in {"0", "1"} /\ w[f - 1] = "CR" /\ w[f] = "LF"

\* A line after the first.
LineAt(w, p, i) ==
    /\ p \in 2..i
    /\ w[p - 1] = "LF" /\ w[i] = "LF" /\ \A k \in p..(i - 1) : w[k] # "LF"

NameAt(w, p, c) == p < c /\ Span(w, p, c - 1, TokenBytes) /\ w[c] = ":"
Begins(w, p, m, j) == m <= Len(Names[j]) /\ \A k \in 1..m : Folded(w[p + k - 1]) = Names[j][k]
Called(w, p, c, j) == c - p = Len(Names[j]) /\ Begins(w, p, c - p, j)
Unreserved(w, p, c) == \A j \in DOMAIN Names : ~Called(w, p, c, j)

HeaderAt(w, p, c, i) ==
    NameAt(w, p, c) /\ c <= i - 2 /\ Span(w, c + 1, i - 2, ValueBytes) /\ w[i - 1] = "CR"
PlainLine(w, p, i) == \E c \in p..i : HeaderAt(w, p, c, i) /\ Unreserved(w, p, c)

\* Digits from x to y between blanks.
NumberAt(w, c, x, y, i) ==
    /\ c < x /\ x <= y /\ y <= i - 2
    /\ Span(w, c + 1, x - 1, Blanks) /\ Span(w, x, y, Digits) /\ Span(w, y + 1, i - 2, Blanks)
LengthLine(w, p, i, v) ==
    \E c, x, y \in p..i :
        /\ HeaderAt(w, p, c, i) /\ Called(w, p, c, 1)
        /\ NumberAt(w, c, x, y, i) /\ v = Decimal(SubSeq(w, x, y))

\* The lines between f and g are headers without a reserved name, but for the one
\* that ends at l.
Lines(w, f, g, l) ==
    \A i \in (f + 1)..g : w[i] = "LF" /\ i # l => \E p \in 2..i : LineAt(w, p, i) /\ PlainLine(w, p, i)

\* At most one of them has the length v (0 if none has).
Counted(w, f, g, count, v) ==
    \/ count = 0 /\ v = 0 /\ Lines(w, f, g, 0)
    \/ /\ count = 1
       /\ \E l \in (f + 1)..g : /\ \E p \in 2..l : LineAt(w, p, l) /\ LengthLine(w, p, l, v)
                                /\ Lines(w, f, g, l)

\* A request whose header ends at e and whose body has v bytes.
RequestAt(w, e, v) ==
    /\ w[e - 3] = "CR" /\ w[e - 2] = "LF" /\ w[e - 1] = "CR" /\ w[e] = "LF"
    /\ \E f \in 1..(e - 2) : RequestLineAt(w, f) /\ \E count \in {0, 1} : Counted(w, f, e - 2, count, v)

-----------------------------------------------------------------------------
(* Bytes and names. *)

\* What the classes of bytes exclude.
LEMMA ByteClasses ==
    /\ \A b \in TokenBytes : b \notin {"SP", "TAB", ":", "CR", "LF", "/"}
    /\ \A b \in TargetBytes : b \notin {"SP", "CR", "LF"}
    /\ \A b \in ValueBytes : b \notin {"CR", "LF"}
    /\ \A b \in Digits : b \in ValueBytes /\ b \notin Blanks /\ b \notin {"CR", "LF"}
    /\ \A b \in Blanks : b \in ValueBytes /\ b \notin {"CR", "LF"}
    /\ \A b : Folded(b) \in Letters => b \in TokenBytes
BY DEF TokenBytes, TargetBytes, ValueBytes, Digits, Blanks, Letters, Capitals, Bytes, Folded

\* A reserved name is a sequence of letters.
LEMMA NameLetters ==
    /\ Len(Names) \in Nat /\ 1 \in DOMAIN Names
    /\ \A j \in DOMAIN Names :
          /\ Len(Names[j]) \in Nat /\ 1 <= Len(Names[j])
          /\ \A k \in 1..Len(Names[j]) : Names[j][k] \in Letters
BY FramingAssumption

\* The version has no space and no line break.
LEMMA VersionBytes ==
    /\ Len(Version) \in Nat
    /\ \A k \in 1..Len(Version) : Version[k] \notin {"SP", "CR", "LF"}
    /\ MaxMethod \in Nat /\ MaxTarget \in Nat
BY FramingAssumption

\* The bytes that a reserved name begins with are those of a token, and no two
\* reserved names begin alike.
LEMMA BeginsToken ==
    ASSUME NEW w, NEW p \in Nat, NEW m \in Nat, NEW j \in DOMAIN Names, Begins(w, p, m, j)
    PROVE  Span(w, p, p + m - 1, TokenBytes)
<1> SUFFICES ASSUME NEW k \in p..(p + m - 1) PROVE w[k] \in TokenBytes
  BY DEF Span
<1>1. PICK i \in 1..m : i = k - p + 1
  OBVIOUS
<1>2. p + i - 1 = k /\ i \in 1..Len(Names[j])
  BY <1>1, NameLetters DEF Begins
<1>3. Folded(w[p + i - 1]) = Names[j][i] /\ Names[j][i] \in Letters
  BY <1>1, <1>2, NameLetters DEF Begins
<1>4. QED
  BY <1>2, <1>3, ByteClasses

\* A name begins like one reserved name at most.
LEMMA BeginsOne ==
    ASSUME NEW w, NEW p \in Nat, NEW m \in Nat, NEW n \in Nat, m > 0, n > 0,
           NEW i \in DOMAIN Names, NEW j \in DOMAIN Names, Begins(w, p, m, i), Begins(w, p, n, j)
    PROVE  i = j
<1>1. p + 1 - 1 = p
  OBVIOUS
<1>2. Folded(w[p]) = Names[i][1] /\ Folded(w[p]) = Names[j][1]
  BY <1>1 DEF Begins
<1>3. QED
  BY <1>2, FramingAssumption

-----------------------------------------------------------------------------
(* There is one way to read a request. *)

\* The method ends at the first space,
LEMMA MethodOne ==
    ASSUME NEW w, NEW a \in Nat, NEW c \in Nat, MethodAt(w, a), MethodAt(w, c)
    PROVE  a = c
BY ByteClasses, VersionBytes DEF MethodAt, Span

\* and the target at the next one.
LEMMA OpeningOne ==
    ASSUME NEW w, NEW a \in Nat, NEW b \in Nat, NEW c \in Nat, NEW d \in Nat,
           Opening(w, a, b), Opening(w, c, d)
    PROVE  a = c /\ b = d
<1>1. a = c
  BY MethodOne DEF Opening
<1>2. b = d
  BY <1>1, ByteClasses, VersionBytes DEF Opening, TargetAt, Span
<1>3. QED
  BY <1>1, <1>2

\* Its line ends at the first LF.
LEMMA OpeningPlain ==
    ASSUME NEW w, NEW a \in Nat, NEW b \in Nat, Opening(w, a, b)
    PROVE  a < b /\ 1 < a /\ \A k \in 1..b : w[k] # "LF"
<1>1. a - 1 >= 1 /\ b - a - 1 >= 1
  BY VersionBytes DEF Opening, MethodAt, TargetAt
<1>2. ASSUME NEW k \in 1..b PROVE w[k] # "LF"
  <2>1. CASE k <= a
    BY <2>1, <1>1, ByteClasses DEF Opening, MethodAt, Span
  <2>2. CASE k > a
    BY <2>2, <1>1, ByteClasses DEF Opening, TargetAt, Span
  <2>3. QED
    BY <2>1, <2>2, <1>1
<1>3. QED
  BY <1>1, <1>2

\* There is no space or line break in the version.
LEMMA VersionPlain ==
    ASSUME NEW w, NEW b \in Nat, NEW m \in 0..Len(Version), VersionAt(w, b, m)
    PROVE  \A k \in (b + 1)..(b + m) : w[k] \notin {"SP", "CR", "LF"}
<1> SUFFICES ASSUME NEW k \in (b + 1)..(b + m) PROVE w[k] \notin {"SP", "CR", "LF"}
  OBVIOUS
<1>1. PICK i \in 1..m : i = k - b
  BY VersionBytes
<1>2. b + i = k /\ i \in 1..Len(Version)
  BY <1>1, VersionBytes
<1>3. QED
  BY <1>1, <1>2, VersionBytes DEF VersionAt

\* The request line ends with CR LF and has no other LF.
LEMMA RequestLinePlain ==
    ASSUME NEW w, NEW f \in Nat, RequestLineAt(w, f)
    PROVE  f > 3 /\ w[f - 1] = "CR" /\ w[f] = "LF" /\ \A k \in 1..(f - 1) : w[k] # "LF"
<1>1. PICK a \in 1..f, b \in 1..f :
          /\ Opening(w, a, b) /\ VersionAt(w, b, Len(Version))
          /\ f = b + Len(Version) + 3
          /\ w[f - 2] \in {"0", "1"} /\ w[f - 1] = "CR" /\ w[f] = "LF"
  BY DEF RequestLineAt
<1>2. /\ \A k \in 1..b : w[k] # "LF"
      /\ \A k \in (b + 1)..(b + Len(Version)) : w[k] # "LF"
  BY <1>1, OpeningPlain, VersionPlain, VersionBytes
<1>3. ASSUME NEW k \in 1..(f - 1) PROVE w[k] # "LF"
  <2>1. k \in 1..b \/ k \in (b + 1)..(b + Len(Version)) \/ k = f - 2 \/ k = f - 1
    BY <1>1, VersionBytes
  <2>2. QED
    BY <2>1, <1>1, <1>2
<1>4. QED
  BY <1>1, <1>3, VersionBytes

\* There is one request line,
LEMMA RequestLineOne ==
    ASSUME NEW w, NEW f \in Nat, NEW g \in Nat, RequestLineAt(w, f), RequestLineAt(w, g)
    PROVE  f = g
BY RequestLinePlain

\* one beginning of the line that ends at i,
LEMMA LineOne ==
    ASSUME NEW w, NEW p \in Nat, NEW q \in Nat, NEW i \in Nat, LineAt(w, p, i), LineAt(w, q, i)
    PROVE  p = q
BY DEF LineAt

\* one colon that ends its name,
LEMMA NameOne ==
    ASSUME NEW w, NEW p \in Nat, NEW c \in Nat, NEW d \in Nat, NameAt(w, p, c), NameAt(w, p, d)
    PROVE  c = d
BY ByteClasses DEF NameAt, Span

\* one number in its value,
LEMMA NumberOne ==
    ASSUME NEW w, NEW c \in Nat, NEW i \in Nat, NEW x \in Nat, NEW y \in Nat, NEW s \in Nat, NEW t \in Nat,
           NumberAt(w, c, x, y, i), NumberAt(w, c, s, t, i)
    PROVE  x = s /\ y = t
<1>1. x = s
  BY ByteClasses DEF NumberAt, Span
<1>2. y = t
  BY <1>1, ByteClasses DEF NumberAt, Span
<1>3. QED
  BY <1>1, <1>2

\* and so one length.
LEMMA LengthOne ==
    ASSUME NEW w, NEW p \in Nat, NEW i \in Nat, NEW u, NEW v,
           LengthLine(w, p, i, u), LengthLine(w, p, i, v)
    PROVE  u = v
<1>1. PICK c \in p..i, x \in p..i, y \in p..i :
          /\ HeaderAt(w, p, c, i) /\ NumberAt(w, c, x, y, i) /\ u = Decimal(SubSeq(w, x, y))
  BY DEF LengthLine
<1>2. PICK d \in p..i, s \in p..i, t \in p..i :
          /\ HeaderAt(w, p, d, i) /\ NumberAt(w, d, s, t, i) /\ v = Decimal(SubSeq(w, s, t))
  BY DEF LengthLine
<1>3. c = d
  BY <1>1, <1>2, NameOne DEF HeaderAt
<1>4. x = s /\ y = t
  BY <1>1, <1>2, <1>3, NumberOne
<1>5. QED
  BY <1>1, <1>2, <1>4

-----------------------------------------------------------------------------
(* The lines of a header. *)

\* A plain header is not a Content-Length.
LEMMA PlainNotLength ==
    ASSUME NEW w, NEW p \in Nat, NEW i \in Nat, NEW v, PlainLine(w, p, i), LengthLine(w, p, i, v)
    PROVE  FALSE
<1>1. PICK c \in p..i : HeaderAt(w, p, c, i) /\ Unreserved(w, p, c)
  BY DEF PlainLine
<1>2. PICK d \in p..i : HeaderAt(w, p, d, i) /\ Called(w, p, d, 1)
  BY DEF LengthLine
<1>3. c = d
  BY <1>1, <1>2, NameOne DEF HeaderAt
<1>4. QED
  BY <1>1, <1>2, <1>3, NameLetters DEF Unreserved

\* Every line of the header has a name, and ends with CR LF.
LEMMA LinesHave ==
    ASSUME NEW w, NEW f \in Nat, NEW g \in Nat, NEW count, NEW v, Counted(w, f, g, count, v),
           NEW i \in (f + 1)..g, w[i] = "LF"
    PROVE  \E p \in 2..i : LineAt(w, p, i) /\ \E c \in p..i : HeaderAt(w, p, c, i)
<1>1. CASE count = 0 /\ Lines(w, f, g, 0)
  BY <1>1 DEF Lines, PlainLine
<1>2. CASE \E l \in (f + 1)..g : (\E p \in 2..l : LineAt(w, p, l) /\ LengthLine(w, p, l, v))
                                 /\ Lines(w, f, g, l)
  <2>1. PICK l \in (f + 1)..g : (\E p \in 2..l : LineAt(w, p, l) /\ LengthLine(w, p, l, v))
                                 /\ Lines(w, f, g, l)
    BY <1>2
  <2>2. CASE i = l
    BY <2>1, <2>2 DEF LengthLine
  <2>3. CASE i # l
    BY <2>1, <2>3 DEF Lines, PlainLine
  <2>4. QED
    BY <2>2, <2>3
<1>3. QED
  BY <1>1, <1>2 DEF Counted

\* No line of the header is empty.
LEMMA HeaderFull ==
    ASSUME NEW w, NEW p \in Nat, NEW c \in Nat, NEW i \in Nat, HeaderAt(w, p, c, i)
    PROVE  /\ p < i - 1 /\ c < i - 1 /\ p < c /\ w[i - 1] = "CR" /\ w[p] \in TokenBytes /\ w[c] = ":"
           /\ \A k \in p..(i - 2) : w[k] \notin {"CR", "LF"}
<1>1. p < c /\ c <= i - 2 /\ w[i - 1] = "CR" /\ w[c] = ":"
  BY DEF HeaderAt, NameAt
<1>2. w[p] \in TokenBytes
  BY <1>1 DEF HeaderAt, NameAt, Span
<1>3. ASSUME NEW k \in p..(i - 2) PROVE w[k] \notin {"CR", "LF"}
  <2>1. CASE k < c
    BY <2>1, ByteClasses DEF HeaderAt, NameAt, Span
  <2>2. CASE k = c
    BY <2>2, <1>1
  <2>3. CASE k > c
    BY <2>3, ByteClasses DEF HeaderAt, Span
  <2>4. QED
    BY <1>1, <2>1, <2>2, <2>3
<1>4. QED
  BY <1>1, <1>2, <1>3

\* A header line ends with CR LF and is not empty.
LEMMA NoBlankLine ==
    ASSUME NEW w, NEW f \in Nat, NEW g \in Nat, NEW count, NEW v, Counted(w, f, g, count, v),
           NEW i \in (f + 1)..g, w[i] = "LF"
    PROVE  ~(w[i - 2] = "LF") /\ w[i - 1] = "CR"
<1>1. PICK p \in 2..i : LineAt(w, p, i) /\ \E c \in p..i : HeaderAt(w, p, c, i)
  BY LinesHave
<1>2. PICK c \in p..i : HeaderAt(w, p, c, i)
  BY <1>1
<1>3. p < i - 1 /\ w[i - 1] = "CR"
  BY <1>2, HeaderFull
<1>4. QED
  BY <1>1, <1>3 DEF LineAt

\* One more line.
LEMMA LinesGrow ==
    ASSUME NEW w, NEW f \in Nat, NEW s \in Nat, NEW i \in Nat, NEW l \in Nat, f < s,
           Lines(w, f, s - 1, l), LineAt(w, s, i), PlainLine(w, s, i) \/ i = l
    PROVE  Lines(w, f, i, l)
<1> SUFFICES ASSUME NEW k \in (f + 1)..i, w[k] = "LF", k # l
             PROVE  \E p \in 2..k : LineAt(w, p, k) /\ PlainLine(w, p, k)
  BY DEF Lines
<1>1. k \in (f + 1)..(s - 1) \/ k = i
  BY DEF LineAt
<1>2. CASE k \in (f + 1)..(s - 1)
  BY <1>2 DEF Lines
<1>3. CASE k = i
  BY <1>3 DEF LineAt
<1>4. QED
  BY <1>1, <1>2, <1>3

\* Another plain header after the headers so far changes no length.
LEMMA PlainGrows ==
    ASSUME NEW w, NEW f \in Nat, NEW s \in Nat, NEW i \in Nat, NEW count, NEW v, f < s,
           Counted(w, f, s - 1, count, v), LineAt(w, s, i), PlainLine(w, s, i)
    PROVE  Counted(w, f, i, count, v)
<1>1. CASE count = 0 /\ v = 0 /\ Lines(w, f, s - 1, 0)
  BY <1>1, LinesGrow DEF Counted
<1>2. CASE count = 1 /\ \E l \in (f + 1)..(s - 1) :
               (\E p \in 2..l : LineAt(w, p, l) /\ LengthLine(w, p, l, v)) /\ Lines(w, f, s - 1, l)
  <2>1. PICK l \in (f + 1)..(s - 1) :
               (\E p \in 2..l : LineAt(w, p, l) /\ LengthLine(w, p, l, v)) /\ Lines(w, f, s - 1, l)
    BY <1>2
  <2>2. Lines(w, f, i, l)
    BY <2>1, LinesGrow
  <2>3. l \in (f + 1)..i
    BY DEF LineAt
  <2>4. QED
    BY <1>2, <2>1, <2>2, <2>3 DEF Counted
<1>3. QED
  BY <1>1, <1>2 DEF Counted

\* The first Content-Length gives it.
LEMMA LengthGrows ==
    ASSUME NEW w, NEW f \in Nat, NEW s \in Nat, NEW i \in Nat, NEW v, f < s,
           Lines(w, f, s - 1, 0), LineAt(w, s, i), LengthLine(w, s, i, v)
    PROVE  Counted(w, f, i, 1, v)
<1>1. i \in (f + 1)..i /\ s \in 2..i
  BY DEF LineAt
<1>2. Lines(w, f, s - 1, i)
  BY DEF Lines
<1>3. Lines(w, f, i, i)
  BY <1>1, <1>2, LinesGrow
<1>4. QED
  BY <1>1, <1>3 DEF Counted

\* A line of a counted header that is called like the length is the one that counts.
LEMMA LengthIs ==
    ASSUME NEW w, NEW f \in Nat, NEW g \in Nat, NEW count, NEW v, Counted(w, f, g, count, v),
           NEW i \in (f + 1)..g, NEW p \in Nat, LineAt(w, p, i),
           NEW c \in p..i, HeaderAt(w, p, c, i), Called(w, p, c, 1)
    PROVE  count = 1 /\ LengthLine(w, p, i, v) /\ Lines(w, f, g, i)
<1>1. w[i] = "LF" /\ p \in 2..i
  BY DEF LineAt
<1>2. ~PlainLine(w, p, i)
  <2>1. SUFFICES ASSUME PlainLine(w, p, i) PROVE FALSE
    OBVIOUS
  <2>2. PICK d \in p..i : HeaderAt(w, p, d, i) /\ Unreserved(w, p, d)
    BY <2>1 DEF PlainLine
  <2>3. c = d
    BY <2>2, NameOne DEF HeaderAt
  <2>4. QED
    BY <2>2, <2>3, NameLetters DEF Unreserved
<1>3. ASSUME NEW l, Lines(w, f, g, l), i # l PROVE FALSE
  <2>1. PICK q \in 2..i : LineAt(w, q, i) /\ PlainLine(w, q, i)
    BY <1>1, <1>3 DEF Lines
  <2>2. q = p
    BY <2>1, LineOne
  <2>3. QED
    BY <1>2, <2>1, <2>2
<1>4. PICK l \in (f + 1)..g : /\ count = 1 /\ \E q \in 2..l : LineAt(w, q, l) /\ LengthLine(w, q, l, v)
                              /\ Lines(w, f, g, l)
  <2>1. i # 0
    OBVIOUS
  <2>2. ~Lines(w, f, g, 0)
    BY <2>1, <1>3
  <2>3. QED
    BY <2>2 DEF Counted
<1>5. l = i
  BY <1>3, <1>4
<1>6. PICK q \in 2..i : LineAt(w, q, i) /\ LengthLine(w, q, i, v)
  BY <1>4, <1>5
<1>7. q = p
  BY <1>6, LineOne
<1>8. QED
  BY <1>4, <1>5, <1>6, <1>7

\* Any other one has no reserved name.
LEMMA PlainIs ==
    ASSUME NEW w, NEW f \in Nat, NEW g \in Nat, NEW count, NEW v, Counted(w, f, g, count, v),
           NEW i \in (f + 1)..g, NEW p \in Nat, LineAt(w, p, i), ~LengthLine(w, p, i, v)
    PROVE  PlainLine(w, p, i)
<1>1. w[i] = "LF" /\ i # 0
  BY DEF LineAt
<1>2. ASSUME NEW l, Lines(w, f, g, l), i # l PROVE PlainLine(w, p, i)
  <2>1. PICK q \in 2..i : LineAt(w, q, i) /\ PlainLine(w, q, i)
    BY <1>1, <1>2 DEF Lines
  <2>2. QED
    BY <2>1, LineOne
<1>3. CASE Lines(w, f, g, 0)
  BY <1>1, <1>2, <1>3
<1>4. CASE \E l \in (f + 1)..g : (\E q \in 2..l : LineAt(w, q, l) /\ LengthLine(w, q, l, v))
                                 /\ Lines(w, f, g, l)
  <2>1. PICK l \in (f + 1)..g : (\E q \in 2..l : LineAt(w, q, l) /\ LengthLine(w, q, l, v))
                                 /\ Lines(w, f, g, l)
    BY <1>4
  <2>2. i # l
    BY <2>1, LineOne
  <2>3. QED
    BY <1>2, <2>1, <2>2
<1>5. QED
  BY <1>3, <1>4 DEF Counted

\* The headers determine whether there is a length, and which.
LEMMA CountedOne ==
    ASSUME NEW w, NEW f \in Nat, NEW g \in Nat, NEW m, NEW n, NEW u, NEW v,
           Counted(w, f, g, m, u), Counted(w, f, g, n, v)
    PROVE  m = n /\ u = v
<1>1. ASSUME NEW a, NEW b, NEW x, NEW y, Counted(w, f, g, a, x), Counted(w, f, g, b, y), a = 1
      PROVE  b = 1 /\ y = x
  <2>1. PICK l \in (f + 1)..g : \E p \in 2..l : LineAt(w, p, l) /\ LengthLine(w, p, l, x)
    BY <1>1 DEF Counted
  <2>2. PICK p \in 2..l : LineAt(w, p, l) /\ LengthLine(w, p, l, x)
    BY <2>1
  <2>3. PICK c \in p..l : HeaderAt(w, p, c, l) /\ Called(w, p, c, 1)
    BY <2>2 DEF LengthLine
  <2>4. b = 1 /\ LengthLine(w, p, l, y)
    BY <1>1, <2>2, <2>3, LengthIs
  <2>5. QED
    BY <2>2, <2>4, LengthOne
<1>2. CASE m = 1
  BY <1>1, <1>2
<1>3. CASE n = 1
  BY <1>1, <1>3
<1>4. CASE m # 1 /\ n # 1
  BY <1>4 DEF Counted
<1>5. QED
  BY <1>2, <1>3, <1>4

\* The greatest element of a set of numbers.
LEMMA MaxOf ==
    ASSUME NEW S, NEW m \in S, \A x \in S : m >= x, m \in Nat, S \in SUBSET Nat
    PROVE  Max(S) = m
<1>1. PICK k \in S : k = Max(S) /\ \A y \in S : k >= y
  BY DEF Max
<1>2. k >= m /\ m >= k /\ k \in Nat
  BY <1>1
<1>3. QED
  BY <1>1, <1>2

\* The greatest number of 1..k, and what is left without it.
LEMMA MaxOfRange ==
    ASSUME NEW k \in Nat \ {0}
    PROVE  Max(1..k) = k /\ (1..k) \ {k} = 1..(k - 1)
<1>1. k \in 1..k /\ \A x \in 1..k : k >= x
  OBVIOUS
<1>2. 1..k \in SUBSET Nat
  OBVIOUS
<1>3. Max(1..k) = k
  BY <1>1, <1>2, MaxOf
<1>4. (1..k) \ {k} = 1..(k - 1)
  OBVIOUS
<1>5. QED
  BY <1>3, <1>4

\* Every other set of numbers up to n + 1 has its greatest below, and a rest.
LEMMA MaxOfSubset ==
    ASSUME NEW n \in Nat, NEW S \in SUBSET (1..(n + 1)), S # {}
    PROVE  /\ Max(S) \in S /\ S \ {Max(S)} \in SUBSET (1..n)
           /\ n + 1 \in S => Max(S) = n + 1
           /\ n + 1 \notin S => S \in SUBSET (1..n)
<1> DEFINE B == {m \in Nat : \A T \in SUBSET (1..m) : T # {} => \E x \in T : \A y \in T : x >= y}
<1>1. 0 \in B
  <2>1. 1..0 = {}
    OBVIOUS
  <2>2. QED
    BY <2>1
<1>2. ASSUME NEW m \in Nat, m \in B PROVE m + 1 \in B
  <2>1. ASSUME NEW T \in SUBSET (1..(m + 1)), T # {} PROVE \E x \in T : \A y \in T : x >= y
    <3>1. CASE m + 1 \in T
      <4>1. \A y \in T : m + 1 >= y
        OBVIOUS
      <4>2. QED
        BY <3>1, <4>1
    <3>2. CASE m + 1 \notin T
      <4>1. T \in SUBSET (1..m)
        BY <3>2
      <4>2. QED
        BY <1>2, <2>1, <4>1
    <3>3. QED
      BY <3>1, <3>2
  <2>2. QED
    BY <2>1
<1> HIDE DEF B
<1>3. n + 1 \in B
  BY <1>1, <1>2, Induction
<1>4. PICK k \in S : \A y \in S : k >= y
  BY <1>3 DEF B
<1>5. Max(S) = k
  <2>1. k \in Nat /\ S \in SUBSET Nat
    BY <1>4
  <2>2. QED
    BY <1>4, <2>1, MaxOf
<1>6. S \ {k} \in SUBSET (1..n)
  BY <1>4
<1>7. n + 1 \in S => k = n + 1
  BY <1>4
<1>8. n + 1 \notin S => S \in SUBSET (1..n)
  OBVIOUS
<1>9. QED
  BY <1>5, <1>6, <1>7, <1>8

-----------------------------------------------------------------------------
(* What digits are worth. *)

\* The function that FoldLeft computes a number with.
Numbers(s, n, f) ==
    f = [S \in SUBSET (1..n) |-> IF S = {} THEN 0 ELSE f[S \ {Max(S)}] * 10 + Value(s[Max(S)])]

\* The recursive function behind the fold exists for every number of digits.
LEMMA NumbersExist ==
    ASSUME NEW s
    PROVE  \A n \in Nat : \E f : Numbers(s, n, f)
<1> DEFINE B == {n \in Nat : \E f : Numbers(s, n, f)}
<1>1. 0 \in B
  <2>1. SUBSET (1..0) = {{}}
    OBVIOUS
  <2>2. Numbers(s, 0, [S \in SUBSET (1..0) |-> 0])
    BY <2>1 DEF Numbers
  <2>3. QED
    BY <2>2
<1>2. ASSUME NEW n \in Nat, n \in B PROVE n + 1 \in B
  <2>1. PICK f : Numbers(s, n, f)
    BY <1>2
  <2> DEFINE Next1(m, b) == m * 10 + Value(b)
             g == [S \in SUBSET (1..(n + 1)) |->
                     IF n + 1 \in S THEN Next1(f[S \ {n + 1}], s[n + 1]) ELSE f[S]]
  <2>2. \A S \in SUBSET (1..n) : g[S] = f[S] /\ S \in SUBSET (1..(n + 1))
    OBVIOUS
  <2>3. f = [S \in SUBSET (1..n) |-> IF S = {} THEN 0 ELSE Next1(f[S \ {Max(S)}], s[Max(S)])]
    BY <2>1 DEF Numbers
  <2> HIDE DEF Next1
  <2>4. ASSUME NEW S \in SUBSET (1..(n + 1))
        PROVE  g[S] = IF S = {} THEN 0 ELSE Next1(g[S \ {Max(S)}], s[Max(S)])
    <3>1. CASE S = {}
      <4>1. g[{}] = f[{}] /\ f[{}] = 0
        BY <2>2, <2>3
      <4>2. QED
        BY <3>1, <4>1
    <3>2. CASE S # {} /\ n + 1 \in S
      <4>1. Max(S) = n + 1 /\ S \ {n + 1} \in SUBSET (1..n)
        BY <3>2, MaxOfSubset
      <4>2. g[S] = Next1(f[S \ {n + 1}], s[n + 1])
        BY <3>2
      <4>3. g[S \ {n + 1}] = f[S \ {n + 1}]
        BY <2>2, <4>1
      <4> HIDE DEF g
      <4>4. QED
        BY <3>2, <4>1, <4>2, <4>3
    <3>3. CASE S # {} /\ n + 1 \notin S
      <4>1. S \in SUBSET (1..n) /\ S \ {Max(S)} \in SUBSET (1..n)
        BY <3>3, MaxOfSubset
      <4>2. g[S] = f[S] /\ g[S \ {Max(S)}] = f[S \ {Max(S)}]
        BY <2>2, <4>1
      <4>3. f[S] = Next1(f[S \ {Max(S)}], s[Max(S)])
        BY <2>3, <3>3, <4>1
      <4> HIDE DEF g
      <4>4. QED
        BY <3>3, <4>2, <4>3
    <3>4. QED
      BY <3>1, <3>2, <3>3
  <2>5. g = [S \in SUBSET (1..(n + 1)) |-> g[S]]
    OBVIOUS
  <2> HIDE DEF g
  <2>6. Numbers(s, n + 1, g)
    BY <2>4, <2>5 DEF Numbers, Next1
  <2>7. QED
    BY <2>6
<1>3. QED
  <2> HIDE DEF B
  <2>1. \A n \in Nat : n \in B
    BY <1>1, <1>2, Induction
  <2>2. QED
    BY <2>1 DEF B

\* The number a string of digits stands for, as a recursive function,
LEMMA DecimalIs ==
    ASSUME NEW s, Len(s) \in Nat, DOMAIN s = 1..Len(s)
    PROVE  \E f : Numbers(s, Len(s), f) /\ Decimal(s) = f[1..Len(s)]
<1>1. \E f : Numbers(s, Len(s), f)
  BY NumbersExist
<1>2. \E f : /\ f = [S \in SUBSET (DOMAIN s) |-> IF S = {} THEN 0 ELSE f[S \ {Max(S)}] * 10 + Value(s[Max(S)])]
             /\ Decimal(s) = f[DOMAIN s]
  <2>1. \E f : f = [S \in SUBSET (DOMAIN s) |-> IF S = {} THEN 0 ELSE f[S \ {Max(S)}] * 10 + Value(s[Max(S)])]
    BY <1>1 DEF Numbers
  <2>2. QED
    BY <2>1 DEF Decimal, FoldLeft, MapThenFoldSet
<1>3. QED
  BY <1>2 DEF Numbers

\* A number is the sum of its digits' worth, one digit at a time.
Worth(s, n, g) ==
    g[0] = 0 /\ \A k \in 0..(n - 1) : g[k + 1] = g[k] * 10 + Value(s[k + 1])

\* as one on the number of digits read,
LEMMA DecimalWorth ==
    ASSUME NEW s, Len(s) \in Nat, DOMAIN s = 1..Len(s)
    PROVE  \E g : Worth(s, Len(s), g) /\ Decimal(s) = g[Len(s)]
<1>1. PICK n \in Nat : n = Len(s)
  OBVIOUS
<1>2. PICK f : Numbers(s, n, f) /\ Decimal(s) = f[1..n]
  BY <1>1, DecimalIs
<1> DEFINE g == [k \in 0..n |-> f[1..k]]
<1>3. g[0] = 0
  <2>1. 1..0 = {} /\ {} \in SUBSET (1..n)
    OBVIOUS
  <2>2. QED
    BY <1>2, <2>1 DEF Numbers
<1>4. ASSUME NEW k \in 0..(n - 1) PROVE g[k + 1] = g[k] * 10 + Value(s[k + 1])
  <2>1. PICK S : S = 1..(k + 1)
    OBVIOUS
  <2>2. S \in SUBSET (1..n) /\ S # {}
    BY <2>1
  <2>3. f[S] = f[S \ {Max(S)}] * 10 + Value(s[Max(S)])
    BY <1>2, <2>2 DEF Numbers
  <2>4. Max(S) = k + 1 /\ S \ {k + 1} = 1..k
    <3>1. k + 1 \in Nat \ {0} /\ (k + 1) - 1 = k
      OBVIOUS
    <3>2. QED
      BY <2>1, <3>1, MaxOfRange
  <2>5. g[k + 1] = f[S] /\ g[k] = f[1..k]
    BY <2>1
  <2> HIDE DEF g
  <2>6. QED
    BY <2>3, <2>4, <2>5
<1>5. g[n] = f[1..n]
  OBVIOUS
<1> HIDE DEF g
<1>6. QED
  BY <1>1, <1>2, <1>3, <1>4, <1>5 DEF Worth

\* One more digit.
LEMMA DecimalGrows ==
    ASSUME NEW s, NEW t, NEW n \in Nat, n = Len(s), DOMAIN s = 1..n, Len(t) = n + 1, DOMAIN t = 1..(n + 1),
           \A k \in 1..n : t[k] = s[k]
    PROVE  Decimal(t) = Decimal(s) * 10 + Value(t[n + 1])
<1>1. PICK g : Worth(s, n, g) /\ Decimal(s) = g[n]
  BY DecimalWorth
<1>2. PICK h : Worth(t, n + 1, h) /\ Decimal(t) = h[n + 1]
  BY DecimalWorth
<1> DEFINE B == {k \in Nat : k <= n => g[k] = h[k]}
<1>3. 0 \in B
  BY <1>1, <1>2 DEF Worth
<1>4. ASSUME NEW k \in Nat, k \in B PROVE k + 1 \in B
  <2> SUFFICES ASSUME k + 1 <= n PROVE g[k + 1] = h[k + 1]
    OBVIOUS
  <2>1. k \in 0..(n - 1) /\ k \in 0..((n + 1) - 1) /\ k + 1 \in 1..n /\ g[k] = h[k]
    BY <1>4
  <2>2. g[k + 1] = g[k] * 10 + Value(s[k + 1]) /\ h[k + 1] = h[k] * 10 + Value(t[k + 1])
    BY <1>1, <1>2, <2>1 DEF Worth
  <2>3. t[k + 1] = s[k + 1]
    BY <2>1
  <2>4. QED
    BY <2>1, <2>2, <2>3
<1> HIDE DEF B
<1>5. g[n] = h[n]
  <2>1. n \in B
    BY <1>3, <1>4, Induction
  <2>2. QED
    BY <2>1 DEF B
<1>6. h[n + 1] = h[n] * 10 + Value(t[n + 1])
  <2>1. n \in 0..((n + 1) - 1)
    OBVIOUS
  <2>2. QED
    BY <1>2, <2>1 DEF Worth
<1>7. QED
  BY <1>1, <1>2, <1>5, <1>6

\* of no digits,
LEMMA DecimalStarts == Decimal(<< >>) = 0
<1>1. Len(<< >>) = 0 /\ DOMAIN << >> = 1..0
  OBVIOUS
<1>2. PICK g : Worth(<< >>, 0, g) /\ Decimal(<< >>) = g[0]
  BY <1>1, DecimalWorth
<1>3. QED
  BY <1>2 DEF Worth

-----------------------------------------------------------------------------
(* Numbers in a line. *)

\* The bytes from x to y.
LEMMA RangeShape ==
    ASSUME NEW w, NEW x \in Nat, NEW y \in Int, x <= y + 1
    PROVE  /\ Len(SubSeq(w, x, y)) = y - x + 1
           /\ DOMAIN SubSeq(w, x, y) = 1..(y - x + 1)
           /\ \A k \in 1..(y - x + 1) : SubSeq(w, x, y)[k] = w[x + k - 1]
OBVIOUS

\* The number so far: no digit yet,
LEMMA RangeStarts ==
    ASSUME NEW w, NEW x \in Nat
    PROVE  Decimal(SubSeq(w, x, x - 1)) = 0
<1>1. SubSeq(w, x, x - 1) = << >>
  BY SubSeqEmpty
<1>2. QED
  BY <1>1, DecimalStarts

\* and one digit more.
LEMMA RangeGrows ==
    ASSUME NEW w, NEW x \in Nat, NEW y \in Int, x <= y + 1
    PROVE  Decimal(SubSeq(w, x, y + 1)) = Decimal(SubSeq(w, x, y)) * 10 + Value(w[y + 1])
<1>1. PICK s : s = SubSeq(w, x, y)
  OBVIOUS
<1>2. PICK t : t = SubSeq(w, x, y + 1)
  OBVIOUS
<1>3. PICK n \in Nat : n = y - x + 1
  OBVIOUS
<1>4. y + 1 \in Int /\ x <= (y + 1) + 1 /\ (y + 1) - x + 1 = n + 1 /\ x + (n + 1) - 1 = y + 1
  BY <1>3
<1>5. Len(s) = n /\ DOMAIN s = 1..n /\ \A k \in 1..n : s[k] = w[x + k - 1]
  BY <1>1, <1>3, RangeShape
<1>6. Len(t) = n + 1 /\ DOMAIN t = 1..(n + 1) /\ \A k \in 1..(n + 1) : t[k] = w[x + k - 1]
  BY <1>2, <1>4, RangeShape
<1>7. t[n + 1] = w[y + 1]
  BY <1>4, <1>6
<1>8. \A k \in 1..n : t[k] = s[k]
  BY <1>5, <1>6
<1>9. Decimal(t) = Decimal(s) * 10 + Value(t[n + 1])
  <2>1. n = Len(s) /\ DOMAIN s = 1..n /\ Len(t) = n + 1 /\ DOMAIN t = 1..(n + 1)
    BY <1>5, <1>6
  <2>2. QED
    BY <1>8, <2>1, DecimalGrows
<1>10. QED
  BY <1>1, <1>2, <1>7, <1>9

\* Digits have values.
LEMMA DigitValue == \A b \in Digits : Value(b) \in Nat
BY DEF Digits, Value

\* It is a number, and no part of it from the left is greater.
LEMMA RangeNumber ==
    ASSUME NEW w, NEW x \in Nat, NEW y \in Nat, x <= y + 1, Span(w, x, y, Digits)
    PROVE  /\ Decimal(SubSeq(w, x, y)) \in Nat
           /\ \A n \in x..y : /\ Decimal(SubSeq(w, x, n)) \in Nat
                              /\ Decimal(SubSeq(w, x, n)) <= Decimal(SubSeq(w, x, y))
<1> DEFINE D(n) == Decimal(SubSeq(w, x, n))
<1>1. D(x - 1) = 0
  BY RangeStarts
<1>2. ASSUME NEW n \in (x - 1)..(y - 1), D(n) \in Nat PROVE D(n + 1) \in Nat /\ D(n) <= D(n + 1)
  <2>1. D(n + 1) = D(n) * 10 + Value(w[n + 1])
    BY RangeGrows
  <2>2. Value(w[n + 1]) \in Nat
    BY DigitValue DEF Span
  <2> HIDE DEF D
  <2>3. QED
    BY <1>2, <2>1, <2>2
<1> HIDE DEF D
<1> DEFINE B == {m \in Nat : x - 1 + m <= y =>
                    D(x - 1 + m) \in Nat /\ \A n \in x..(x - 1 + m) : D(n) \in Nat /\ D(n) <= D(x - 1 + m)}
<1>3. 0 \in B
  BY <1>1
<1>4. ASSUME NEW m \in Nat, m \in B PROVE m + 1 \in B
  <2> SUFFICES ASSUME x - 1 + (m + 1) <= y
               PROVE  /\ D(x - 1 + (m + 1)) \in Nat
                      /\ \A n \in x..(x - 1 + (m + 1)) : D(n) \in Nat /\ D(n) <= D(x - 1 + (m + 1))
    OBVIOUS
  <2>1. PICK k \in (x - 1)..(y - 1) : k = x - 1 + m
    OBVIOUS
  <2>2. k + 1 = x - 1 + (m + 1) /\ D(k) \in Nat /\ \A n \in x..k : D(n) \in Nat /\ D(n) <= D(k)
    BY <1>4, <2>1
  <2>3. D(k + 1) \in Nat /\ D(k) <= D(k + 1)
    BY <1>2, <2>2
  <2>4. \A n \in x..(k + 1) : D(n) \in Nat /\ D(n) <= D(k + 1)
    BY <2>1, <2>2, <2>3
  <2>5. QED
    BY <2>2, <2>3, <2>4
<1> HIDE DEF B
<1>5. PICK m \in Nat : x - 1 + m = y
  <2>1. y - (x - 1) \in Nat /\ x - 1 + (y - (x - 1)) = y
    OBVIOUS
  <2>2. QED
    BY <2>1
<1>6. m \in B
  BY <1>3, <1>4, Induction
<1>7. D(y) \in Nat /\ \A n \in x..y : D(n) \in Nat /\ D(n) <= D(y)
  BY <1>5, <1>6 DEF B
<1>8. QED
  BY <1>7 DEF D

-----------------------------------------------------------------------------
(* What the automaton has seen after n bytes. *)

InOpening(w, n, q, at) ==
    \/ q = <<"method", 0, n>> /\ n <= MaxMethod /\ Span(w, 1, n, TokenBytes) /\ at = 0
    \/ q = At("target_start") /\ MethodAt(w, n) /\ at = 0
    \/ /\ q = At("target")
       /\ \E a \in 1..(n - 1) : /\ MethodAt(w, a) /\ at = n - a
                                /\ w[a + 1] = "/" /\ Span(w, a + 1, n, TargetBytes)
    \/ \E a, b \in 1..n :
          /\ Opening(w, a, b)
          /\ \/ \E m \in 0..Len(Version) : q = <<"version", 0, m>> /\ n = b + m /\ VersionAt(w, b, m)
             \/ /\ VersionAt(w, b, Len(Version)) /\ w[b + Len(Version) + 1] \in {"0", "1"}
                /\ \/ q = At("version_cr") /\ n = b + Len(Version) + 1
                   \/ q = At("version_lf") /\ n = b + Len(Version) + 2 /\ w[n] = "CR"

\* Of the current line, which begins at s, up to n: not a Content-Length.
InLine(w, s, n, q) ==
    \/ q = At("headers") /\ n = s - 1
    \/ q = At("end_lf") /\ n = s /\ w[n] = "CR"
    \/ /\ q = At("generic_name") /\ s <= n /\ Span(w, s, n, TokenBytes)
       /\ \A j \in DOMAIN Names : ~Begins(w, s, (n - s) + 1, j)
    \/ \E j \in DOMAIN Names : \E m \in 1..Len(Names[j]) :
          q = <<"name", j, m>> /\ n = (s + m) - 1 /\ Begins(w, s, m, j)
    \/ \E c \in s..n :
          /\ NameAt(w, s, c) /\ Unreserved(w, s, c)
          /\ \/ q = At("value") /\ Span(w, c + 1, n, ValueBytes)
             \/ q = At("value_lf") /\ HeaderAt(w, s, c, n + 1)

\* A Content-Length, of which the value so far is v.
InLength(w, s, n, q, v) ==
    \E c \in s..n :
        /\ NameAt(w, s, c) /\ Called(w, s, c, 1)
        /\ \/ q = At("leading") /\ v = 0 /\ Span(w, c + 1, n, Blanks)
           \/ \E x \in (c + 1)..n :
                 /\ q = At("digits")
                 /\ Span(w, c + 1, x - 1, Blanks) /\ Span(w, x, n, Digits)
                 /\ v = Decimal(SubSeq(w, x, n))
           \/ \E x, y \in (c + 1)..n :
                 /\ \/ q = At("trailing") /\ y < n /\ NumberAt(w, c, x, y, n + 2)
                    \/ q = At("value_lf") /\ NumberAt(w, c, x, y, n + 1) /\ w[n] = "CR"
                 /\ v = Decimal(SubSeq(w, x, y))

InHeaders(w, n, q, count, v) ==
    \E f \in 1..n : \E s \in (f + 1)..(n + 1) :
        /\ RequestLineAt(w, f) /\ w[s - 1] = "LF" /\ \A k \in s..n : w[k] # "LF"
        /\ \/ Counted(w, f, s - 1, count, v) /\ InLine(w, s, n, q)
           \/ count = 1 /\ Lines(w, f, s - 1, 0) /\ InLength(w, s, n, q, v)

\* What the automaton does with the next byte.
Counting(e, count) == IF e.action = "LENGTH" THEN 1 ELSE count
Measured(e, b, v) == IF e.action = "DIGIT" THEN v * 10 + Value(b) ELSE v
Pathed(e, at) == IF e.action = "TARGET" THEN at + 1 ELSE at

-----------------------------------------------------------------------------
(* Each byte that is accepted is one that belongs there. *)

\* The request line.
OpeningGoes(w, n, e, at) ==
    /\ e.next # DONE
    /\ \/ e.action \in {"none", "TARGET"} /\ InOpening(w, n + 1, e.next, Pathed(e, at))
       \/ e.action = "none" /\ e.next = At("headers") /\ RequestLineAt(w, n + 1)

\* A byte after n bytes of the method.
LEMMA MethodByte ==
    ASSUME NEW w, NEW n \in Nat, n <= MaxMethod, Span(w, 1, n, TokenBytes),
           Edge(<<"method", 0, n>>, w[n + 1]).next # Reject
    PROVE  OpeningGoes(w, n, Edge(<<"method", 0, n>>, w[n + 1]), 0)
<1> DEFINE b == w[n + 1]
           e == Edge(<<"method", 0, n>>, b)
<1>1. e = IF b \in TokenBytes /\ n < MaxMethod THEN Go(<<"method", 0, n + 1>>)
          ELSE IF b = "SP" /\ n > 0 THEN Go(At("target_start")) ELSE Go(Reject)
  BY DEF Edge
<1> HIDE DEF e
<1>2. CASE b \in TokenBytes /\ n < MaxMethod
  <2>1. e.next = <<"method", 0, n + 1>> /\ e.action = "none"
    BY <1>1, <1>2 DEF Go
  <2>2. Span(w, 1, n + 1, TokenBytes) /\ n + 1 <= MaxMethod
    BY <1>2, VersionBytes DEF Span
  <2>3. QED
    BY <2>1, <2>2 DEF OpeningGoes, InOpening, Pathed, DONE, At, e
<1>3. CASE ~(b \in TokenBytes /\ n < MaxMethod) /\ b = "SP" /\ n > 0
  <2>1. e.next = At("target_start") /\ e.action = "none"
    BY <1>1, <1>3 DEF Go
  <2>2. MethodAt(w, n + 1)
    BY <1>3, VersionBytes DEF MethodAt, Span
  <2>3. QED
    BY <2>1, <2>2 DEF OpeningGoes, InOpening, Pathed, DONE, At, e
<1>4. QED
  BY <1>1, <1>2, <1>3 DEF Go, e

\* The first byte of the target.
LEMMA TargetStartByte ==
    ASSUME NEW w, NEW n \in Nat, MethodAt(w, n),
           Edge(At("target_start"), w[n + 1]).next # Reject
    PROVE  OpeningGoes(w, n, Edge(At("target_start"), w[n + 1]), 0)
<1> DEFINE b == w[n + 1]
           e == Edge(At("target_start"), b)
<1>1. e = IF b = "/" THEN GoWith(At("target"), "TARGET") ELSE Go(Reject)
  BY DEF Edge, At
<1> HIDE DEF e
<1>2. b = "/" /\ e.next = At("target") /\ e.action = "TARGET"
  BY <1>1 DEF Go, GoWith, e
<1>3. n \in 1..((n + 1) - 1) /\ Span(w, n + 1, n + 1, TargetBytes) /\ 1 = (n + 1) - n
  BY <1>2, VersionBytes DEF Span, TargetBytes, MethodAt
<1>4. InOpening(w, n + 1, At("target"), 1)
  BY <1>2, <1>3 DEF InOpening
<1>5. QED
  BY <1>2, <1>4 DEF OpeningGoes, Pathed, DONE, At, e

\* A byte after part of the target.
LEMMA TargetByte ==
    ASSUME NEW w, NEW n \in Nat, NEW a \in 1..(n - 1), MethodAt(w, a), n - a <= MaxTarget,
           w[a + 1] = "/", Span(w, a + 1, n, TargetBytes),
           Edge(At("target"), w[n + 1]).next # Reject
    PROVE  OpeningGoes(w, n, Edge(At("target"), w[n + 1]), n - a)
<1> DEFINE b == w[n + 1]
           e == Edge(At("target"), b)
<1>1. e = IF b \in TargetBytes THEN GoWith(At("target"), "TARGET")
          ELSE IF b = "SP" THEN Go(<<"version", 0, 0>>) ELSE Go(Reject)
  BY DEF Edge, At
<1> HIDE DEF e
<1>2. CASE b \in TargetBytes
  <2>1. e.next = At("target") /\ e.action = "TARGET"
    BY <1>1, <1>2 DEF GoWith
  <2>2. a \in 1..((n + 1) - 1) /\ Span(w, a + 1, n + 1, TargetBytes) /\ (n - a) + 1 = (n + 1) - a
    BY <1>2 DEF Span
  <2>3. InOpening(w, n + 1, At("target"), (n - a) + 1)
    BY <2>2 DEF InOpening
  <2>4. QED
    BY <2>1, <2>3 DEF OpeningGoes, Pathed, DONE, At, e
<1>3. CASE b \notin TargetBytes /\ b = "SP"
  <2>1. e.next = <<"version", 0, 0>> /\ e.action = "none"
    BY <1>1, <1>3 DEF Go
  <2>2. a \in 1..(n + 1) /\ n + 1 \in 1..(n + 1) /\ 0 \in 0..Len(Version) /\ (n + 1) - a - 1 \in 1..MaxTarget
        /\ n + 1 = (n + 1) + 0 /\ (n + 1) - 1 = n
    BY VersionBytes
  <2>3. Opening(w, a, n + 1) /\ VersionAt(w, n + 1, 0)
    BY <1>3, <2>2 DEF Opening, TargetAt, VersionAt
  <2>4. InOpening(w, n + 1, <<"version", 0, 0>>, n - a)
    BY <2>2, <2>3 DEF InOpening
  <2>5. QED
    BY <2>1, <2>4 DEF OpeningGoes, Pathed, DONE, At, e
<1>4. QED
  BY <1>1, <1>2, <1>3 DEF Go, e

\* A byte of the version.
LEMMA VersionByte ==
    ASSUME NEW w, NEW at, NEW n \in Nat, NEW a \in 1..n, NEW b \in 1..n, Opening(w, a, b),
           NEW m \in 0..Len(Version), n = b + m, VersionAt(w, b, m),
           Edge(<<"version", 0, m>>, w[n + 1]).next # Reject
    PROVE  OpeningGoes(w, n, Edge(<<"version", 0, m>>, w[n + 1]), at)
<1> DEFINE byte == w[n + 1]
           e == Edge(<<"version", 0, m>>, byte)
<1>1. e = IF m < Len(Version)
          THEN IF byte = Version[m + 1] THEN Go(<<"version", 0, m + 1>>) ELSE Go(Reject)
          ELSE IF byte \in {"0", "1"} THEN Go(At("version_cr")) ELSE Go(Reject)
  BY DEF Edge
<1>2. a \in 1..(n + 1) /\ b \in 1..(n + 1) /\ m \in Nat /\ Len(Version) \in Nat
  BY VersionBytes
<1> HIDE DEF e
<1> SUFFICES OpeningGoes(w, n, e, at)
  BY DEF e
<1>3. CASE m < Len(Version) /\ byte = Version[m + 1]
  <2>1. e.next = <<"version", 0, m + 1>> /\ e.action = "none"
    BY <1>1, <1>3 DEF Go
  <2>2. m + 1 \in 0..Len(Version) /\ n + 1 = b + (m + 1)
    BY <1>2, <1>3
  <2>3. VersionAt(w, b, m + 1)
    <3>1. ASSUME NEW k \in 1..(m + 1) PROVE w[b + k] = Version[k]
      <4>1. k \in 1..m \/ (k = m + 1 /\ b + k = n + 1)
        BY <1>2, <2>2
      <4>2. QED
        BY <1>3, <4>1 DEF VersionAt
    <3>2. QED
      BY <3>1 DEF VersionAt
  <2>4. InOpening(w, n + 1, <<"version", 0, m + 1>>, at)
    <3>1. PICK k \in 0..Len(Version) : k = m + 1
      BY <2>2
    <3>2. n + 1 = b + k /\ VersionAt(w, b, k)
      BY <2>2, <2>3, <3>1
    <3>3. InOpening(w, n + 1, <<"version", 0, k>>, at)
      BY <1>2, <3>2 DEF InOpening
    <3>4. QED
      BY <3>1, <3>3
  <2>5. QED
    BY <2>1, <2>4 DEF OpeningGoes, Pathed, DONE, At
<1>4. CASE m = Len(Version) /\ byte \in {"0", "1"}
  <2>1. e.next = At("version_cr") /\ e.action = "none"
    BY <1>1, <1>2, <1>4 DEF Go
  <2>2. n + 1 = b + Len(Version) + 1
    BY <1>2, <1>4
  <2>3. InOpening(w, n + 1, At("version_cr"), at)
    BY <1>2, <1>4, <2>2 DEF InOpening
  <2>4. QED
    BY <2>1, <2>3 DEF OpeningGoes, Pathed, DONE, At
<1>5. QED
  BY <1>1, <1>2, <1>3, <1>4 DEF Go, e

\* The CR of the request line,
LEMMA VersionCr ==
    ASSUME NEW w, NEW at, NEW n \in Nat, NEW a \in 1..n, NEW b \in 1..n, Opening(w, a, b),
           VersionAt(w, b, Len(Version)), w[b + Len(Version) + 1] \in {"0", "1"},
           n = b + Len(Version) + 1, Edge(At("version_cr"), w[n + 1]).next # Reject
    PROVE  OpeningGoes(w, n, Edge(At("version_cr"), w[n + 1]), at)
<1> DEFINE e == Edge(At("version_cr"), w[n + 1])
<1>1. e = IF w[n + 1] = "CR" THEN Go(At("version_lf")) ELSE Go(Reject)
  BY DEF Edge, At
<1>2. a \in 1..(n + 1) /\ b \in 1..(n + 1) /\ Len(Version) \in Nat /\ n + 1 = b + Len(Version) + 2
  BY VersionBytes
<1> HIDE DEF e
<1>3. w[n + 1] = "CR" /\ e.next = At("version_lf") /\ e.action = "none"
  BY <1>1 DEF Go, e
<1>4. InOpening(w, n + 1, At("version_lf"), at)
  BY <1>2, <1>3 DEF InOpening
<1>5. QED
  BY <1>3, <1>4 DEF OpeningGoes, Pathed, DONE, At, e

\* and its LF.
LEMMA VersionLf ==
    ASSUME NEW w, NEW at, NEW n \in Nat, NEW a \in 1..n, NEW b \in 1..n, Opening(w, a, b),
           VersionAt(w, b, Len(Version)), w[b + Len(Version) + 1] \in {"0", "1"},
           n = b + Len(Version) + 2, w[n] = "CR", Edge(At("version_lf"), w[n + 1]).next # Reject
    PROVE  OpeningGoes(w, n, Edge(At("version_lf"), w[n + 1]), at)
<1> DEFINE e == Edge(At("version_lf"), w[n + 1])
<1>1. e = IF w[n + 1] = "LF" THEN Go(At("headers")) ELSE Go(Reject)
  BY DEF Edge, At
<1>2. /\ a \in 1..(n + 1) /\ b \in 1..(n + 1) /\ Len(Version) \in Nat
      /\ n + 1 = b + Len(Version) + 3 /\ (n + 1) - 2 = b + Len(Version) + 1 /\ (n + 1) - 1 = n
  BY VersionBytes
<1> HIDE DEF e
<1>3. w[n + 1] = "LF" /\ e.next = At("headers") /\ e.action = "none"
  BY <1>1 DEF Go, e
<1>4. RequestLineAt(w, n + 1)
  BY <1>2, <1>3 DEF RequestLineAt
<1>5. QED
  BY <1>3, <1>4 DEF OpeningGoes, DONE, At, e

\* What the automaton does in the request line is right if it does not refuse.
LEMMA OpeningStep ==
    ASSUME NEW w, NEW n \in Nat, NEW q, NEW at \in 0..MaxTarget, InOpening(w, n, q, at),
           Edge(q, w[n + 1]).next # Reject
    PROVE  OpeningGoes(w, n, Edge(q, w[n + 1]), at)
<1>1. MaxTarget \in Nat
  BY VersionBytes
<1>2. CASE q = <<"method", 0, n>> /\ n <= MaxMethod /\ Span(w, 1, n, TokenBytes) /\ at = 0
  BY <1>2, MethodByte
<1>3. CASE q = At("target_start") /\ MethodAt(w, n) /\ at = 0
  BY <1>3, TargetStartByte
<1>4. CASE q = At("target") /\ \E a \in 1..(n - 1) : /\ MethodAt(w, a) /\ at = n - a
                                       /\ w[a + 1] = "/" /\ Span(w, a + 1, n, TargetBytes)
  <2>1. PICK a \in 1..(n - 1) : /\ MethodAt(w, a) /\ at = n - a
                                /\ w[a + 1] = "/" /\ Span(w, a + 1, n, TargetBytes)
    BY <1>4
  <2>2. n - a <= MaxTarget
    BY <1>1, <2>1
  <2>3. QED
    BY <1>4, <2>1, <2>2, TargetByte
<1>5. ASSUME NEW a \in 1..n, NEW b \in 1..n, Opening(w, a, b),
             NEW m \in 0..Len(Version), q = <<"version", 0, m>>, n = b + m, VersionAt(w, b, m)
      PROVE  OpeningGoes(w, n, Edge(q, w[n + 1]), at)
  BY <1>5, VersionByte
<1>6. ASSUME NEW a \in 1..n, NEW b \in 1..n, Opening(w, a, b),
             VersionAt(w, b, Len(Version)), w[b + Len(Version) + 1] \in {"0", "1"},
             \/ q = At("version_cr") /\ n = b + Len(Version) + 1
             \/ q = At("version_lf") /\ n = b + Len(Version) + 2 /\ w[n] = "CR"
      PROVE  OpeningGoes(w, n, Edge(q, w[n + 1]), at)
  BY <1>6, VersionCr, VersionLf
<1>7. QED
  BY <1>2, <1>3, <1>4, <1>5, <1>6 DEF InOpening

\* A line of the header.
LineGoes(w, s, n, e) ==
    \/ /\ w[n + 1] # "LF" /\ e.next # DONE
       /\ \/ e.action = "none" /\ InLine(w, s, n + 1, e.next)
          \/ e.action = "LENGTH" /\ InLength(w, s, n + 1, e.next, 0)
    \/ /\ w[n + 1] = "LF" /\ e.action = "none"
       /\ \/ e.next = At("headers") /\ PlainLine(w, s, n + 1)
          \/ e.next = DONE /\ n = s /\ w[n] = "CR"

\* A byte of a name that no reserved name begins with.
LEMMA GenericByteGoes ==
    ASSUME NEW w, NEW s \in Nat, NEW n \in Nat, s <= n + 1, Span(w, s, n, TokenBytes),
           s = n + 1 => w[n + 1] # ":",
           w[n + 1] \in TokenBytes => \A j \in DOMAIN Names : ~Begins(w, s, (n + 1 - s) + 1, j),
           w[n + 1] = ":" => Unreserved(w, s, n + 1),
           GenericByte(w[n + 1]).next # Reject
    PROVE  LineGoes(w, s, n, GenericByte(w[n + 1]))
<1> DEFINE b == w[n + 1]
           e == GenericByte(b)
<1>1. e = IF b \in TokenBytes THEN Go(At("generic_name"))
          ELSE IF b = ":" THEN Go(At("value")) ELSE Go(Reject)
  BY DEF GenericByte
<1> HIDE DEF e
<1> SUFFICES LineGoes(w, s, n, e)
  BY DEF e
<1>2. CASE b \in TokenBytes
  <2>1. e.next = At("generic_name") /\ e.action = "none"
    BY <1>1, <1>2 DEF Go
  <2>2. b # "LF" /\ s <= n + 1 /\ Span(w, s, n + 1, TokenBytes)
    BY <1>2, ByteClasses DEF Span
  <2>3. InLine(w, s, n + 1, At("generic_name"))
    BY <1>2, <2>2 DEF InLine
  <2>4. QED
    BY <2>1, <2>2, <2>3 DEF LineGoes, At, DONE
<1>3. CASE b \notin TokenBytes /\ b = ":"
  <2>1. e.next = At("value") /\ e.action = "none"
    BY <1>1, <1>3 DEF Go
  <2>2. s < n + 1 /\ n + 1 \in s..(n + 1) /\ (n + 1) - 1 = n
    BY <1>3
  <2>3. NameAt(w, s, n + 1) /\ Unreserved(w, s, n + 1) /\ Span(w, (n + 1) + 1, n + 1, ValueBytes)
    BY <1>3, <2>2 DEF NameAt, Span
  <2>4. InLine(w, s, n + 1, At("value"))
    BY <2>2, <2>3 DEF InLine
  <2>5. QED
    BY <1>3, <2>1, <2>4 DEF LineGoes, At, DONE
<1>4. QED
  BY <1>1, <1>2, <1>3 DEF Go, e

\* The first byte of a line.
LEMMA FirstByteGoes ==
    ASSUME NEW w, NEW s \in Nat, NEW n \in Nat, n = s - 1, FirstByte(w[n + 1]).next # Reject
    PROVE  LineGoes(w, s, n, FirstByte(w[n + 1]))
<1> DEFINE b == w[n + 1]
           matching == {j \in DOMAIN Names : Names[j][1] = Folded(b)}
           chosen == CHOOSE j \in matching : TRUE
<1>1. CASE matching # {}
  <2>1. chosen \in matching
    BY <1>1
  <2>2. PICK j \in DOMAIN Names : j = chosen /\ Names[j][1] = Folded(b)
    BY <2>1
  <2>3. FirstByte(b) = Go(<<"name", j, 1>>)
    BY <1>1, <2>2 DEF FirstByte
  <2>4. 1 \in 1..Len(Names[j]) /\ Len(Names[j]) \in Nat /\ Names[j][1] \in Letters
    BY NameLetters
  <2>5. Begins(w, s, 1, j)
    <3>1. s + 1 - 1 = n + 1
      OBVIOUS
    <3>2. ASSUME NEW k \in 1..1 PROVE Folded(w[s + k - 1]) = Names[j][k]
      <4>1. k = 1
        OBVIOUS
      <4>2. QED
        BY <2>2, <3>1, <4>1
    <3>3. QED
      BY <2>4, <3>2 DEF Begins
  <2>6. n + 1 = (s + 1) - 1
    OBVIOUS
  <2>7. InLine(w, s, n + 1, <<"name", j, 1>>)
    BY <2>4, <2>5, <2>6 DEF InLine
  <2>8. b # "LF"
    BY <2>2, <2>4, ByteClasses
  <2>9. QED
    BY <2>3, <2>7, <2>8 DEF LineGoes, Go, DONE, At
<1>2. CASE matching = {}
  <2>1. FirstByte(b) = IF b \in TokenBytes THEN Go(At("generic_name")) ELSE Go(Reject)
    BY <1>2 DEF FirstByte
  <2>2. b \in TokenBytes /\ FirstByte(b) = GenericByte(b)
    BY <2>1 DEF Go, GenericByte
  <2>3. ASSUME NEW j \in DOMAIN Names, Begins(w, s, (n + 1 - s) + 1, j) PROVE FALSE
    <3>1. (n + 1 - s) + 1 = 1 /\ s + 1 - 1 = n + 1
      OBVIOUS
    <3>2. Folded(w[n + 1]) = Names[j][1]
      BY <2>3, <3>1 DEF Begins
    <3>3. QED
      BY <1>2, <3>2
  <2>4. Span(w, s, n, TokenBytes) /\ s <= n + 1 /\ b # ":"
    BY <2>2, ByteClasses DEF Span
  <2> HIDE DEF matching
  <2>5. LineGoes(w, s, n, GenericByte(b))
    BY <2>1, <2>2, <2>3, <2>4, GenericByteGoes
  <2>6. QED
    BY <2>2, <2>5
<1>3. QED
  BY <1>1, <1>2

\* A byte after a generic name's beginning.
LEMMA GenericNameGoes ==
    ASSUME NEW w, NEW s \in Nat, NEW n \in Nat, s <= n, Span(w, s, n, TokenBytes),
           \A j \in DOMAIN Names : ~Begins(w, s, (n - s) + 1, j),
           GenericByte(w[n + 1]).next # Reject
    PROVE  LineGoes(w, s, n, GenericByte(w[n + 1]))
<1>1. PICK k \in Nat : k = (n - s) + 1 /\ k + 1 = (n + 1 - s) + 1 /\ k = (n + 1) - s
  OBVIOUS
<1>2. \A j \in DOMAIN Names : ~Begins(w, s, k + 1, j)
  <2> SUFFICES ASSUME NEW j \in DOMAIN Names, Begins(w, s, k + 1, j) PROVE Begins(w, s, k, j)
    BY <1>1
  <2>1. QED
    BY NameLetters DEF Begins
<1>3. Unreserved(w, s, n + 1)
  BY <1>1 DEF Unreserved, Called
<1>4. QED
  BY <1>1, <1>2, <1>3, GenericByteGoes

\* A byte after a reserved name's beginning.
LEMMA NameByteGoes ==
    ASSUME NEW w, NEW s \in Nat, NEW n \in Nat, NEW j \in DOMAIN Names, NEW m \in 1..Len(Names[j]),
           n = (s + m) - 1, Begins(w, s, m, j), NameByte(j, m, w[n + 1]).next # Reject
    PROVE  LineGoes(w, s, n, NameByte(j, m, w[n + 1]))
<1> DEFINE b == w[n + 1]
<1>1. Len(Names[j]) \in Nat /\ m \in Nat /\ Names[j] \in Seq(Letters)
  BY NameLetters, FramingAssumption
<1>2. s <= n /\ Span(w, s, n, TokenBytes)
  BY <1>1, BeginsToken
<1>3. CASE m < Len(Names[j]) /\ Folded(b) = Names[j][m + 1]
  <2>1. NameByte(j, m, b) = Go(<<"name", j, m + 1>>)
    BY <1>3 DEF NameByte
  <2>2. PICK k \in 1..Len(Names[j]) : k = m + 1 /\ n + 1 = (s + k) - 1
    BY <1>1, <1>3
  <2>3. Begins(w, s, k, j)
    <3>1. ASSUME NEW i \in 1..k PROVE Folded(w[s + i - 1]) = Names[j][i]
      <4>1. i \in 1..m \/ (i = m + 1 /\ s + i - 1 = n + 1)
        BY <1>1, <2>2
      <4>2. QED
        BY <1>3, <4>1 DEF Begins
    <3>2. QED
      BY <2>2, <3>1 DEF Begins
  <2>4. InLine(w, s, n + 1, <<"name", j, k>>)
    BY <2>2, <2>3 DEF InLine
  <2>5. b # "LF"
    BY <1>3, <2>2, NameLetters, ByteClasses
  <2>6. QED
    BY <2>1, <2>2, <2>4, <2>5 DEF LineGoes, Go, DONE, At
<1>4. CASE m = Len(Names[j]) /\ b = ":"
  <2>1. NameByte(j, m, b) = IF j = 1 THEN GoWith(At("leading"), "LENGTH") ELSE Go(Reject)
    BY <1>1, <1>4 DEF NameByte
  <2>2. j = 1 /\ NameByte(j, m, b) = GoWith(At("leading"), "LENGTH")
    BY <2>1 DEF Go
  <2>3. n + 1 \in s..(n + 1) /\ (n + 1) - 1 = n /\ (n + 1) - s = m /\ s < n + 1
    BY <1>1, <1>2
  <2>4. NameAt(w, s, n + 1) /\ Called(w, s, n + 1, 1) /\ Span(w, (n + 1) + 1, n + 1, Blanks)
    BY <1>2, <1>4, <2>2, <2>3 DEF NameAt, Called, Span
  <2>5. InLength(w, s, n + 1, At("leading"), 0)
    BY <2>3, <2>4 DEF InLength
  <2>6. QED
    BY <1>4, <2>2, <2>5 DEF LineGoes, GoWith, DONE, At
<1>5. CASE /\ ~(m < Len(Names[j]) /\ Folded(b) = Names[j][m + 1])
           /\ ~(m = Len(Names[j]) /\ b = ":")
  <2>1. NameByte(j, m, b) = GenericByte(b)
    BY <1>5 DEF NameByte
  <2>2. n + 1 - s = m /\ (n + 1 - s) + 1 = m + 1 /\ s + (m + 1) - 1 = n + 1
    BY <1>1
  <2>3. ASSUME NEW i \in DOMAIN Names, Begins(w, s, m + 1, i) PROVE FALSE
    <3>1. i = j
      BY <1>1, <2>3, BeginsOne
    <3>2. m + 1 <= Len(Names[j]) /\ Folded(w[s + (m + 1) - 1]) = Names[j][m + 1]
      BY <1>1, <2>3, <3>1 DEF Begins
    <3>3. QED
      BY <1>1, <1>5, <2>2, <3>2
  <2>4. ASSUME b = ":", NEW i \in DOMAIN Names, Called(w, s, n + 1, i) PROVE FALSE
    <3>1. m = Len(Names[i]) /\ Begins(w, s, m, i)
      BY <2>2, <2>4 DEF Called
    <3>2. i = j
      BY <1>1, <3>1, BeginsOne
    <3>3. QED
      BY <1>5, <2>4, <3>1, <3>2
  <2>5. LineGoes(w, s, n, GenericByte(b))
    BY <1>2, <2>1, <2>2, <2>3, <2>4, GenericByteGoes DEF Unreserved
  <2>6. QED
    BY <2>1, <2>5
<1>6. QED
  BY <1>3, <1>4, <1>5

\* A byte of a plain header's value.
LEMMA ValueGoes ==
    ASSUME NEW w, NEW s \in Nat, NEW n \in Nat, NEW c \in s..n, NameAt(w, s, c), Unreserved(w, s, c),
           Span(w, c + 1, n, ValueBytes), Edge(At("value"), w[n + 1]).next # Reject
    PROVE  LineGoes(w, s, n, Edge(At("value"), w[n + 1]))
<1> DEFINE b == w[n + 1]
           e == Edge(At("value"), b)
<1>1. e = IF b \in ValueBytes THEN Go(At("value"))
          ELSE IF b = "CR" THEN Go(At("value_lf")) ELSE Go(Reject)
  BY DEF Edge, At
<1>2. c \in s..(n + 1) /\ c \in Nat
  OBVIOUS
<1> HIDE DEF e
<1> SUFFICES LineGoes(w, s, n, e)
  BY DEF e
<1>3. CASE b \in ValueBytes
  <2>1. Span(w, c + 1, n + 1, ValueBytes)
    BY <1>3 DEF Span
  <2>2. InLine(w, s, n + 1, At("value"))
    BY <1>2, <2>1 DEF InLine
  <2>3. QED
    BY <1>1, <1>3, <2>2, ByteClasses DEF LineGoes, Go, DONE, At
<1>4. CASE b \notin ValueBytes /\ b = "CR"
  <2>1. c <= (n + 2) - 2 /\ (n + 2) - 2 = n /\ (n + 2) - 1 = n + 1 /\ (n + 1) + 1 = n + 2
    BY <1>2
  <2>2. HeaderAt(w, s, c, n + 2)
    BY <1>4, <2>1 DEF HeaderAt
  <2>3. InLine(w, s, n + 1, At("value_lf"))
    BY <1>2, <2>1, <2>2 DEF InLine
  <2>4. QED
    BY <1>1, <1>4, <2>3 DEF LineGoes, Go, DONE, At
<1>5. QED
  BY <1>1, <1>3, <1>4 DEF Go, e

\* A byte of a line that is not a Content-Length.
LEMMA LineStep ==
    ASSUME NEW w, NEW s \in Nat, NEW n \in Nat, s - 1 <= n, NEW q, InLine(w, s, n, q),
           Edge(q, w[n + 1]).next # Reject
    PROVE  LineGoes(w, s, n, Edge(q, w[n + 1]))
<1> DEFINE b == w[n + 1]
<1>1. CASE q = At("headers") /\ n = s - 1
  <2>1. Edge(q, b) = IF b = "CR" THEN Go(At("end_lf")) ELSE FirstByte(b)
    BY <1>1 DEF Edge, At
  <2>2. CASE b = "CR"
    <3>1. n + 1 = s
      BY <1>1
    <3>2. InLine(w, s, n + 1, At("end_lf"))
      BY <2>2, <3>1 DEF InLine
    <3>3. QED
      BY <2>1, <2>2, <3>2 DEF LineGoes, Go, At, DONE
  <2>3. CASE b # "CR"
    BY <1>1, <2>1, <2>3, FirstByteGoes
  <2>4. QED
    BY <2>2, <2>3
<1>2. CASE q = At("end_lf") /\ n = s /\ w[n] = "CR"
  <2>1. Edge(q, b) = IF b = "LF" THEN Go(DONE) ELSE Go(Reject)
    BY <1>2 DEF Edge, At
  <2>2. QED
    BY <1>2, <2>1 DEF LineGoes, Go
<1>3. CASE /\ q = At("generic_name") /\ s <= n /\ Span(w, s, n, TokenBytes)
           /\ \A j \in DOMAIN Names : ~Begins(w, s, (n - s) + 1, j)
  <2>1. Edge(q, b) = GenericByte(b)
    BY <1>3 DEF Edge, At
  <2>2. QED
    BY <1>3, <2>1, GenericNameGoes
<1>4. ASSUME NEW j \in DOMAIN Names, NEW m \in 1..Len(Names[j]), q = <<"name", j, m>>,
             n = (s + m) - 1, Begins(w, s, m, j)
      PROVE  LineGoes(w, s, n, Edge(q, b))
  <2>1. Edge(q, b) = NameByte(j, m, b)
    BY <1>4 DEF Edge
  <2>2. QED
    BY <1>4, <2>1, NameByteGoes
<1>5. ASSUME NEW c \in s..n, NameAt(w, s, c), Unreserved(w, s, c), q = At("value"),
             Span(w, c + 1, n, ValueBytes)
      PROVE  LineGoes(w, s, n, Edge(q, b))
  BY <1>5, ValueGoes
<1>6. ASSUME NEW c \in s..n, Unreserved(w, s, c), q = At("value_lf"), HeaderAt(w, s, c, n + 1)
      PROVE  LineGoes(w, s, n, Edge(q, b))
  <2>1. Edge(q, b) = IF b = "LF" THEN Go(At("headers")) ELSE Go(Reject)
    BY <1>6 DEF Edge, At
  <2>2. c \in s..(n + 1)
    OBVIOUS
  <2>3. PlainLine(w, s, n + 1)
    BY <1>6, <2>2 DEF PlainLine
  <2>4. QED
    BY <2>1, <2>3 DEF LineGoes, Go
<1>7. QED
  BY <1>1, <1>2, <1>3, <1>4, <1>5, <1>6 DEF InLine

\* The line of a length.
LengthGoes(w, s, n, e, v) ==
    \/ /\ w[n + 1] # "LF" /\ e.next # DONE /\ e.action \in {"none", "DIGIT"}
       /\ InLength(w, s, n + 1, e.next, Measured(e, w[n + 1], v))
    \/ /\ w[n + 1] = "LF" /\ e.action = "none" /\ e.next = At("headers")
       /\ LengthLine(w, s, n + 1, v)

\* A byte before the number,
LEMMA LeadingGoes ==
    ASSUME NEW w, NEW s \in Nat, NEW n \in Nat, NEW c \in s..n, NameAt(w, s, c), Called(w, s, c, 1),
           Span(w, c + 1, n, Blanks), Edge(At("leading"), w[n + 1]).next # Reject
    PROVE  LengthGoes(w, s, n, Edge(At("leading"), w[n + 1]), 0)
<1> DEFINE b == w[n + 1]
           e == Edge(At("leading"), b)
<1>1. e = IF b \in Digits THEN GoWith(At("digits"), "DIGIT")
          ELSE IF b \in Blanks THEN Go(At("leading")) ELSE Go(Reject)
  BY DEF Edge, At
<1>2. c \in s..(n + 1) /\ c \in Nat
  OBVIOUS
<1> HIDE DEF e
<1> SUFFICES LengthGoes(w, s, n, e, 0)
  BY DEF e
<1>3. CASE b \in Digits
  <2>1. n + 1 \in (c + 1)..(n + 1) /\ (n + 1) - 1 = n
    BY <1>2
  <2>2. Span(w, n + 1, n + 1, Digits)
    BY <1>3 DEF Span
  <2>3. Decimal(SubSeq(w, n + 1, n + 1)) = Decimal(SubSeq(w, n + 1, (n + 1) - 1)) * 10 + Value(b)
    BY RangeGrows
  <2>4. Decimal(SubSeq(w, n + 1, (n + 1) - 1)) = 0
    BY RangeStarts
  <2>5. Measured(e, b, 0) = Decimal(SubSeq(w, n + 1, n + 1))
    BY <1>1, <1>3, <2>3, <2>4 DEF Measured, GoWith
  <2>6. InLength(w, s, n + 1, At("digits"), Decimal(SubSeq(w, n + 1, n + 1)))
    BY <1>2, <2>1, <2>2 DEF InLength
  <2>7. QED
    BY <1>1, <1>3, <2>5, <2>6, ByteClasses DEF LengthGoes, GoWith, DONE, At
<1>4. CASE b \notin Digits /\ b \in Blanks
  <2>1. Span(w, c + 1, n + 1, Blanks)
    BY <1>4 DEF Span
  <2>2. InLength(w, s, n + 1, At("leading"), 0)
    BY <1>2, <2>1 DEF InLength
  <2>3. QED
    BY <1>1, <1>4, <2>2, ByteClasses DEF LengthGoes, Go, DONE, At, Measured
<1>5. QED
  BY <1>1, <1>3, <1>4 DEF Go, e

\* After the first digit: another one, blanks, and CR.
LEMMA DigitsGo ==
    ASSUME NEW w, NEW s \in Nat, NEW n \in Nat, NEW c \in s..n, NameAt(w, s, c), Called(w, s, c, 1),
           NEW x \in (c + 1)..n, Span(w, c + 1, x - 1, Blanks), Span(w, x, n, Digits),
           Edge(At("digits"), w[n + 1]).next # Reject
    PROVE  LengthGoes(w, s, n, Edge(At("digits"), w[n + 1]), Decimal(SubSeq(w, x, n)))
<1> DEFINE b == w[n + 1]
           e == Edge(At("digits"), b)
           v == Decimal(SubSeq(w, x, n))
<1>1. e = IF b \in Digits THEN GoWith(At("digits"), "DIGIT")
          ELSE IF b \in Blanks THEN Go(At("trailing"))
          ELSE IF b = "CR" THEN Go(At("value_lf")) ELSE Go(Reject)
  BY DEF Edge, At
<1>2. c \in s..(n + 1) /\ c \in Nat /\ x \in (c + 1)..(n + 1) /\ n \in (c + 1)..(n + 1) /\ x <= n
  OBVIOUS
<1> HIDE DEF e
<1> SUFFICES LengthGoes(w, s, n, e, v)
  BY DEF e
<1>3. CASE b \in Digits
  <2>1. Span(w, x, n + 1, Digits)
    BY <1>3 DEF Span
  <2>2. Decimal(SubSeq(w, x, n + 1)) = v * 10 + Value(b)
    BY <1>2, RangeGrows
  <2>3. Measured(e, b, v) = Decimal(SubSeq(w, x, n + 1))
    BY <1>1, <1>3, <2>2 DEF Measured, GoWith
  <2>4. InLength(w, s, n + 1, At("digits"), Decimal(SubSeq(w, x, n + 1)))
    BY <1>2, <2>1 DEF InLength
  <2>5. QED
    BY <1>1, <1>3, <2>3, <2>4, ByteClasses DEF LengthGoes, GoWith, DONE, At
<1>4. CASE b \notin Digits /\ b \in Blanks
  <2>1. Span(w, n + 1, (n + 3) - 2, Blanks)
    BY <1>4 DEF Span
  <2>2. NumberAt(w, c, x, n, (n + 1) + 2)
    BY <1>2, <2>1 DEF NumberAt
  <2>3. InLength(w, s, n + 1, At("trailing"), v)
    BY <1>2, <2>2 DEF InLength
  <2>4. QED
    BY <1>1, <1>4, <2>3, ByteClasses DEF LengthGoes, Go, DONE, At, Measured
<1>5. CASE b \notin Digits /\ b \notin Blanks /\ b = "CR"
  <2>1. Span(w, n + 1, (n + 2) - 2, Blanks)
    BY DEF Span
  <2>2. NumberAt(w, c, x, n, (n + 1) + 1)
    BY <1>2, <2>1 DEF NumberAt
  <2>3. InLength(w, s, n + 1, At("value_lf"), v)
    BY <1>2, <1>5, <2>2 DEF InLength
  <2>4. QED
    BY <1>1, <1>5, <2>3 DEF LengthGoes, Go, DONE, At, Measured
<1>6. QED
  BY <1>1, <1>3, <1>4, <1>5 DEF Go, e

\* after it,
LEMMA TrailingGoes ==
    ASSUME NEW w, NEW s \in Nat, NEW n \in Nat, NEW c \in s..n, NameAt(w, s, c), Called(w, s, c, 1),
           NEW x \in (c + 1)..n, NEW y \in (c + 1)..n, y < n, NumberAt(w, c, x, y, n + 2),
           Edge(At("trailing"), w[n + 1]).next # Reject
    PROVE  LengthGoes(w, s, n, Edge(At("trailing"), w[n + 1]), Decimal(SubSeq(w, x, y)))
<1> DEFINE b == w[n + 1]
           e == Edge(At("trailing"), b)
           v == Decimal(SubSeq(w, x, y))
<1>1. e = IF b \in Blanks THEN Go(At("trailing"))
          ELSE IF b = "CR" THEN Go(At("value_lf")) ELSE Go(Reject)
  BY DEF Edge, At
<1>2. /\ c \in s..(n + 1) /\ c \in Nat /\ x \in (c + 1)..(n + 1) /\ y \in (c + 1)..(n + 1)
      /\ (n + 2) - 2 = n /\ (n + 1) + 1 = n + 2 /\ ((n + 1) + 2) - 2 = n + 1
  OBVIOUS
<1> HIDE DEF e
<1> SUFFICES LengthGoes(w, s, n, e, v)
  BY DEF e
<1>3. CASE b \in Blanks
  <2>1. Span(w, y + 1, n + 1, Blanks)
    BY <1>2, <1>3 DEF NumberAt, Span
  <2>2. NumberAt(w, c, x, y, (n + 1) + 2)
    BY <1>2, <2>1 DEF NumberAt
  <2>3. InLength(w, s, n + 1, At("trailing"), v)
    BY <1>2, <2>2 DEF InLength
  <2>4. QED
    BY <1>1, <1>3, <2>3, ByteClasses DEF LengthGoes, Go, DONE, At, Measured
<1>4. CASE b \notin Blanks /\ b = "CR"
  <2>1. InLength(w, s, n + 1, At("value_lf"), v)
    BY <1>2, <1>4 DEF InLength
  <2>2. QED
    BY <1>1, <1>4, <2>1 DEF LengthGoes, Go, DONE, At, Measured
<1>5. QED
  BY <1>1, <1>3, <1>4 DEF Go, e

\* and the LF of the line.
LEMMA LengthEnds ==
    ASSUME NEW w, NEW s \in Nat, NEW n \in Nat, NEW c \in s..n, NameAt(w, s, c), Called(w, s, c, 1),
           NEW x \in (c + 1)..n, NEW y \in (c + 1)..n, NumberAt(w, c, x, y, n + 1), w[n] = "CR",
           Edge(At("value_lf"), w[n + 1]).next # Reject
    PROVE  LengthGoes(w, s, n, Edge(At("value_lf"), w[n + 1]), Decimal(SubSeq(w, x, y)))
<1> DEFINE b == w[n + 1]
           e == Edge(At("value_lf"), b)
<1>1. e = IF b = "LF" THEN Go(At("headers")) ELSE Go(Reject)
  BY DEF Edge, At
<1>2. /\ c \in s..(n + 1) /\ c \in Nat /\ x \in s..(n + 1) /\ y \in s..(n + 1)
      /\ (n + 1) - 2 = n - 1 /\ (n + 1) - 1 = n /\ c < x /\ x <= y /\ y <= n - 1
  BY DEF NumberAt
<1> HIDE DEF e
<1> SUFFICES LengthGoes(w, s, n, e, Decimal(SubSeq(w, x, y)))
  BY DEF e
<1>3. b = "LF" /\ e.next = At("headers") /\ e.action = "none"
  BY <1>1 DEF Go, e
<1>4. Span(w, c + 1, n - 1, ValueBytes)
  <2>1. ASSUME NEW k \in (c + 1)..(n - 1) PROVE w[k] \in Blanks \cup Digits
    <3>1. k \in (c + 1)..(x - 1) \/ k \in x..y \/ k \in (y + 1)..(n - 1)
      BY <1>2
    <3>2. QED
      BY <1>2, <3>1 DEF NumberAt, Span
  <2>2. QED
    BY <2>1, ByteClasses DEF Span
<1>5. HeaderAt(w, s, c, n + 1)
  BY <1>2, <1>4 DEF HeaderAt
<1>6. LengthLine(w, s, n + 1, Decimal(SubSeq(w, x, y)))
  BY <1>2, <1>5 DEF LengthLine
<1>7. QED
  BY <1>3, <1>6 DEF LengthGoes

\* A byte of a Content-Length.
LEMMA LengthStep ==
    ASSUME NEW w, NEW s \in Nat, NEW n \in Nat, NEW q, NEW v, InLength(w, s, n, q, v),
           Edge(q, w[n + 1]).next # Reject
    PROVE  LengthGoes(w, s, n, Edge(q, w[n + 1]), v)
<1>1. PICK c \in s..n :
        /\ NameAt(w, s, c) /\ Called(w, s, c, 1)
        /\ \/ q = At("leading") /\ v = 0 /\ Span(w, c + 1, n, Blanks)
           \/ \E x \in (c + 1)..n :
                 /\ q = At("digits")
                 /\ Span(w, c + 1, x - 1, Blanks) /\ Span(w, x, n, Digits)
                 /\ v = Decimal(SubSeq(w, x, n))
           \/ \E x, y \in (c + 1)..n :
                 /\ \/ q = At("trailing") /\ y < n /\ NumberAt(w, c, x, y, n + 2)
                    \/ q = At("value_lf") /\ NumberAt(w, c, x, y, n + 1) /\ w[n] = "CR"
                 /\ v = Decimal(SubSeq(w, x, y))
  BY DEF InLength
<1>2. CASE q = At("leading") /\ v = 0 /\ Span(w, c + 1, n, Blanks)
  BY <1>1, <1>2, LeadingGoes
<1>3. ASSUME NEW x \in (c + 1)..n, q = At("digits"), Span(w, c + 1, x - 1, Blanks),
             Span(w, x, n, Digits), v = Decimal(SubSeq(w, x, n))
      PROVE  LengthGoes(w, s, n, Edge(q, w[n + 1]), v)
  BY <1>1, <1>3, DigitsGo
<1>4. ASSUME NEW x \in (c + 1)..n, NEW y \in (c + 1)..n, v = Decimal(SubSeq(w, x, y)),
             \/ q = At("trailing") /\ y < n /\ NumberAt(w, c, x, y, n + 2)
             \/ q = At("value_lf") /\ NumberAt(w, c, x, y, n + 1) /\ w[n] = "CR"
      PROVE  LengthGoes(w, s, n, Edge(q, w[n + 1]), v)
  BY <1>1, <1>4, TrailingGoes, LengthEnds
<1>5. QED
  BY <1>1, <1>2, <1>3, <1>4

HeadersGo(w, n, e, count, v) ==
    \/ e.next = DONE /\ e.action = "none" /\ RequestAt(w, n + 1, v)
    \/ /\ e.next # DONE /\ e.action \in {"none", "LENGTH", "DIGIT"}
       /\ InHeaders(w, n + 1, e.next, Counting(e, count), Measured(e, w[n + 1], v))

\* The blank line.
LEMMA EndOfHeader ==
    ASSUME NEW w, NEW n \in Nat, NEW f \in 1..n, NEW s \in (f + 1)..(n + 1), NEW count, NEW v,
           RequestLineAt(w, f), w[s - 1] = "LF", Counted(w, f, s - 1, count, v),
           n = s, w[n] = "CR", w[n + 1] = "LF"
    PROVE  RequestAt(w, n + 1, v)
<1>1. /\ (n + 1) - 1 = n /\ (n + 1) - 2 = s - 1 /\ (n + 1) - 3 = (s - 1) - 1
      /\ f \in 1..(s - 1) /\ f \in Nat /\ s - 1 \in Nat
  OBVIOUS
<1>2. w[(s - 1) - 1] = "CR"
  <2>1. CASE s - 1 = f
    BY <1>1, <2>1, RequestLinePlain
  <2>2. CASE s - 1 # f
    <3>1. s - 1 \in (f + 1)..(s - 1)
      BY <1>1, <2>2
    <3>2. QED
      BY <1>1, <3>1, NoBlankLine
  <2>3. QED
    BY <2>1, <2>2
<1>3. count \in {0, 1}
  BY DEF Counted
<1>4. QED
  BY <1>1, <1>2, <1>3 DEF RequestAt

\* What the automaton does in a header is right if it does not refuse.
LEMMA HeaderStep ==
    ASSUME NEW w, NEW n \in Nat, NEW q, NEW count, NEW v, InHeaders(w, n, q, count, v),
           Edge(q, w[n + 1]).next # Reject,
           ~(Edge(q, w[n + 1]).action = "LENGTH" /\ count = 1)
    PROVE  HeadersGo(w, n, Edge(q, w[n + 1]), count, v)
<1>0. PICK e : e = Edge(q, w[n + 1])
  OBVIOUS
<1>1. PICK f \in 1..n : \E s \in (f + 1)..(n + 1) :
        /\ RequestLineAt(w, f) /\ w[s - 1] = "LF" /\ \A k \in s..n : w[k] # "LF"
        /\ \/ Counted(w, f, s - 1, count, v) /\ InLine(w, s, n, q)
           \/ count = 1 /\ Lines(w, f, s - 1, 0) /\ InLength(w, s, n, q, v)
  BY DEF InHeaders
<1>2. PICK s \in (f + 1)..(n + 1) :
        /\ RequestLineAt(w, f) /\ w[s - 1] = "LF" /\ \A k \in s..n : w[k] # "LF"
        /\ \/ Counted(w, f, s - 1, count, v) /\ InLine(w, s, n, q)
           \/ count = 1 /\ Lines(w, f, s - 1, 0) /\ InLength(w, s, n, q, v)
  BY <1>1
<1>3. /\ f \in 1..(n + 1) /\ s \in (f + 1)..((n + 1) + 1) /\ n + 1 \in Nat /\ s \in Nat /\ f \in Nat
      /\ s - 1 <= n /\ f < s
  OBVIOUS
<1> SUFFICES HeadersGo(w, n, e, count, v)
  BY <1>0
\* The line goes on.
<1>4. ASSUME w[n + 1] # "LF", e.next # DONE, e.action \in {"none", "LENGTH", "DIGIT"},
             \/ /\ Counted(w, f, s - 1, Counting(e, count), Measured(e, w[n + 1], v))
                /\ InLine(w, s, n + 1, e.next)
             \/ /\ Counting(e, count) = 1 /\ Lines(w, f, s - 1, 0)
                /\ InLength(w, s, n + 1, e.next, Measured(e, w[n + 1], v))
      PROVE  HeadersGo(w, n, e, count, v)
  <2>1. \A k \in s..(n + 1) : w[k] # "LF"
    BY <1>2, <1>4
  <2>2. InHeaders(w, n + 1, e.next, Counting(e, count), Measured(e, w[n + 1], v))
    BY <1>2, <1>3, <1>4, <2>1 DEF InHeaders
  <2>3. QED
    BY <1>4, <2>2 DEF HeadersGo
\* The line is over.
<1>5. ASSUME w[n + 1] = "LF", e.next = At("headers"), e.action = "none",
             Counted(w, f, n + 1, count, v)
      PROVE  HeadersGo(w, n, e, count, v)
  <2>1. /\ (n + 1) + 1 = n + 2 /\ (n + 2) - 1 = n + 1 /\ n + 2 \in (f + 1)..((n + 1) + 1)
        /\ \A k \in (n + 2)..(n + 1) : w[k] # "LF"
    BY <1>3
  <2>2. InLine(w, n + 2, n + 1, At("headers"))
    BY <2>1 DEF InLine
  <2>3. InHeaders(w, n + 1, At("headers"), count, v)
    BY <1>2, <1>3, <1>5, <2>1, <2>2 DEF InHeaders
  <2>4. Counting(e, count) = count /\ Measured(e, w[n + 1], v) = v
    BY <1>5 DEF Counting, Measured
  <2>5. QED
    BY <1>5, <2>3, <2>4 DEF HeadersGo, At, DONE
<1>6. w[n + 1] = "LF" => LineAt(w, s, n + 1)
  BY <1>2, <1>3 DEF LineAt
<1>7. CASE Counted(w, f, s - 1, count, v) /\ InLine(w, s, n, q)
  <2>1. LineGoes(w, s, n, e)
    BY <1>0, <1>1, <1>3, <1>7, LineStep
  <2>2. CASE w[n + 1] # "LF" /\ e.next # DONE /\ e.action = "none" /\ InLine(w, s, n + 1, e.next)
    <3>1. Counting(e, count) = count /\ Measured(e, w[n + 1], v) = v
      BY <2>2 DEF Counting, Measured
    <3>2. QED
      BY <1>4, <1>7, <2>2, <3>1
  <2>3. CASE w[n + 1] # "LF" /\ e.next # DONE /\ e.action = "LENGTH" /\ InLength(w, s, n + 1, e.next, 0)
    <3>1. count # 1
      BY <1>0, <2>3
    <3>2. v = 0 /\ Lines(w, f, s - 1, 0)
      BY <1>7, <3>1 DEF Counted
    <3>3. Counting(e, count) = 1 /\ Measured(e, w[n + 1], v) = 0
      BY <2>3, <3>2 DEF Counting, Measured
    <3>4. QED
      BY <1>4, <2>3, <3>2, <3>3
  <2>4. CASE w[n + 1] = "LF" /\ e.action = "none" /\ e.next = At("headers") /\ PlainLine(w, s, n + 1)
    <3>1. Counted(w, f, n + 1, count, v)
      BY <1>3, <1>6, <1>7, <2>4, PlainGrows
    <3>2. QED
      BY <1>5, <2>4, <3>1
  <2>5. CASE w[n + 1] = "LF" /\ e.action = "none" /\ e.next = DONE /\ n = s /\ w[n] = "CR"
    <3>1. RequestAt(w, n + 1, v)
      BY <1>2, <1>7, <2>5, EndOfHeader
    <3>2. QED
      BY <2>5, <3>1 DEF HeadersGo
  <2>6. QED
    BY <2>1, <2>2, <2>3, <2>4, <2>5 DEF LineGoes
<1>8. CASE count = 1 /\ Lines(w, f, s - 1, 0) /\ InLength(w, s, n, q, v)
  <2>1. LengthGoes(w, s, n, e, v)
    BY <1>0, <1>1, <1>3, <1>8, LengthStep
  <2>2. CASE /\ w[n + 1] # "LF" /\ e.next # DONE /\ e.action \in {"none", "DIGIT"}
             /\ InLength(w, s, n + 1, e.next, Measured(e, w[n + 1], v))
    <3>1. Counting(e, count) = 1
      BY <1>8 DEF Counting
    <3>2. QED
      BY <1>4, <1>8, <2>2, <3>1
  <2>3. CASE /\ w[n + 1] = "LF" /\ e.action = "none" /\ e.next = At("headers")
             /\ LengthLine(w, s, n + 1, v)
    <3>1. Counted(w, f, n + 1, 1, v)
      BY <1>3, <1>6, <1>8, <2>3, LengthGrows
    <3>2. QED
      BY <1>5, <1>8, <2>3, <3>1
  <2>4. QED
    BY <2>1, <2>2, <2>3 DEF LengthGoes
<1>9. QED
  BY <1>2, <1>7, <1>8

-----------------------------------------------------------------------------
(* No byte of a request is refused. *)

\* The request line has no LF before its end.
LEMMA OpeningShort ==
    ASSUME NEW w, NEW n \in Nat, NEW q, NEW at, InOpening(w, n, q, at)
    PROVE  \A k \in 1..n : w[k] # "LF"
<1> SUFFICES ASSUME NEW k \in 1..n PROVE w[k] # "LF"
  OBVIOUS
<1>1. ASSUME Span(w, 1, n, TokenBytes) PROVE w[k] # "LF"
  BY <1>1, ByteClasses DEF Span
<1>2. ASSUME MethodAt(w, n) PROVE w[k] # "LF"
  BY <1>2, ByteClasses DEF MethodAt, Span
<1>3. ASSUME NEW a \in 1..(n - 1), MethodAt(w, a), Span(w, a + 1, n, TargetBytes) PROVE w[k] # "LF"
  BY <1>3, ByteClasses DEF MethodAt, Span
<1>4. ASSUME NEW a \in 1..n, NEW b \in 1..n, Opening(w, a, b),
             NEW m \in 0..Len(Version), n = b + m, VersionAt(w, b, m)
      PROVE  w[k] # "LF"
  <2>1. k \in 1..b \/ k \in (b + 1)..(b + m)
    BY <1>4, VersionBytes
  <2>2. QED
    BY <1>4, <2>1, OpeningPlain, VersionPlain
<1>5. ASSUME NEW a \in 1..n, NEW b \in 1..n, Opening(w, a, b), VersionAt(w, b, Len(Version)),
             w[b + Len(Version) + 1] \in {"0", "1"},
             n = b + Len(Version) + 1 \/ (n = b + Len(Version) + 2 /\ w[n] = "CR")
      PROVE  w[k] # "LF"
  <2>1. k \in 1..b \/ k \in (b + 1)..(b + Len(Version)) \/ k = b + Len(Version) + 1
        \/ (k = n /\ w[n] = "CR")
    BY <1>5, VersionBytes
  <2>2. QED
    BY <1>5, <2>1, OpeningPlain, VersionPlain, VersionBytes
<1>6. QED
  BY <1>1, <1>2, <1>3, <1>4, <1>5 DEF InOpening

\* No byte of a request line is refused, and the target is not too long.
LEMMA OpeningFine ==
    ASSUME NEW w, NEW n \in Nat, NEW q, NEW at, InOpening(w, n, q, at),
           NEW f \in Nat, RequestLineAt(w, f)
    PROVE  /\ Edge(q, w[n + 1]).next \notin {Reject, DONE}
           /\ Edge(q, w[n + 1]).action \in {"none", "TARGET"}
           /\ Edge(q, w[n + 1]).action = "TARGET" => at # MaxTarget
<1> DEFINE byte == w[n + 1]
           e == Edge(q, byte)
           Right == e.next \notin {Reject, DONE} /\ (e.action = "none" \/ (e.action = "TARGET" /\ at # MaxTarget))
<1>1. PICK a \in 1..f, b \in 1..f :
          /\ Opening(w, a, b) /\ VersionAt(w, b, Len(Version))
          /\ f = b + Len(Version) + 3
          /\ w[f - 2] \in {"0", "1"} /\ w[f - 1] = "CR" /\ w[f] = "LF"
  BY DEF RequestLineAt
<1>2. /\ a \in Nat /\ b \in Nat /\ 1 < a /\ a < b /\ b - a - 1 <= MaxTarget /\ a - 1 <= MaxMethod
      /\ Len(Version) \in Nat /\ MaxMethod \in Nat /\ MaxTarget \in Nat /\ b - a - 1 >= 1
  BY <1>1, OpeningPlain, VersionBytes DEF Opening, MethodAt, TargetAt
<1> SUFFICES Right
  OBVIOUS
<1>3. CASE q = <<"method", 0, n>> /\ n <= MaxMethod /\ Span(w, 1, n, TokenBytes) /\ at = 0
  <2>1. e = IF byte \in TokenBytes /\ n < MaxMethod THEN Go(<<"method", 0, n + 1>>)
            ELSE IF byte = "SP" /\ n > 0 THEN Go(At("target_start")) ELSE Go(Reject)
    BY <1>3 DEF Edge
  <2>2. n + 1 <= a
    <3>1. w[a] = "SP"
      BY <1>1 DEF Opening, MethodAt
    <3>2. ~(a \in 1..n)
      BY <1>3, <3>1, ByteClasses DEF Span
    <3>3. QED
      BY <1>2, <3>2
  <2> HIDE DEF e
  <2>3. CASE n + 1 = a
    <3>1. byte = "SP" /\ byte \notin TokenBytes /\ n > 0
      BY <1>1, <1>2, <2>3, ByteClasses DEF Opening, MethodAt
    <3>2. QED
      BY <2>1, <3>1 DEF Go, Reject, DONE, At
  <2>4. CASE n + 1 < a
    <3>1. byte \in TokenBytes /\ n < MaxMethod
      BY <1>1, <1>2, <2>4 DEF Opening, MethodAt, Span
    <3>2. QED
      BY <2>1, <3>1 DEF Go, Reject, DONE, At
  <2>5. QED
    BY <1>2, <2>2, <2>3, <2>4
<1>4. CASE q = At("target_start") /\ MethodAt(w, n) /\ at = 0
  <2>1. e = IF byte = "/" THEN GoWith(At("target"), "TARGET") ELSE Go(Reject)
    BY <1>4 DEF Edge, At
  <2>2. n = a
    BY <1>1, <1>2, <1>4, MethodOne DEF Opening
  <2>3. byte = "/" /\ at # MaxTarget
    BY <1>1, <1>2, <1>4, <2>2 DEF Opening, TargetAt
  <2> HIDE DEF e
  <2>4. QED
    BY <2>1, <2>3 DEF GoWith, Reject, DONE, At
<1>5. ASSUME q = At("target"), NEW c \in 1..(n - 1), MethodAt(w, c), at = n - c,
             Span(w, c + 1, n, TargetBytes)
      PROVE  Right
  <2>1. e = IF byte \in TargetBytes THEN GoWith(At("target"), "TARGET")
            ELSE IF byte = "SP" THEN Go(<<"version", 0, 0>>) ELSE Go(Reject)
    BY <1>5 DEF Edge, At
  <2>2. c = a
    BY <1>1, <1>2, <1>5, MethodOne DEF Opening
  <2>3. n + 1 <= b
    <3>1. w[b] = "SP"
      BY <1>1 DEF Opening, TargetAt
    <3>2. ~(b \in (a + 1)..n)
      BY <1>5, <2>2, <3>1, ByteClasses DEF Span
    <3>3. QED
      BY <1>2, <3>2
  <2> HIDE DEF e
  <2>4. CASE n + 1 = b
    <3>1. byte = "SP" /\ byte \notin TargetBytes
      BY <1>1, <2>4, ByteClasses DEF Opening, TargetAt
    <3>2. QED
      BY <2>1, <3>1 DEF Go, Reject, DONE, At
  <2>5. CASE n + 1 < b
    <3>1. byte \in TargetBytes
      BY <1>1, <1>2, <2>2, <2>5 DEF Opening, TargetAt, Span
    <3>2. at # MaxTarget
      BY <1>2, <1>5, <2>2, <2>5
    <3>3. QED
      BY <2>1, <3>1, <3>2 DEF GoWith, Reject, DONE, At
  <2>6. QED
    BY <1>2, <2>3, <2>4, <2>5
<1>6. ASSUME NEW c \in 1..n, NEW d \in 1..n, Opening(w, c, d),
             NEW m \in 0..Len(Version), q = <<"version", 0, m>>, n = d + m, VersionAt(w, d, m)
      PROVE  Right
  <2>1. e = IF m < Len(Version)
            THEN IF byte = Version[m + 1] THEN Go(<<"version", 0, m + 1>>) ELSE Go(Reject)
            ELSE IF byte \in {"0", "1"} THEN Go(At("version_cr")) ELSE Go(Reject)
    BY <1>6 DEF Edge
  <2>2. d = b
    BY <1>1, <1>2, <1>6, OpeningOne
  <2> HIDE DEF e
  <2>3. CASE m < Len(Version)
    <3>1. m + 1 \in 1..Len(Version) /\ n + 1 = b + (m + 1)
      BY <1>2, <1>6, <2>2, <2>3
    <3>2. byte = Version[m + 1]
      BY <1>1, <3>1 DEF VersionAt
    <3>3. QED
      BY <2>1, <2>3, <3>2 DEF Go, Reject, DONE, At
  <2>4. CASE m = Len(Version)
    <3>1. n + 1 = f - 2
      BY <1>1, <1>2, <1>6, <2>2, <2>4
    <3>2. QED
      BY <1>1, <1>2, <2>1, <2>4, <3>1 DEF Go, Reject, DONE, At
  <2>5. QED
    BY <1>2, <2>3, <2>4
<1>7. ASSUME NEW c \in 1..n, NEW d \in 1..n, Opening(w, c, d),
             \/ q = At("version_cr") /\ n = d + Len(Version) + 1
             \/ q = At("version_lf") /\ n = d + Len(Version) + 2
      PROVE  Right
  <2>1. d = b
    BY <1>1, <1>2, <1>7, OpeningOne
  <2>2. CASE q = At("version_cr") /\ n = d + Len(Version) + 1
    <3>1. e = IF byte = "CR" THEN Go(At("version_lf")) ELSE Go(Reject)
      BY <2>2 DEF Edge, At
    <3>2. n + 1 = f - 1
      BY <1>1, <1>2, <2>1, <2>2
    <3> HIDE DEF e
    <3>3. QED
      BY <1>1, <3>1, <3>2 DEF Go, Reject, DONE, At
  <2>3. CASE q = At("version_lf") /\ n = d + Len(Version) + 2
    <3>1. e = IF byte = "LF" THEN Go(At("headers")) ELSE Go(Reject)
      BY <2>3 DEF Edge, At
    <3>2. n + 1 = f
      BY <1>1, <1>2, <2>1, <2>3
    <3> HIDE DEF e
    <3>3. QED
      BY <1>1, <3>1, <3>2 DEF Go, Reject, DONE, At
  <2>4. QED
    BY <1>7, <2>2, <2>3
<1>8. QED
  BY <1>3, <1>4, <1>5, <1>6, <1>7 DEF InOpening

\* The first LF from m on.
IsNextLf(w, m, i) == m <= i /\ w[i] = "LF" /\ \A k \in m..(i - 1) : w[k] # "LF"

\* A line that has begun ends at a next LF.
LEMMA NextLf ==
    ASSUME NEW w, NEW m \in Nat, NEW g \in Nat, m <= g, w[g] = "LF"
    PROVE  \E i \in Nat : i <= g /\ IsNextLf(w, m, i)
<1> DEFINE S == {i \in m..g : w[i] = "LF"}
<1>1. S \in SUBSET Nat /\ S # {}
  OBVIOUS
<1>2. PICK i \in S : \A k \in S : <<k, i>> \notin OpToRel(<, Nat)
  <2> HIDE DEF S
  <2>1. QED
    BY <1>1, WFMin, NatLessThanWellFounded
<1>3. ASSUME NEW k \in m..(i - 1), w[k] = "LF" PROVE FALSE
  <2>1. k \in S /\ k < i /\ k \in Nat /\ i \in Nat
    BY <1>3
  <2>2. QED
    BY <1>2, <2>1 DEF OpToRel
<1>4. i \in Nat /\ m <= i /\ i <= g /\ w[i] = "LF"
  OBVIOUS
<1>5. IsNextLf(w, m, i)
  BY <1>3, <1>4 DEF IsNextLf
<1>6. QED
  BY <1>4, <1>5

\* The line the automaton is in, in a request.
LEMMA CurrentLine ==
    ASSUME NEW w, NEW n \in Nat, NEW e \in Nat, NEW f \in 1..n, NEW s \in (f + 1)..(n + 1),
           NEW a, NEW x, Counted(w, f, s - 1, a, x), w[s - 1] = "LF", \A k \in s..n : w[k] # "LF",
           f <= e - 2, w[e - 2] = "LF", w[e - 1] = "CR", w[e] = "LF"
    PROVE  /\ n < e
           /\ s = e - 1 \/ \E i \in s..(e - 2) : n + 1 <= i /\ LineAt(w, s, i)
<1>1. s <= e
  <2> SUFFICES ASSUME e <= s - 1 PROVE FALSE
    OBVIOUS
  <2>1. e \in (f + 1)..(s - 1) /\ f \in Nat /\ s - 1 \in Nat
    OBVIOUS
  <2>2. QED
    BY <2>1, NoBlankLine
<1>2. n < e
  BY <1>1
<1>3. s # e
  OBVIOUS
<1>4. CASE s <= e - 2
  <2>1. ~(e - 2 \in s..n)
    OBVIOUS
  <2>2. n + 1 <= e - 2 /\ n + 1 \in Nat /\ e - 2 \in Nat
    BY <1>4, <2>1
  <2>3. PICK i \in Nat : i <= e - 2 /\ IsNextLf(w, n + 1, i)
    BY <2>2, NextLf
  <2>4. ASSUME NEW k \in s..(i - 1) PROVE w[k] # "LF"
    <3>1. k \in s..n \/ k \in (n + 1)..(i - 1)
      OBVIOUS
    <3>2. QED
      BY <2>3, <3>1 DEF IsNextLf
  <2>5. i \in s..(e - 2) /\ s \in 2..i /\ n + 1 <= i
    <3>1. i \in Nat /\ n + 1 <= i /\ i <= e - 2
      BY <2>3 DEF IsNextLf
    <3>2. s \in Nat /\ 2 <= s /\ s <= n + 1
      OBVIOUS
    <3>3. QED
      BY <3>1, <3>2
  <2>6. LineAt(w, s, i)
    BY <2>3, <2>4, <2>5 DEF LineAt, IsNextLf
  <2>7. QED
    BY <1>2, <2>5, <2>6
<1>5. QED
  BY <1>1, <1>2, <1>3, <1>4

\* In a line of the header.
LEMMA GenericFine ==
    ASSUME NEW b, b \in TokenBytes \cup {":"}
    PROVE  GenericByte(b).next \notin {Reject, DONE} /\ GenericByte(b).action = "none"
BY DEF GenericByte, Go, Reject, DONE, At

\* No first byte of a header is refused.
LEMMA FirstFine ==
    ASSUME NEW b, b \in TokenBytes
    PROVE  FirstByte(b).next \notin {Reject, DONE} /\ FirstByte(b).action = "none"
<1> DEFINE matching == {j \in DOMAIN Names : Names[j][1] = Folded(b)}
           chosen == CHOOSE j \in matching : TRUE
<1>1. CASE matching # {}
  <2>1. FirstByte(b) = Go(<<"name", chosen, 1>>)
    BY <1>1 DEF FirstByte
  <2> HIDE DEF chosen
  <2>2. QED
    BY <2>1 DEF Go, Reject, DONE, At
<1>2. CASE matching = {}
  <2>1. FirstByte(b) = Go(At("generic_name"))
    BY <1>2 DEF FirstByte
  <2>2. QED
    BY <2>1 DEF Go, Reject, DONE, At
<1>3. QED
  BY <1>1, <1>2

\* No byte of a plain header is refused, and a reserved name is Content-Length's.
LEMMA LineFine ==
    ASSUME NEW w, NEW s \in Nat, NEW n \in Nat, s - 1 <= n, NEW q, InLine(w, s, n, q),
           NEW i \in Nat, n + 1 <= i, w[i] = "LF", NEW c \in s..i, HeaderAt(w, s, c, i),
           Unreserved(w, s, c) \/ Called(w, s, c, 1)
    PROVE  /\ Edge(q, w[n + 1]).next \notin {Reject, DONE}
           /\ \/ Edge(q, w[n + 1]).action = "none"
              \/ Edge(q, w[n + 1]).action = "LENGTH" /\ Called(w, s, c, 1)
<1> DEFINE b == w[n + 1]
           e == Edge(q, b)
           Right == /\ e.next \notin {Reject, DONE}
                    /\ e.action = "none" \/ (e.action = "LENGTH" /\ Called(w, s, c, 1))
<1>1. /\ s < c /\ c < i - 1 /\ w[i - 1] = "CR" /\ w[s] \in TokenBytes /\ w[c] = ":"
      /\ NameAt(w, s, c) /\ Span(w, s, c - 1, TokenBytes) /\ Span(w, c + 1, i - 2, ValueBytes)
  BY HeaderFull DEF HeaderAt, NameAt
<1> SUFFICES Right
  OBVIOUS
<1>2. CASE q = At("headers") /\ n = s - 1
  <2>1. e = IF b = "CR" THEN Go(At("end_lf")) ELSE FirstByte(b)
    BY <1>2 DEF Edge, At
  <2>2. b \in TokenBytes
    BY <1>1, <1>2
  <2>3. b # "CR"
    BY <2>2, ByteClasses
  <2>4. QED
    BY <2>1, <2>2, <2>3, FirstFine
<1>3. CASE q = At("end_lf") /\ n = s /\ w[n] = "CR"
  BY <1>1, <1>3, ByteClasses
\* Within the name the next byte is one of its bytes or the colon.
<1>4. ASSUME Span(w, s, n, TokenBytes) PROVE n + 1 <= c /\ b \in TokenBytes \cup {":"}
  <2>1. n < c
    BY <1>1, <1>4, ByteClasses DEF Span
  <2>2. n + 1 = c \/ n + 1 \in s..(c - 1)
    BY <2>1
  <2>3. QED
    BY <1>1, <2>1, <2>2 DEF Span
<1>5. CASE q = At("generic_name") /\ s <= n /\ Span(w, s, n, TokenBytes)
  <2>1. e = GenericByte(b)
    BY <1>5 DEF Edge, At
  <2>2. QED
    BY <1>4, <1>5, <2>1, GenericFine
<1>6. ASSUME NEW j \in DOMAIN Names, NEW m \in 1..Len(Names[j]), q = <<"name", j, m>>,
             n = (s + m) - 1, Begins(w, s, m, j)
      PROVE  Right
  <2>1. e = NameByte(j, m, b)
    BY <1>6 DEF Edge
  <2>2. m \in Nat /\ m > 0 /\ Len(Names[j]) \in Nat
    BY NameLetters
  <2>3. n + 1 <= c /\ b \in TokenBytes \cup {":"}
    BY <1>4, <1>6, <2>2, BeginsToken
  <2> HIDE DEF e
  <2>4. CASE m < Len(Names[j]) /\ Folded(b) = Names[j][m + 1]
    <3>1. e = Go(<<"name", j, m + 1>>)
      BY <2>1, <2>4 DEF NameByte
    <3>2. QED
      BY <3>1 DEF Go, Reject, DONE, At
  <2>5. CASE m = Len(Names[j]) /\ b = ":"
    <3>1. n + 1 = c
      <4>1. b \notin TokenBytes
        BY <2>5, ByteClasses
      <4>2. ~(n + 1 \in s..(c - 1))
        BY <1>1, <4>1 DEF Span
      <4>3. QED
        BY <1>6, <2>2, <2>3, <4>2
    <3>2. c - s = m
      BY <1>6, <3>1
    <3>3. Called(w, s, c, j)
      BY <1>6, <2>5, <3>2 DEF Called
    <3>4. Called(w, s, c, 1)
      BY <3>3 DEF Unreserved
    <3>5. j = 1
      <4>1. Begins(w, s, m, 1)
        BY <3>2, <3>4 DEF Called
      <4>2. QED
        BY <1>6, <2>2, <4>1, NameLetters, BeginsOne
    <3>6. e = GoWith(At("leading"), "LENGTH")
      BY <2>1, <2>2, <2>5, <3>5 DEF NameByte
    <3>7. QED
      BY <3>4, <3>6 DEF GoWith, Reject, DONE, At
  <2>6. CASE /\ ~(m < Len(Names[j]) /\ Folded(b) = Names[j][m + 1])
             /\ ~(m = Len(Names[j]) /\ b = ":")
    <3>1. e = GenericByte(b)
      BY <2>1, <2>6 DEF NameByte
    <3>2. QED
      BY <2>3, <3>1, GenericFine
  <2>7. QED
    BY <2>4, <2>5, <2>6
<1>7. ASSUME NEW d \in s..n, NameAt(w, s, d), q = At("value"), Span(w, d + 1, n, ValueBytes)
      PROVE  Right
  <2>1. d = c
    BY <1>1, <1>7, NameOne
  <2>2. n + 1 <= i - 1
    <3>1. ~(i - 1 \in (c + 1)..n)
      BY <1>1, <1>7, <2>1, ByteClasses DEF Span
    <3>2. QED
      BY <1>1, <2>1, <3>1
  <2>3. n + 1 = i - 1 \/ n + 1 \in (c + 1)..(i - 2)
    BY <2>1, <2>2
  <2>4. b = "CR" \/ b \in ValueBytes
    BY <1>1, <2>3 DEF Span
  <2>5. e = IF b \in ValueBytes THEN Go(At("value"))
            ELSE IF b = "CR" THEN Go(At("value_lf")) ELSE Go(Reject)
    BY <1>7 DEF Edge, At
  <2> HIDE DEF e
  <2>6. QED
    BY <2>4, <2>5 DEF Go, Reject, DONE, At
<1>8. ASSUME NEW d \in s..n, NameAt(w, s, d), q = At("value_lf"), HeaderAt(w, s, d, n + 1)
      PROVE  Right
  <2>1. d = c
    BY <1>1, <1>8, NameOne
  <2>2. w[n] = "CR" /\ c < n
    BY <1>8, <2>1 DEF HeaderAt
  <2>3. n = i - 1
    <3>1. ~(n \in (c + 1)..(i - 2))
      BY <1>1, <2>2, ByteClasses DEF Span
    <3>2. QED
      BY <2>2, <3>1
  <2>4. b = "LF"
    BY <2>3
  <2>5. e = IF b = "LF" THEN Go(At("headers")) ELSE Go(Reject)
    BY <1>8 DEF Edge, At
  <2> HIDE DEF e
  <2>6. QED
    BY <2>4, <2>5 DEF Go, Reject, DONE, At
<1>9. QED
  BY <1>2, <1>3, <1>5, <1>6, <1>7, <1>8 DEF InLine

\* In the line of the length.
LEMMA LengthFine ==
    ASSUME NEW w, NEW s \in Nat, NEW n \in Nat, NEW q, NEW v, InLength(w, s, n, q, v),
           NEW i \in Nat, n + 1 <= i, w[i] = "LF", NEW c \in s..i, HeaderAt(w, s, c, i),
           NEW x \in s..i, NEW y \in s..i, NumberAt(w, c, x, y, i)
    PROVE  /\ Edge(q, w[n + 1]).next \notin {Reject, DONE}
           /\ \/ Edge(q, w[n + 1]).action = "none"
              \/ /\ Edge(q, w[n + 1]).action = "DIGIT"
                 /\ v * 10 + Value(w[n + 1]) <= Decimal(SubSeq(w, x, y))
<1> DEFINE b == w[n + 1]
           e == Edge(q, b)
           Right == /\ e.next \notin {Reject, DONE}
                    /\ \/ e.action = "none"
                       \/ e.action = "DIGIT" /\ v * 10 + Value(b) <= Decimal(SubSeq(w, x, y))
<1> SUFFICES Right
  OBVIOUS
<1>1. /\ c \in Nat /\ x \in Nat /\ y \in Nat /\ s <= c /\ c < x /\ x <= y /\ y <= i - 2 /\ w[i - 1] = "CR"
      /\ Span(w, c + 1, x - 1, Blanks) /\ Span(w, x, y, Digits) /\ Span(w, y + 1, i - 2, Blanks)
  BY DEF HeaderAt, NumberAt
<1>2. PICK d \in s..n :
        /\ NameAt(w, s, d)
        /\ \/ q = At("leading") /\ v = 0 /\ Span(w, d + 1, n, Blanks)
           \/ \E t \in (d + 1)..n :
                 /\ q = At("digits")
                 /\ Span(w, d + 1, t - 1, Blanks) /\ Span(w, t, n, Digits)
                 /\ v = Decimal(SubSeq(w, t, n))
           \/ \E t, z \in (d + 1)..n :
                 /\ \/ q = At("trailing") /\ z < n /\ NumberAt(w, d, t, z, n + 2)
                    \/ q = At("value_lf") /\ NumberAt(w, d, t, z, n + 1) /\ w[n] = "CR"
                 /\ v = Decimal(SubSeq(w, t, z))
  BY DEF InLength
<1>3. d = c
  BY <1>1, <1>2, NameOne DEF HeaderAt
<1>4. w[x] \in Digits /\ w[x] \notin Blanks
  BY <1>1, ByteClasses DEF Span
\* A digit within the number.
<1>5. ASSUME n + 1 \in x..y, v = Decimal(SubSeq(w, x, n)) PROVE v * 10 + Value(b) <= Decimal(SubSeq(w, x, y))
  <2>1. Decimal(SubSeq(w, x, n + 1)) = v * 10 + Value(b)
    BY <1>1, <1>5, RangeGrows
  <2>2. Decimal(SubSeq(w, x, n + 1)) <= Decimal(SubSeq(w, x, y))
    BY <1>1, <1>5, RangeNumber
  <2>3. QED
    BY <2>1, <2>2
<1>6. CASE q = At("leading") /\ v = 0 /\ Span(w, c + 1, n, Blanks)
  <2>1. e = IF b \in Digits THEN GoWith(At("digits"), "DIGIT")
            ELSE IF b \in Blanks THEN Go(At("leading")) ELSE Go(Reject)
    BY <1>6 DEF Edge, At
  <2>2. n + 1 <= x
    <3>1. ~(x \in (c + 1)..n)
      BY <1>4, <1>6 DEF Span
    <3>2. QED
      BY <1>1, <3>1
  <2> HIDE DEF e
  <2>3. CASE n + 1 = x
    <3>1. v = Decimal(SubSeq(w, x, n))
      <4>1. n = x - 1
        BY <2>3
      <4>2. QED
        BY <1>1, <1>6, <4>1, RangeStarts
    <3>2. v * 10 + Value(b) <= Decimal(SubSeq(w, x, y))
      BY <1>1, <1>5, <2>3, <3>1
    <3>3. b \in Digits
      BY <1>4, <2>3
    <3>4. QED
      BY <2>1, <3>2, <3>3 DEF GoWith, Reject, DONE, At
  <2>4. CASE n + 1 < x
    <3>1. n + 1 \in (c + 1)..(x - 1)
      BY <1>1, <1>2, <1>3, <2>4
    <3>2. b \in Blanks /\ b \notin Digits
      BY <1>1, <3>1, ByteClasses DEF Span
    <3>3. QED
      BY <2>1, <3>2 DEF Go, Reject, DONE, At
  <2>5. QED
    BY <1>1, <2>2, <2>3, <2>4
\* After the first digit.
<1>7. ASSUME n + 1 \in (y + 1)..(i - 1) PROVE b = "CR" \/ b \in Blanks
  <2>1. n + 1 = i - 1 \/ n + 1 \in (y + 1)..(i - 2)
    BY <1>7
  <2>2. QED
    BY <1>1, <2>1 DEF Span
<1>8. ASSUME NEW t \in (c + 1)..n, q = At("digits"), Span(w, c + 1, t - 1, Blanks), Span(w, t, n, Digits),
             v = Decimal(SubSeq(w, t, n))
      PROVE  Right
  <2>1. e = IF b \in Digits THEN GoWith(At("digits"), "DIGIT")
            ELSE IF b \in Blanks THEN Go(At("trailing"))
            ELSE IF b = "CR" THEN Go(At("value_lf")) ELSE Go(Reject)
    BY <1>8 DEF Edge, At
  <2>2. w[t] \in Digits /\ w[t] \notin Blanks /\ t \in Nat /\ c + 1 <= t /\ t <= n
    BY <1>1, <1>8, ByteClasses DEF Span
  <2>3. t = x
    <3>1. ~(t \in (c + 1)..(x - 1))
      BY <1>1, <2>2 DEF Span
    <3>2. ~(x \in (c + 1)..(t - 1))
      BY <1>4, <1>8 DEF Span
    <3>3. QED
      BY <1>1, <2>2, <3>1, <3>2
  <2>4. n <= y
    <3>1. w[y + 1] \notin Digits
      <4>1. y + 1 = i - 1 \/ y + 1 \in (y + 1)..(i - 2)
        BY <1>1
      <4>2. w[y + 1] = "CR" \/ w[y + 1] \in Blanks
        BY <1>1, <4>1 DEF Span
      <4>3. QED
        BY <4>2, ByteClasses
    <3>2. ~(y + 1 \in x..n)
      BY <1>8, <2>3, <3>1 DEF Span
    <3>3. QED
      BY <1>1, <3>2
  <2> HIDE DEF e
  <2>5. CASE n + 1 <= y
    <3>1. n + 1 \in x..y
      BY <1>1, <2>2, <2>3, <2>5
    <3>2. b \in Digits
      BY <1>1, <3>1 DEF Span
    <3>3. v * 10 + Value(b) <= Decimal(SubSeq(w, x, y))
      BY <1>5, <1>8, <2>3, <3>1
    <3>4. QED
      BY <2>1, <3>2, <3>3 DEF GoWith, Reject, DONE, At
  <2>6. CASE n = y
    <3>1. b = "CR" \/ b \in Blanks
      BY <1>1, <1>7, <2>6
    <3>2. b \notin Digits
      BY <3>1, ByteClasses
    <3>3. QED
      BY <2>1, <3>1, <3>2 DEF Go, Reject, DONE, At
  <2>7. QED
    BY <1>1, <2>4, <2>5, <2>6
<1>9. ASSUME NEW t \in (c + 1)..n, NEW z \in (c + 1)..n, q = At("trailing"), z < n,
             NumberAt(w, c, t, z, n + 2)
      PROVE  Right
  <2>1. e = IF b \in Blanks THEN Go(At("trailing"))
            ELSE IF b = "CR" THEN Go(At("value_lf")) ELSE Go(Reject)
    BY <1>9 DEF Edge, At
  <2>2. /\ t <= z /\ t \in Nat /\ z \in Nat /\ c + 1 <= t
        /\ Span(w, c + 1, t - 1, Blanks) /\ Span(w, t, z, Digits) /\ Span(w, z + 1, n, Blanks)
    BY <1>1, <1>9 DEF NumberAt
  <2>3. y <= n - 1
    <3>1. w[y] \in Digits /\ w[y] \notin Blanks /\ w[n] \in Blanks /\ w[n] \notin Digits
      BY <1>1, <1>9, <2>2, ByteClasses DEF Span
    <3>2. t = x
      <4>1. w[t] \in Digits /\ w[t] \notin Blanks
        BY <2>2, ByteClasses DEF Span
      <4>2. ~(t \in (c + 1)..(x - 1)) /\ ~(x \in (c + 1)..(t - 1))
        BY <1>1, <1>4, <2>2, <4>1 DEF Span
      <4>3. QED
        BY <1>1, <2>2, <4>2
    <3>3. ~(n \in x..y)
      BY <1>1, <3>1 DEF Span
    <3>4. QED
      BY <1>1, <1>9, <2>2, <3>2, <3>3
  <2>4. n + 1 \in (y + 1)..(i - 1)
    <3>1. w[n] # "CR"
      BY <1>9, <2>2, ByteClasses DEF Span
    <3>2. n # i - 1
      BY <1>1, <3>1
    <3>3. QED
      BY <1>1, <2>3, <3>2
  <2>5. b = "CR" \/ b \in Blanks
    BY <1>7, <2>4
  <2> HIDE DEF e
  <2>6. QED
    BY <2>1, <2>5 DEF Go, Reject, DONE, At
<1>10. ASSUME q = At("value_lf"), w[n] = "CR" PROVE Right
  <2>1. e = IF b = "LF" THEN Go(At("headers")) ELSE Go(Reject)
    BY <1>10 DEF Edge, At
  <2>2. \A k \in s..(i - 2) : w[k] # "CR"
    BY HeaderFull
  <2>3. n = i - 1
    BY <1>1, <1>10, <2>2
  <2>4. b = "LF"
    BY <2>3
  <2> HIDE DEF e
  <2>5. QED
    BY <2>1, <2>4 DEF Go, Reject, DONE, At
<1>11. QED
  BY <1>2, <1>3, <1>6, <1>8, <1>9, <1>10

\* The line and the request that the automaton is in.
Within(w, n, q, count, v, f, s) ==
    /\ RequestLineAt(w, f) /\ w[s - 1] = "LF" /\ \A k \in s..n : w[k] # "LF"
    /\ \/ Counted(w, f, s - 1, count, v) /\ InLine(w, s, n, q)
       \/ count = 1 /\ Lines(w, f, s - 1, 0) /\ InLength(w, s, n, q, v)

BlankBefore(w, e) == w[e - 3] = "CR" /\ w[e - 2] = "LF" /\ w[e - 1] = "CR" /\ w[e] = "LF"

\* The request line and the headers the automaton has read are the request's.
LEMMA HeadersWhere ==
    ASSUME NEW w, NEW n \in Nat, NEW q, NEW count, NEW v, InHeaders(w, n, q, count, v),
           NEW e \in Nat, NEW u, RequestAt(w, e, u)
    PROVE  \E f \in 1..n : \E s \in (f + 1)..(n + 1) : \E a \in {0, 1} :
              /\ Within(w, n, q, count, v, f, s) /\ f <= e - 2 /\ BlankBefore(w, e)
              /\ Counted(w, f, e - 2, a, u)
<1>1. PICK f \in 1..n : \E s \in (f + 1)..(n + 1) : Within(w, n, q, count, v, f, s)
  BY DEF InHeaders, Within
<1>2. PICK s \in (f + 1)..(n + 1) : Within(w, n, q, count, v, f, s)
  BY <1>1
<1>3. PICK g \in 1..(e - 2) : RequestLineAt(w, g) /\ \E a \in {0, 1} : Counted(w, g, e - 2, a, u)
  BY DEF RequestAt
<1>4. g = f
  BY <1>2, <1>3, RequestLineOne DEF Within
<1>5. BlankBefore(w, e)
  BY DEF RequestAt, BlankBefore
<1>6. QED
  BY <1>2, <1>3, <1>4, <1>5

\* The finished lines so far are headers.
LEMMA WithinCounted ==
    ASSUME NEW w, NEW n, NEW q, NEW count, NEW v, NEW f, NEW s, Within(w, n, q, count, v, f, s)
    PROVE  \E a, x : Counted(w, f, s - 1, a, x)
<1>1. CASE Counted(w, f, s - 1, count, v)
  BY <1>1
<1>2. CASE Lines(w, f, s - 1, 0)
  <2>1. Counted(w, f, s - 1, 0, 0)
    BY <1>2 DEF Counted
  <2>2. QED
    BY <2>1
<1>3. QED
  BY <1>1, <1>2 DEF Within

\* The automaton in the headers has not passed their end.
LEMMA HeadersReach ==
    ASSUME NEW w, NEW n \in Nat, NEW q, NEW count, NEW v, InHeaders(w, n, q, count, v),
           NEW e \in Nat, NEW u, RequestAt(w, e, u)
    PROVE  n < e
<1>1. PICK f \in 1..n, a \in {0, 1} : \E s \in (f + 1)..(n + 1) :
              /\ Within(w, n, q, count, v, f, s) /\ f <= e - 2 /\ BlankBefore(w, e)
              /\ Counted(w, f, e - 2, a, u)
  BY HeadersWhere
<1>2. PICK s \in (f + 1)..(n + 1) :
              /\ Within(w, n, q, count, v, f, s) /\ f <= e - 2 /\ BlankBefore(w, e)
              /\ Counted(w, f, e - 2, a, u)
  BY <1>1
<1>3. PICK m, x : Counted(w, f, s - 1, m, x)
  BY <1>2, WithinCounted
<1>4. QED
  BY <1>2, <1>3, CurrentLine DEF Within, BlankBefore

\* At the blank line only CR LF is expected.
LEMMA BlankFine ==
    ASSUME NEW w, NEW s \in Nat, NEW n \in Nat, n \in {s - 1, s}, w[s] = "CR", w[s + 1] = "LF",
           NEW q, InLine(w, s, n, q)
    PROVE  \/ Edge(q, w[n + 1]).next = At("end_lf") /\ Edge(q, w[n + 1]).action = "none"
           \/ Edge(q, w[n + 1]).next = DONE /\ Edge(q, w[n + 1]).action = "none" /\ n = s
<1>1. \A c \in s..n : ~NameAt(w, s, c)
  BY ByteClasses DEF NameAt, Span
<1>2. ASSUME q = At("headers"), n = s - 1
      PROVE  Edge(q, w[n + 1]).next = At("end_lf") /\ Edge(q, w[n + 1]).action = "none"
  <2>1. w[n + 1] = "CR"
    BY <1>2
  <2>2. Edge(q, w[n + 1]) = Go(At("end_lf"))
    BY <1>2, <2>1 DEF Edge, At
  <2>3. QED
    BY <2>2 DEF Go
<1>3. ASSUME q = At("end_lf"), n = s
      PROVE  Edge(q, w[n + 1]).next = DONE /\ Edge(q, w[n + 1]).action = "none"
  <2>1. w[n + 1] = "LF"
    BY <1>3
  <2>2. Edge(q, w[n + 1]) = Go(DONE)
    BY <1>3, <2>1 DEF Edge, At
  <2>3. QED
    BY <2>2 DEF Go
<1>4. ~(s <= n /\ Span(w, s, n, TokenBytes))
  BY ByteClasses DEF Span
<1>5. ASSUME NEW j \in DOMAIN Names, NEW m \in 1..Len(Names[j]), n = (s + m) - 1, Begins(w, s, m, j)
      PROVE  FALSE
  <2>1. m \in Nat /\ 1 <= m
    BY NameLetters
  <2>2. Span(w, s, n, TokenBytes) /\ s <= n
    BY <1>5, <2>1, BeginsToken
  <2>3. QED
    BY <1>4, <2>2
<1>6. QED
  BY <1>1, <1>2, <1>3, <1>4, <1>5 DEF InLine

\* No byte of a request's header is refused, no second Content-Length begins and
\* no number so far exceeds the length.
LEMMA HeadersFine ==
    ASSUME NEW w, NEW n \in Nat, NEW q, NEW count, NEW v, InHeaders(w, n, q, count, v),
           NEW e \in Nat, NEW u \in Nat, RequestAt(w, e, u)
    PROVE  /\ Edge(q, w[n + 1]).next # Reject
           /\ Edge(q, w[n + 1]).action \in {"none", "LENGTH", "DIGIT"}
           /\ Edge(q, w[n + 1]).action = "LENGTH" => count # 1
           /\ Edge(q, w[n + 1]).action = "DIGIT" => v * 10 + Value(w[n + 1]) <= u
           /\ Edge(q, w[n + 1]).next = DONE => n + 1 = e /\ v = u
<1>1. PICK f \in 1..n, a \in {0, 1} : \E s \in (f + 1)..(n + 1) :
              /\ Within(w, n, q, count, v, f, s) /\ f <= e - 2 /\ BlankBefore(w, e)
              /\ Counted(w, f, e - 2, a, u)
  BY HeadersWhere
<1>2. PICK s \in (f + 1)..(n + 1) :
              /\ Within(w, n, q, count, v, f, s) /\ f <= e - 2 /\ BlankBefore(w, e)
              /\ Counted(w, f, e - 2, a, u)
  BY <1>1
<1>3. PICK m, x : Counted(w, f, s - 1, m, x)
  BY <1>2, WithinCounted
<1>4. n < e /\ (s = e - 1 \/ \E i \in s..(e - 2) : n + 1 <= i /\ LineAt(w, s, i))
  BY <1>2, <1>3, CurrentLine DEF Within, BlankBefore
<1>5. f \in Nat /\ s \in Nat /\ s - 1 <= n /\ e - 2 \in Nat
  BY <1>2
<1> DEFINE edge == Edge(q, w[n + 1])
           Right == /\ edge.next # Reject
                    /\ edge.action \in {"none", "LENGTH", "DIGIT"}
                    /\ edge.action = "LENGTH" => count # 1
                    /\ edge.action = "DIGIT" => v * 10 + Value(w[n + 1]) <= u
                    /\ edge.next = DONE => n + 1 = e /\ v = u
<1> SUFFICES Right
  OBVIOUS
<1>6. CASE s = e - 1
  <2>1. n \in {s - 1, s} /\ w[s] = "CR" /\ w[s + 1] = "LF" /\ s - 1 = e - 2
    BY <1>2, <1>4, <1>5, <1>6 DEF BlankBefore
  <2>2. CASE Counted(w, f, s - 1, count, v) /\ InLine(w, s, n, q)
    <3>1. v = u
      BY <1>2, <1>5, <2>1, <2>2, CountedOne
    <3>2. \/ edge.next = At("end_lf") /\ edge.action = "none"
          \/ edge.next = DONE /\ edge.action = "none" /\ n = s
      BY <1>5, <2>1, <2>2, BlankFine
    <3>3. n = s => n + 1 = e
      BY <1>6
    <3> HIDE DEF edge
    <3>4. QED
      BY <3>1, <3>2, <3>3 DEF Reject, DONE, At
  <2>3. CASE InLength(w, s, n, q, v)
    <3>1. PICK c \in s..n : NameAt(w, s, c)
      BY <2>3 DEF InLength
    <3>2. w[s] \in TokenBytes
      BY <3>1 DEF NameAt, Span
    <3>3. QED
      BY <2>1, <3>2, ByteClasses
  <2>4. QED
    BY <1>2, <2>2, <2>3 DEF Within
<1>7. ASSUME NEW i \in s..(e - 2), n + 1 <= i, LineAt(w, s, i) PROVE Right
  <2>1. i \in (f + 1)..(e - 2) /\ w[i] = "LF" /\ i \in Nat
    BY <1>7 DEF LineAt
  <2>2. CASE LengthLine(w, s, i, u)
    <3>1. PICK c \in s..i, y \in s..i, z \in s..i :
        /\ HeaderAt(w, s, c, i) /\ Called(w, s, c, 1)
        /\ NumberAt(w, c, y, z, i) /\ u = Decimal(SubSeq(w, y, z))
      BY <2>2 DEF LengthLine
    <3>2. Lines(w, f, e - 2, i)
      BY <1>2, <1>5, <1>7, <2>1, <3>1, LengthIs
    <3>3. CASE Counted(w, f, s - 1, count, v) /\ InLine(w, s, n, q)
      <4>1. count # 1
        <5> SUFFICES ASSUME count = 1 PROVE FALSE
          OBVIOUS
        <5>1. PICK l \in (f + 1)..(s - 1) : \E p \in 2..l : LineAt(w, p, l) /\ LengthLine(w, p, l, v)
          BY <3>3 DEF Counted
        <5>2. PICK p \in 2..l : LineAt(w, p, l) /\ LengthLine(w, p, l, v)
          BY <5>1
        <5>3. l # i /\ l \in (f + 1)..(e - 2) /\ w[l] = "LF" /\ l \in Nat
          BY <2>1, <5>2 DEF LineAt
        <5>4. PICK r \in 2..l : LineAt(w, r, l) /\ PlainLine(w, r, l)
          BY <3>2, <5>3 DEF Lines
        <5>5. p = r
          BY <5>2, <5>3, <5>4, LineOne
        <5>6. QED
          BY <5>2, <5>3, <5>4, <5>5, PlainNotLength
      <4>2. edge.next \notin {Reject, DONE} /\ edge.action \in {"none", "LENGTH"}
        BY <1>5, <1>7, <2>1, <3>1, <3>3, LineFine
      <4> HIDE DEF edge
      <4>3. QED
        BY <4>1, <4>2
    <3>4. CASE InLength(w, s, n, q, v)
      <4>1. /\ edge.next \notin {Reject, DONE}
            /\ \/ edge.action = "none"
               \/ edge.action = "DIGIT" /\ v * 10 + Value(w[n + 1]) <= u
        BY <1>5, <1>7, <2>1, <3>1, <3>4, LengthFine
      <4> HIDE DEF edge
      <4>2. QED
        BY <4>1
    <3>5. QED
      BY <1>2, <3>3, <3>4 DEF Within
  <2>3. CASE ~LengthLine(w, s, i, u)
    <3>1. PlainLine(w, s, i)
      BY <1>2, <1>5, <1>7, <2>1, <2>3, PlainIs
    <3>2. PICK c \in s..i : HeaderAt(w, s, c, i) /\ Unreserved(w, s, c)
      BY <3>1 DEF PlainLine
    <3>3. ~Called(w, s, c, 1)
      BY <3>2, NameLetters DEF Unreserved
    <3>4. CASE InLine(w, s, n, q)
      <4>1. edge.next \notin {Reject, DONE} /\ edge.action = "none"
        BY <1>5, <1>7, <2>1, <3>2, <3>3, <3>4, LineFine
      <4> HIDE DEF edge
      <4>2. QED
        BY <4>1
    <3>5. CASE InLength(w, s, n, q, v)
      <4>1. PICK d \in s..n : NameAt(w, s, d) /\ Called(w, s, d, 1)
        BY <3>5 DEF InLength
      <4>2. d = c
        BY <1>5, <3>2, <4>1, NameOne DEF HeaderAt
      <4>3. QED
        BY <3>3, <4>1, <4>2
    <3>6. QED
      BY <1>2, <3>4, <3>5 DEF Within
  <2>4. QED
    BY <2>2, <2>3
<1>8. QED
  BY <1>4, <1>6, <1>7

-----------------------------------------------------------------------------
(* Least and greatest elements, sums, and sets of one or two. *)

\* The least element of a set of integers.
LEMMA MinOf ==
    ASSUME NEW S, NEW m \in S, \A x \in S : m <= x, S \in SUBSET Int
    PROVE  Min(S) = m
<1>1. PICK k \in S : k = Min(S) /\ \A y \in S : k <= y
  BY DEF Min
<1>2. k <= m /\ m <= k /\ k \in Int /\ m \in Int
  BY <1>1
<1>3. QED
  BY <1>1, <1>2

\* A set of numbers has a least element,
LEMMA MinHas ==
    ASSUME NEW S \in SUBSET Nat, S # {}
    PROVE  Min(S) \in S /\ \A x \in S : Min(S) <= x
<1>1. PICK m \in S : \A k \in S : <<k, m>> \notin OpToRel(<, Nat)
  BY WFMin, NatLessThanWellFounded
<1>2. \A x \in S : m <= x
  <2> SUFFICES ASSUME NEW x \in S PROVE ~(x < m)
    OBVIOUS
  <2>1. QED
    BY <1>1 DEF OpToRel
<1>3. QED
  BY <1>2 DEF Min

\* and a bounded one a greatest.
LEMMA MaxHas ==
    ASSUME NEW n \in Nat, NEW S \in SUBSET (0..n), S # {}
    PROVE  Max(S) \in S /\ \A x \in S : Max(S) >= x
<1> DEFINE T == {n - x : x \in S}
<1>1. T \in SUBSET Nat /\ T # {}
  <2>1. \A x \in S : n - x \in Nat
    OBVIOUS
  <2>2. PICK x \in S : TRUE
    OBVIOUS
  <2>3. n - x \in T
    OBVIOUS
  <2>4. T \subseteq Nat
    BY <2>1
  <2>5. QED
    BY <2>3, <2>4
<1> HIDE DEF T
<1>2. Min(T) \in T /\ \A y \in T : Min(T) <= y
  BY <1>1, MinHas
<1>3. PICK t \in T : t = Min(T) /\ \A y \in T : t <= y
  BY <1>2
<1>4. PICK m \in S : t = n - m
  BY DEF T
<1>5. \A x \in S : m >= x
  <2> SUFFICES ASSUME NEW x \in S PROVE m >= x
    OBVIOUS
  <2>1. n - x \in T
    BY DEF T
  <2>2. n - m <= n - x
    BY <1>3, <1>4, <2>1
  <2>3. x \in Nat /\ m \in Nat
    OBVIOUS
  <2>4. QED
    BY <2>2, <2>3
<1>6. QED
  BY <1>5 DEF Max

\* The sum of no number,
LEMMA SumOfNone == SumSet({}) = 0
<1> DEFINE Equation(f) == f = [s \in SUBSET {} |->
                                 IF s = {} THEN 0 ELSE (CHOOSE x \in s : TRUE) + f[s \ {CHOOSE x \in s : TRUE}]]
<1>1. \E f : Equation(f)
  <2>1. SUBSET {} = {{}}
    OBVIOUS
  <2>2. Equation([s \in SUBSET {} |-> 0])
    BY <2>1
  <2> HIDE DEF Equation
  <2>3. QED
    BY <2>2
<1>2. PICK f : Equation(f) /\ SumSet({}) = f[{}]
  BY <1>1 DEF SumSet, FoldSet, MapThenFoldSet
<1>3. QED
  BY <1>2

\* and of one.
LEMMA SumOfOne ==
    ASSUME NEW z \in Nat
    PROVE  SumSet({z}) = z
<1> DEFINE Equation(f) == f = [s \in SUBSET {z} |->
                                 IF s = {} THEN 0 ELSE (CHOOSE x \in s : TRUE) + f[s \ {CHOOSE x \in s : TRUE}]]
<1>1. /\ \A s \in SUBSET {z} : s # {} => s = {z}
      /\ {} \in SUBSET {z} /\ {z} \in SUBSET {z} /\ {z} # {} /\ {z} \ {z} = {}
  OBVIOUS
<1>2. (CHOOSE x \in {z} : TRUE) = z
  OBVIOUS
<1>3. \E f : Equation(f)
  <2> DEFINE g == [s \in SUBSET {z} |-> IF s = {} THEN 0 ELSE z + 0]
  <2>1. g[{}] = 0
    BY <1>1
  <2>2. ASSUME NEW s \in SUBSET {z}, s # {}
        PROVE  g[s] = (CHOOSE x \in s : TRUE) + g[s \ {CHOOSE x \in s : TRUE}]
    <3>1. s = {z} /\ (CHOOSE x \in s : TRUE) = z /\ s \ {z} = {}
      BY <1>1, <1>2, <2>2
    <3>2. g[s] = z + 0
      BY <2>2
    <3> HIDE DEF g
    <3>3. QED
      BY <2>1, <3>1, <3>2
  <2>3. Equation(g)
    BY <2>2
  <2> HIDE DEF Equation
  <2>4. QED
    BY <2>3
<1>4. PICK f : Equation(f) /\ SumSet({z}) = f[{z}]
  BY <1>3 DEF SumSet, FoldSet, MapThenFoldSet
<1>5. f[{z}] = z + f[{}] /\ f[{}] = 0
  BY <1>1, <1>2, <1>4
<1>6. QED
  BY <1>4, <1>5

\* Sets of two,
LEMMA TwoOf ==
    ASSUME NEW a, NEW b, a # b
    PROVE  Cardinality({a, b}) = 2
<1>1. IsFiniteSet({a}) /\ Cardinality({a}) = 1
  BY FS_Singleton
<1>2. {a} \cup {b} = {a, b} /\ b \notin {a}
  OBVIOUS
<1>3. Cardinality({a} \cup {b}) = 1 + 1
  BY <1>1, <1>2, FS_AddElement
<1>4. QED
  BY <1>2, <1>3

LEMMA TwoHas ==
    ASSUME NEW S, IsFiniteSet(S), Cardinality(S) = 2
    PROVE  S # {} /\ \E a, b \in S : a # b
<1>1. S # {}
  BY FS_EmptySet
<1>2. PICK a \in S : TRUE
  BY <1>1
<1>3. IsFiniteSet(S \ {a}) /\ Cardinality(S \ {a}) = 1
  BY FS_RemoveElement
<1>4. S \ {a} # {}
  BY <1>3, FS_EmptySet
<1>5. QED
  BY <1>1, <1>4

\* and of one at most.
LEMMA OneHas ==
    ASSUME NEW S, IsFiniteSet(S), Cardinality(S) <= 1
    PROVE  S = {} \/ \E a : S = {a}
<1>1. Cardinality(S) \in Nat
  BY FS_CardinalityType
<1>2. Cardinality(S) = 0 \/ Cardinality(S) = 1
  BY <1>1
<1>3. QED
  BY <1>2, FS_EmptySet, FS_Singleton

-----------------------------------------------------------------------------
(* The lines of the reference. *)

\* Where a line begins.
Starts(d, p, i) == p \in 1..i /\ (p = 1 \/ d[p - 1] = "LF") /\ \A k \in p..(i - 1) : d[k] # "LF"

\* The line that ends at i has one beginning.
LEMMA LineStartHas ==
    ASSUME NEW d, NEW i \in Nat \ {0}
    PROVE  Starts(d, LineStart(d, i), i)
<1> DEFINE S == {0} \cup {k \in 1..(i - 1) : d[k] = "LF"}
<1>1. S \in SUBSET (0..i) /\ S # {} /\ i \in Nat
  OBVIOUS
<1>2. PICK m \in S : m = Max(S) /\ \A x \in S : m >= x
  <2> HIDE DEF S
  <2>1. QED
    BY <1>1, MaxHas
<1>3. LineStart(d, i) = m + 1
  BY <1>2 DEF LineStart
<1>4. /\ m + 1 \in 1..i /\ m + 1 - 1 = m
      /\ m + 1 = 1 \/ d[m] = "LF"
  OBVIOUS
<1>5. \A k \in (m + 1)..(i - 1) : d[k] # "LF"
  <2> SUFFICES ASSUME NEW k \in (m + 1)..(i - 1), d[k] = "LF" PROVE FALSE
    OBVIOUS
  <2>1. k \in S /\ m \in Nat
    BY <1>4
  <2>2. QED
    BY <1>2, <2>1
<1>6. QED
  BY <1>3, <1>4, <1>5 DEF Starts

LEMMA StartsOne ==
    ASSUME NEW d, NEW i \in Nat, NEW p, NEW q, Starts(d, p, i), Starts(d, q, i)
    PROVE  p = q
BY DEF Starts

LEMMA LineStartIs ==
    ASSUME NEW d, NEW i \in Nat \ {0}, NEW p, Starts(d, p, i)
    PROVE  LineStart(d, i) = p
BY LineStartHas, StartsOne

-----------------------------------------------------------------------------
(* A request is what the reference finds. *)

\* s is the m elements of d after the first o.
Reads(s, d, o, m) == Len(s) = m /\ DOMAIN s = 1..m /\ \A k \in 1..m : s[k] = d[o + k]

\* A subsequence,
LEMMA RangeReads ==
    ASSUME NEW d, NEW x \in Nat \ {0}, NEW y \in Int, x <= y + 1
    PROVE  Reads(SubSeq(d, x, y), d, x - 1, y - x + 1)
<1>1. \A k \in 1..(y - x + 1) : (x - 1) + k = x + k - 1
  OBVIOUS
<1>2. QED
  BY <1>1, RangeShape DEF Reads

\* a subsequence of one,
LEMMA ReadsPart ==
    ASSUME NEW s, NEW d, NEW o \in Nat, NEW m \in Nat, Reads(s, d, o, m),
           NEW x \in Nat \ {0}, NEW y \in Int, x <= y + 1, y <= m
    PROVE  Reads(SubSeq(s, x, y), d, o + x - 1, y - x + 1)
<1>1. Reads(SubSeq(s, x, y), s, x - 1, y - x + 1)
  BY RangeReads
<1>2. ASSUME NEW k \in 1..(y - x + 1) PROVE SubSeq(s, x, y)[k] = d[(o + x - 1) + k]
  <2>1. PICK i \in 1..m : i = (x - 1) + k
    OBVIOUS
  <2>2. SubSeq(s, x, y)[k] = s[i]
    BY <1>1, <2>1 DEF Reads
  <2>3. s[i] = d[o + i] /\ o + i = (o + x - 1) + k
    BY <2>1 DEF Reads
  <2>4. QED
    BY <2>2, <2>3
<1>3. QED
  BY <1>1, <1>2 DEF Reads

\* and two of the same elements.
LEMMA ReadsSeq ==
    ASSUME NEW s, NEW d, NEW o \in Nat, NEW m \in Nat, Reads(s, d, o, m), NEW S, s \in Seq(S),
           NEW t \in Seq(S), Reads(t, d, o, m)
    PROVE  s = t
BY SeqEqual DEF Reads

\* The positions of a sequence.
LEMMA Stored ==
    ASSUME NEW d \in Seq(Bytes)
    PROVE  Len(d) \in Nat /\ DOMAIN d = 1..Len(d)
BY LenProperties

\* The blank line.
LEMMA BlankIs ==
    ASSUME NEW d \in Seq(Bytes), NEW i \in Nat \ {0}
    PROVE  IsBlankLineAt(d, i) <=>
              /\ i + 3 <= Len(d)
              /\ d[i] = "CR" /\ d[i + 1] = "LF" /\ d[i + 2] = "CR" /\ d[i + 3] = "LF"
<1>1. PICK t : t = SubSeq(d, i, i + 3)
  OBVIOUS
<1>2. t[1] = d[i] /\ t[2] = d[i + 1] /\ t[3] = d[i + 2] /\ t[4] = d[i + 3]
  <2>1. Reads(t, d, i - 1, 4)
    <3>1. i + 3 \in Int /\ i <= (i + 3) + 1 /\ (i + 3) - i + 1 = 4
      OBVIOUS
    <3>2. QED
      BY <1>1, <3>1, RangeReads
  <2>2. /\ (i - 1) + 1 = i /\ (i - 1) + 2 = i + 1 /\ (i - 1) + 3 = i + 2 /\ (i - 1) + 4 = i + 3
        /\ 1 \in 1..4 /\ 2 \in 1..4 /\ 3 \in 1..4 /\ 4 \in 1..4
    OBVIOUS
  <2>3. QED
    BY <2>1, <2>2 DEF Reads
<1>3. ASSUME t = <<"CR", "LF", "CR", "LF">>
      PROVE  t[1] = "CR" /\ t[2] = "LF" /\ t[3] = "CR" /\ t[4] = "LF"
  BY <1>3
<1>4. ASSUME i + 3 <= Len(d), t[1] = "CR", t[2] = "LF", t[3] = "CR", t[4] = "LF"
      PROVE  t = <<"CR", "LF", "CR", "LF">>
  <2>1. PICK u : u = <<"CR", "LF", "CR", "LF">>
    OBVIOUS
  <2>2. u \in Seq(Bytes) /\ Len(u) = 4 /\ u[1] = "CR" /\ u[2] = "LF" /\ u[3] = "CR" /\ u[4] = "LF"
    BY <2>1 DEF Bytes
  <2>3. \A k \in i..(i + 3) : d[k] \in Bytes
    BY <1>4
  <2>4. t \in Seq(Bytes) /\ Len(t) = 4
    <3>1. i <= i + 3 /\ (i + 3) - i + 1 = 4
      OBVIOUS
    <3>2. QED
      BY <1>1, <2>3, <3>1, SubSeqProperties
  <2>5. \A k \in 1..4 : t[k] = u[k]
    <3>1. \A k \in 1..4 : k = 1 \/ k = 2 \/ k = 3 \/ k = 4
      OBVIOUS
    <3>2. QED
      BY <1>4, <2>2, <3>1
  <2>6. t = u
    BY <2>2, <2>4, <2>5, SeqEqual
  <2>7. QED
    BY <2>1, <2>6
<1>5. QED
  BY <1>1, <1>2, <1>3, <1>4 DEF IsBlankLineAt

\* Where the blank lines end.
LEMMA EndsHave ==
    ASSUME NEW d \in Seq(Bytes), NEW e
    PROVE  e \in Ends(d) <=>
              /\ e \in 4..Len(d)
              /\ d[e - 3] = "CR" /\ d[e - 2] = "LF" /\ d[e - 1] = "CR" /\ d[e] = "LF"
<1>1. Len(d) \in Nat /\ DOMAIN d = 1..Len(d)
  BY Stored
<1>2. ASSUME e \in Ends(d)
      PROVE  e \in 4..Len(d) /\ d[e - 3] = "CR" /\ d[e - 2] = "LF" /\ d[e - 1] = "CR" /\ d[e] = "LF"
  <2>1. PICK i \in DOMAIN d : IsBlankLineAt(d, i) /\ e = i + 3
    BY <1>2 DEF Ends
  <2>2. i \in Nat \ {0}
    BY <1>1
  <2>3. /\ i + 3 <= Len(d)
        /\ d[i] = "CR" /\ d[i + 1] = "LF" /\ d[i + 2] = "CR" /\ d[i + 3] = "LF"
    BY <2>1, <2>2, BlankIs
  <2>4. e \in 4..Len(d) /\ e - 3 = i /\ e - 2 = i + 1 /\ e - 1 = i + 2
    BY <1>1, <2>1, <2>2, <2>3
  <2>5. QED
    BY <2>1, <2>3, <2>4
<1>3. ASSUME e \in 4..Len(d), d[e - 3] = "CR", d[e - 2] = "LF", d[e - 1] = "CR", d[e] = "LF"
      PROVE  e \in Ends(d)
  <2>1. PICK i \in DOMAIN d : i = e - 3
    BY <1>1, <1>3
  <2>2. i \in Nat \ {0} /\ i + 3 = e /\ i + 1 = e - 2 /\ i + 2 = e - 1
    BY <1>1, <1>3, <2>1
  <2>3. IsBlankLineAt(d, i)
    BY <1>3, <2>1, <2>2, BlankIs
  <2>4. QED
    BY <2>1, <2>2, <2>3 DEF Ends
<1>4. QED
  BY <1>2, <1>3

\* The first blank line ends the header.
LEMMA EndsIs ==
    ASSUME NEW d \in Seq(Bytes), NEW e \in Nat, NEW v, RequestAt(d, e, v), e <= Len(d)
    PROVE  e \in Ends(d) /\ \A x \in Ends(d) : e <= x
<1>1. PICK f \in 1..(e - 2) : RequestLineAt(d, f) /\ \E count \in {0, 1} : Counted(d, f, e - 2, count, v)
  BY DEF RequestAt
<1>2. PICK count \in {0, 1} : Counted(d, f, e - 2, count, v)
  BY <1>1
<1>3. f > 3 /\ f \in Nat /\ \A k \in 1..(f - 1) : d[k] # "LF"
  BY <1>1, RequestLinePlain
<1>4. Len(d) \in Nat
  BY Stored
<1>5. e \in Ends(d)
  <2>1. e \in 4..Len(d)
    BY <1>1, <1>3, <1>4
  <2>2. QED
    BY <2>1, EndsHave DEF RequestAt
<1>6. ASSUME NEW x \in Ends(d), x < e PROVE FALSE
  <2>1. x \in 4..Len(d) /\ d[x - 3] = "CR" /\ d[x - 2] = "LF" /\ d[x] = "LF"
    BY EndsHave
  <2>2. x - 2 >= f /\ x \in Nat
    BY <1>3, <1>4, <2>1
  <2>3. x # e - 1
    BY <2>1 DEF RequestAt
  <2>4. x \in (f + 1)..(e - 2) /\ e - 2 \in Nat
    BY <1>1, <1>6, <2>2, <2>3
  <2>5. QED
    BY <1>2, <1>3, <2>1, <2>4, NoBlankLine
<1>7. \A x \in Ends(d) : e <= x
  <2> SUFFICES ASSUME NEW x \in Ends(d) PROVE e <= x
    OBVIOUS
  <2>1. x \in Nat
    BY <1>4, EndsHave
  <2>2. QED
    BY <1>6, <2>1
<1>8. QED
  BY <1>5, <1>7

\* A line with a name, of which the colon is at c.
Named(s, d, o, m, c) == Reads(s, d, o, m) /\ NameAt(d, o + 1, c) /\ c <= o + m

\* The name ends at its colon, for the reference as well,
LEMMA NameIs ==
    ASSUME NEW s, NEW d, NEW o \in Nat, NEW m \in Nat, NEW c \in Nat, Named(s, d, o, m, c)
    PROVE  /\ Colons(s) # {}
           /\ Reads(Name(s), d, o, c - o - 1) /\ Reads(Content(s), d, c, o + m - c)
<1>1. /\ Len(s) = m /\ DOMAIN s = 1..m /\ \A k \in 1..m : s[k] = d[o + k]
      /\ o + 1 < c /\ c <= o + m /\ d[c] = ":" /\ \A k \in (o + 1)..(c - 1) : d[k] # ":"
  BY ByteClasses DEF Named, Reads, NameAt, Span
<1>2. PICK i \in 1..m : i = c - o
  BY <1>1
<1>3. i \in Colons(s)
  <2>1. o + i = c
    BY <1>2
  <2>2. s[i] = ":"
    BY <1>1, <2>1
  <2>3. QED
    BY <1>1, <2>2 DEF Colons
<1>4. \A x \in Colons(s) : i <= x
  <2> SUFFICES ASSUME NEW x \in Colons(s), ~(i <= x) PROVE FALSE
    OBVIOUS
  <2>1. x \in 1..m /\ s[x] = ":"
    BY <1>1 DEF Colons
  <2>2. o + x \in (o + 1)..(c - 1)
    BY <1>2, <2>1
  <2>3. QED
    BY <1>1, <2>1, <2>2
<1>5. Colons(s) \in SUBSET Int
  BY <1>1 DEF Colons
<1>6. Min(Colons(s)) = i
  BY <1>3, <1>4, <1>5, MinOf
<1>7. Reads(s, d, o, m)
  BY DEF Named
<1>8. Reads(SubSeq(s, 1, i - 1), d, o + 1 - 1, i - 1 - 1 + 1)
  <2>1. 1 <= (i - 1) + 1 /\ i - 1 \in Int /\ i - 1 <= m /\ 1 \in Nat \ {0}
    OBVIOUS
  <2>2. QED
    BY <1>7, <2>1, ReadsPart
<1>9. Reads(SubSeq(s, i + 1, m), d, o + (i + 1) - 1, m - (i + 1) + 1)
  <2>1. i + 1 <= m + 1 /\ m \in Int /\ m <= m /\ i + 1 \in Nat \ {0}
    OBVIOUS
  <2>2. QED
    BY <1>7, <2>1, ReadsPart
<1>10. /\ o + 1 - 1 = o /\ i - 1 - 1 + 1 = c - o - 1
       /\ o + (i + 1) - 1 = c /\ m - (i + 1) + 1 = o + m - c
  BY <1>2
<1>11. Name(s) = SubSeq(s, 1, i - 1) /\ Content(s) = SubSeq(s, i + 1, m)
  BY <1>1, <1>6 DEF Name, Content
<1>12. QED
  BY <1>3, <1>8, <1>9, <1>10, <1>11

\* and what the reference takes for a name is one.
LEMMA NameHas ==
    ASSUME NEW s, NEW d, NEW o \in Nat, NEW m \in Nat, Reads(s, d, o, m),
           Colons(s) # {}, Name(s) # << >>, AllIn(Name(s), TokenBytes)
    PROVE  \E c \in Nat : Named(s, d, o, m, c)
<1>1. Len(s) = m /\ DOMAIN s = 1..m /\ \A k \in 1..m : s[k] = d[o + k]
  BY DEF Reads
<1>2. Colons(s) \in SUBSET Nat
  BY <1>1 DEF Colons
<1>3. Min(Colons(s)) \in Colons(s)
  BY <1>2, MinHas
<1>4. PICK i \in 1..m : i = Min(Colons(s)) /\ s[i] = ":"
  BY <1>1, <1>3 DEF Colons
<1>5. Reads(SubSeq(s, 1, i - 1), d, o + 1 - 1, i - 1 - 1 + 1)
  <2>1. 1 <= (i - 1) + 1 /\ i - 1 \in Int /\ i - 1 <= m /\ 1 \in Nat \ {0}
    OBVIOUS
  <2>2. QED
    BY <2>1, ReadsPart
<1>6. PICK t : t = Name(s)
  OBVIOUS
<1>7. t = SubSeq(s, 1, i - 1)
  BY <1>4, <1>6 DEF Name
<1>8. Len(t) = i - 1 /\ DOMAIN t = 1..(i - 1) /\ \A k \in 1..(i - 1) : t[k] = d[o + k]
  <2>1. o + 1 - 1 = o /\ i - 1 - 1 + 1 = i - 1
    OBVIOUS
  <2>2. QED
    BY <1>5, <1>7, <2>1 DEF Reads
<1>9. i # 1
  <2> SUFFICES ASSUME i = 1 PROVE FALSE
    OBVIOUS
  <2>1. t = << >>
    BY <1>7, SubSeqEmpty
  <2>2. QED
    BY <1>6, <2>1
<1>10. Span(d, o + 1, o + i - 1, TokenBytes)
  <2> SUFFICES ASSUME NEW k \in (o + 1)..(o + i - 1) PROVE d[k] \in TokenBytes
    BY DEF Span
  <2>1. PICK x \in 1..(i - 1) : x = k - o
    OBVIOUS
  <2>2. t[x] = d[o + x] /\ o + x = k
    BY <1>8, <2>1
  <2>3. t[x] \in TokenBytes
    BY <1>6, <1>8 DEF AllIn
  <2>4. QED
    BY <2>2, <2>3
<1>11. NameAt(d, o + 1, o + i) /\ o + i <= o + m /\ o + i \in Nat
  <2>1. d[o + i] = ":"
    BY <1>1, <1>4
  <2>2. o + 1 < o + i /\ (o + i) - 1 = o + i - 1
    BY <1>9
  <2>3. QED
    BY <1>10, <2>1, <2>2 DEF NameAt
<1>12. QED
  BY <1>11 DEF Named

\* A name is a reserved one for both.
LEMMA NamedIs ==
    ASSUME NEW s, NEW d, NEW o \in Nat, NEW m \in Nat, NEW c \in Nat, Named(s, d, o, m, c),
           NEW j \in DOMAIN Names
    PROVE  IsNamed(s, Names[j]) <=> Called(d, o + 1, c, j)
<1>1. PICK t : t = Name(s)
  OBVIOUS
<1>2. PICK x \in Nat : x = c - o - 1
  BY DEF Named, NameAt
<1>3. Len(t) = x /\ \A k \in 1..x : t[k] = d[o + k]
  <2>1. Reads(Name(s), d, o, c - o - 1)
    BY NameIs
  <2>2. Reads(t, d, o, x)
    BY <1>1, <1>2, <2>1
  <2>3. QED
    BY <2>2 DEF Reads
<1>4. c - (o + 1) = x /\ \A k \in 1..x : (o + 1) + k - 1 = o + k
  BY <1>2
<1>5. PICK y \in Nat : y = Len(Names[j]) /\ DOMAIN Names[j] = 1..y
  <2>1. Names[j] \in Seq(Letters)
    BY FramingAssumption
  <2>2. Len(Names[j]) \in Nat /\ DOMAIN Names[j] = 1..Len(Names[j])
    BY <2>1, LenProperties
  <2>3. QED
    BY <2>2
<1>6. IsNamed(s, Names[j]) <=> x = y /\ \A k \in 1..y : Folded(t[k]) = Names[j][k]
  BY <1>1, <1>3, <1>5 DEF IsNamed
<1>7. Called(d, o + 1, c, j) <=> x = y /\ \A k \in 1..y : Folded(d[o + k]) = Names[j][k]
  BY <1>4, <1>5 DEF Called, Begins
<1>8. QED
  BY <1>3, <1>6, <1>7

\* What the reference requires of a header line.
LEMMA HeaderLineIs ==
    ASSUME NEW s, NEW d, NEW o \in Nat, NEW m \in Nat, NEW c \in Nat, Named(s, d, o, m, c)
    PROVE  IsHeaderLine(s) <=>
              /\ Span(d, c + 1, o + m, ValueBytes)
              /\ \A j \in DOMAIN Names : j > 1 => ~Called(d, o + 1, c, j)
<1>1. c \in Nat /\ o + 1 < c /\ c <= o + m /\ Span(d, o + 1, c - 1, TokenBytes)
  BY DEF Named, NameAt
<1>2. Colons(s) # {} /\ Reads(Name(s), d, o, c - o - 1) /\ Reads(Content(s), d, c, o + m - c)
  BY NameIs
<1>3. Name(s) # << >>
  <2>1. Len(Name(s)) > 0
    BY <1>1, <1>2 DEF Reads
  <2>2. Len(<< >>) = 0
    OBVIOUS
  <2>3. QED
    BY <2>1, <2>2
<1>4. AllIn(Name(s), TokenBytes)
  <2> SUFFICES ASSUME NEW k \in DOMAIN Name(s) PROVE Name(s)[k] \in TokenBytes
    BY DEF AllIn
  <2>1. k \in 1..(c - o - 1) /\ Name(s)[k] = d[o + k]
    BY <1>2 DEF Reads
  <2>2. o + k \in (o + 1)..(c - 1)
    BY <1>1, <2>1
  <2>3. QED
    BY <1>1, <2>1, <2>2 DEF Span
<1>5. AllIn(Content(s), ValueBytes) <=> Span(d, c + 1, o + m, ValueBytes)
  <2>1. ASSUME AllIn(Content(s), ValueBytes), NEW k \in (c + 1)..(o + m) PROVE d[k] \in ValueBytes
    <3>1. PICK x \in 1..(o + m - c) : x = k - c
      BY <1>1
    <3>2. Content(s)[x] = d[c + x] /\ c + x = k /\ x \in DOMAIN Content(s)
      BY <1>2, <3>1 DEF Reads
    <3>3. QED
      BY <2>1, <3>2 DEF AllIn
  <2>2. ASSUME Span(d, c + 1, o + m, ValueBytes), NEW k \in DOMAIN Content(s)
        PROVE  Content(s)[k] \in ValueBytes
    <3>1. k \in 1..(o + m - c) /\ Content(s)[k] = d[c + k]
      BY <1>2 DEF Reads
    <3>2. c + k \in (c + 1)..(o + m)
      BY <1>1, <3>1
    <3>3. QED
      BY <2>2, <3>1, <3>2 DEF Span
  <2>3. QED
    BY <2>1, <2>2 DEF AllIn, Span
<1>6. \A j \in DOMAIN Names : IsNamed(s, Names[j]) <=> Called(d, o + 1, c, j)
  BY NamedIs
<1>7. QED
  BY <1>2, <1>3, <1>4, <1>5, <1>6 DEF IsHeaderLine

\* The number in a header's content.
LEMMA NumberIs ==
    ASSUME NEW d \in Seq(Bytes), NEW t, NEW c \in Nat, NEW m \in Nat, Reads(t, d, c, m), c + m <= Len(d),
           NEW i \in Nat, i = c + m + 2, NEW x \in Nat, NEW y \in Nat, NumberAt(d, c, x, y, i)
    PROVE  Trimmed(t) = SubSeq(d, x, y) /\ Trimmed(t) # << >> /\ AllIn(Trimmed(t), Digits)
<1>1. Len(t) = m /\ DOMAIN t = 1..m /\ \A k \in 1..m : t[k] = d[c + k]
  BY DEF Reads
<1>2. /\ c < x /\ x <= y /\ y <= c + m
      /\ \A k \in (c + 1)..(x - 1) : d[k] \in Blanks
      /\ \A k \in x..y : d[k] \in Digits
      /\ \A k \in (y + 1)..(c + m) : d[k] \in Blanks
  BY DEF NumberAt, Span
<1>3. PICK a \in 1..m : a = x - c
  BY <1>2
<1>4. PICK b \in 1..m : b = y - c
  BY <1>2
<1>5. PICK K : K = {k \in DOMAIN t : t[k] \notin Blanks}
  OBVIOUS
<1>6. a \in K /\ b \in K
  <2>1. c + a = x /\ c + b = y /\ x \in x..y /\ y \in x..y
    BY <1>2, <1>3, <1>4
  <2>2. t[a] \in Digits /\ t[b] \in Digits
    BY <1>1, <1>2, <2>1
  <2>3. QED
    BY <1>1, <1>5, <2>2, ByteClasses
<1>7. ASSUME NEW k \in K PROVE a <= k /\ k <= b
  <2>1. k \in 1..m /\ d[c + k] \notin Blanks
    BY <1>1, <1>5
  <2>2. c + k \in (c + 1)..(x - 1) \/ c + k \in x..y \/ c + k \in (y + 1)..(c + m)
    BY <1>2, <2>1
  <2>3. c + k \in x..y
    BY <1>2, <2>1, <2>2
  <2>4. QED
    BY <1>3, <1>4, <2>1, <2>3
<1>8. K \in SUBSET Nat /\ K \in SUBSET Int
  BY <1>1, <1>5
<1>9. Min(K) = a /\ Max(K) = b
  <2>1. Min(K) = a
    BY <1>6, <1>7, <1>8, MinOf
  <2>2. \A k \in K : b >= k
    BY <1>7, <1>8
  <2>3. Max(K) = b
    BY <1>6, <2>2, <1>8, MaxOf
  <2>4. QED
    BY <2>1, <2>3
<1>10. PICK u : u = SubSeq(t, a, b)
  OBVIOUS
<1>11. Trimmed(t) = u
  BY <1>5, <1>6, <1>9, <1>10 DEF Trimmed
<1>12. Reads(u, d, x - 1, y - x + 1)
  <2>1. /\ a \in Nat \ {0} /\ b \in Int /\ a <= b + 1 /\ b <= m
        /\ c + a - 1 = x - 1 /\ b - a + 1 = y - x + 1
    BY <1>2, <1>3, <1>4
  <2>2. Reads(SubSeq(t, a, b), d, c + a - 1, b - a + 1)
    BY <2>1, ReadsPart
  <2>3. QED
    BY <1>10, <2>1, <2>2
<1>13. Reads(SubSeq(d, x, y), d, x - 1, y - x + 1)
  BY <1>2, RangeReads
<1>14. Len(d) \in Nat /\ \A k \in 1..Len(d) : d[k] \in Bytes
  BY Stored
<1>15. u \in Seq(Bytes)
  <2>1. \A k \in a..b : t[k] \in Bytes
    <3> SUFFICES ASSUME NEW k \in a..b PROVE t[k] \in Bytes
      OBVIOUS
    <3>1. k \in 1..m /\ c + k \in 1..Len(d)
      BY <1>14
    <3>2. QED
      BY <1>1, <1>14, <3>1
  <2>2. QED
    BY <1>10, <2>1, SubSeqProperties
<1>16. SubSeq(d, x, y) \in Seq(Bytes)
  <2>1. \A k \in x..y : d[k] \in Bytes
    BY <1>2, <1>14
  <2>2. QED
    BY <2>1, SubSeqProperties
<1>17. x - 1 \in Nat /\ y - x + 1 \in Nat
  BY <1>2
<1>18. u = SubSeq(d, x, y)
  <2>1. PICK r : r = SubSeq(d, x, y)
    OBVIOUS
  <2>2. PICK p \in Nat, q \in Nat : p = x - 1 /\ q = y - x + 1
    BY <1>17
  <2>3. Reads(u, d, p, q) /\ Reads(r, d, p, q) /\ r \in Seq(Bytes)
    BY <1>12, <1>13, <1>16, <2>1, <2>2
  <2>4. u = r
    BY <1>15, <2>3, ReadsSeq
  <2>5. QED
    BY <2>1, <2>4
<1>19. AllIn(u, Digits)
  <2> SUFFICES ASSUME NEW k \in DOMAIN u PROVE u[k] \in Digits
    BY DEF AllIn
  <2>1. k \in 1..(y - x + 1) /\ u[k] = d[(x - 1) + k]
    BY <1>12 DEF Reads
  <2>2. (x - 1) + k \in x..y
    BY <2>1
  <2>3. QED
    BY <1>2, <2>1, <2>2
<1>20. u # << >>
  <2>1. Len(u) > 0
    BY <1>2, <1>12 DEF Reads
  <2>2. Len(<< >>) = 0
    OBVIOUS
  <2>3. QED
    BY <2>1, <2>2
<1>21. QED
  BY <1>11, <1>18, <1>19, <1>20

\* What the reference takes for a number is one.
LEMMA NumberHas ==
    ASSUME NEW d, NEW t, NEW c \in Nat, NEW m \in Nat, Reads(t, d, c, m),
           NEW i \in Nat, i = c + m + 2, Trimmed(t) # << >>, AllIn(Trimmed(t), Digits)
    PROVE  \E x, y \in Nat : NumberAt(d, c, x, y, i)
<1>1. Len(t) = m /\ DOMAIN t = 1..m /\ \A k \in 1..m : t[k] = d[c + k]
  BY DEF Reads
<1>2. PICK K : K = {k \in DOMAIN t : t[k] \notin Blanks}
  OBVIOUS
<1>3. K # {}
  BY <1>2 DEF Trimmed
<1>4. K \in SUBSET Nat /\ K \in SUBSET (0..m)
  BY <1>1, <1>2
<1>5. Min(K) \in K /\ \A k \in K : Min(K) <= k
  BY <1>3, <1>4, MinHas
<1>6. Max(K) \in K /\ \A k \in K : Max(K) >= k
  BY <1>3, <1>4, MaxHas
<1>7. PICK a \in 1..m : a = Min(K) /\ a \in K
  BY <1>1, <1>2, <1>5
<1>8. PICK b \in 1..m : b = Max(K) /\ b \in K
  BY <1>1, <1>2, <1>6
<1>9. PICK u : u = SubSeq(t, a, b)
  OBVIOUS
<1>10. Trimmed(t) = u
  BY <1>2, <1>3, <1>7, <1>8, <1>9 DEF Trimmed
<1>11. a <= b
  BY <1>5, <1>7, <1>8
<1>12. Reads(u, d, c + a - 1, b - a + 1)
  <2>1. a \in Nat \ {0} /\ b \in Int /\ a <= b + 1 /\ b <= m
    BY <1>11
  <2>2. QED
    BY <1>9, <2>1, ReadsPart
<1>13. Span(d, c + a, c + b, Digits)
  <2> SUFFICES ASSUME NEW k \in (c + a)..(c + b) PROVE d[k] \in Digits
    BY DEF Span
  <2>1. PICK x \in 1..(b - a + 1) : x = k - (c + a - 1)
    BY <1>11
  <2>2. u[x] = d[(c + a - 1) + x] /\ x \in DOMAIN u /\ (c + a - 1) + x = k
    BY <1>12, <2>1 DEF Reads
  <2>3. u[x] \in Digits
    BY <1>10, <2>2 DEF AllIn
  <2>4. QED
    BY <2>2, <2>3
<1>14. ASSUME NEW k \in (c + 1)..(c + m), k < c + a \/ k > c + b PROVE d[k] \in Blanks
  <2>1. PICK x \in 1..m : x = k - c
    OBVIOUS
  <2>2. x \notin K
    BY <1>4, <1>5, <1>6, <1>7, <1>8, <1>14, <2>1
  <2>3. t[x] = d[k]
    <3>1. c + x = k
      BY <2>1
    <3>2. QED
      BY <1>1, <3>1
  <2>4. QED
    BY <1>1, <1>2, <2>2, <2>3
<1>15. Span(d, c + 1, (c + a) - 1, Blanks) /\ Span(d, (c + b) + 1, i - 2, Blanks)
  <2>1. i - 2 = c + m
    OBVIOUS
  <2>2. QED
    BY <1>14, <2>1 DEF Span
<1>16. c < c + a /\ c + a <= c + b /\ c + b <= i - 2 /\ c + a \in Nat /\ c + b \in Nat
  BY <1>11
<1>17. NumberAt(d, c, c + a, c + b, i)
  BY <1>13, <1>15, <1>16 DEF NumberAt
<1>18. QED
  BY <1>16, <1>17

\* The request line s, without its CR and LF at f - 1 and f.
LEMMA RequestLineIs ==
    ASSUME NEW d \in Seq(Bytes), NEW f \in Nat, f <= Len(d), RequestLineAt(d, f),
           NEW s, Reads(s, d, 0, f - 2)
    PROVE  IsRequestLine(s)
<1>1. PICK a \in 1..f, b \in 1..f :
          /\ Opening(d, a, b) /\ VersionAt(d, b, Len(Version))
          /\ f = b + Len(Version) + 3
          /\ d[f - 2] \in {"0", "1"} /\ d[f - 1] = "CR" /\ d[f] = "LF"
  BY DEF RequestLineAt
<1>2. PICK z \in Nat : z = Len(Version) /\ Version \in Seq(Bytes) /\ \A k \in 1..z : Version[k] # "SP"
  <2>1. Version \in Seq(Bytes \ {"SP", "CR", "LF"})
    BY FramingAssumption
  <2>2. Version \in Seq(Bytes)
    BY <2>1
  <2>3. QED
    BY <2>2, VersionBytes
<1>3. PICK m \in Nat : m = f - 2 /\ m = b + z + 1
  BY <1>1, <1>2
<1>4. Len(s) = m /\ DOMAIN s = 1..m /\ \A k \in 1..m : s[k] = d[k]
  BY <1>3 DEF Reads
<1>5. /\ a - 1 \in 1..MaxMethod /\ b - a - 1 \in 1..MaxTarget
      /\ d[a] = "SP" /\ d[b] = "SP" /\ d[a + 1] = "/"
      /\ \A k \in 1..(a - 1) : d[k] \in TokenBytes
      /\ \A k \in (a + 1)..(b - 1) : d[k] \in TargetBytes
      /\ \A k \in 1..z : d[b + k] = Version[k]
  BY <1>1, <1>2 DEF Opening, MethodAt, TargetAt, VersionAt, Span
<1>6. a \in 1..m /\ b \in 1..m /\ a < b /\ a > 1
  BY <1>3, <1>5, VersionBytes
<1>7. PICK S : S = {i \in DOMAIN s : s[i] = "SP"}
  OBVIOUS
<1>8. S = {a, b}
  <2>1. a \in S /\ b \in S
    BY <1>4, <1>5, <1>6, <1>7
  <2>2. ASSUME NEW k \in S, k # a, k # b PROVE FALSE
    <3>1. k \in 1..m /\ d[k] = "SP"
      BY <1>4, <1>7
    <3>2. CASE k < a
      <4>1. d[k] \in TokenBytes
        BY <1>5, <3>1, <3>2
      <4>2. QED
        BY <3>1, <4>1, ByteClasses
    <3>3. CASE k > a /\ k < b
      <4>1. d[k] \in TargetBytes
        BY <1>5, <3>1, <3>3
      <4>2. QED
        BY <3>1, <4>1, ByteClasses
    <3>4. CASE k > b /\ k < m
      <4>1. PICK x \in 1..z : x = k - b
        BY <1>3, <3>1, <3>4
      <4>2. b + x = k
        BY <3>1, <4>1
      <4>3. QED
        BY <1>2, <1>5, <3>1, <4>1, <4>2
    <3>5. CASE k = m
      BY <1>1, <1>3, <3>1, <3>5
    <3>6. QED
      BY <1>6, <2>2, <3>1, <3>2, <3>3, <3>4, <3>5
  <2>3. QED
    BY <2>1, <2>2
<1>9. Cardinality(S) = 2
  <2>1. a # b
    BY <1>6
  <2>2. Cardinality({a, b}) = 2
    BY <2>1, TwoOf
  <2>3. QED
    BY <1>8, <2>2
<1>10. Min(S) = a /\ Max(S) = b
  <2>1. a \in S /\ b \in S /\ S \in SUBSET Int /\ S \in SUBSET Nat /\ b \in Nat
    BY <1>8
  <2>2. \A x \in S : a <= x
    BY <1>6, <1>8
  <2>3. \A x \in S : b >= x
    BY <1>6, <1>8
  <2>4. Min(S) = a
    BY <2>1, <2>2, MinOf
  <2>5. Max(S) = b
    BY <2>1, <2>3, MaxOf
  <2>6. QED
    BY <2>4, <2>5
<1>11. PICK mt : mt = SubSeq(s, 1, a - 1)
  OBVIOUS
<1>12. PICK tg : tg = SubSeq(s, a + 1, b - 1)
  OBVIOUS
<1>13. PICK vs : vs = SubSeq(s, b + 1, m)
  OBVIOUS
<1>14. Reads(s, d, 0, m) /\ 0 \in Nat
  BY <1>3
<1>15. Reads(mt, d, 0, a - 1)
  <2>1. /\ 1 \in Nat \ {0} /\ a - 1 \in Int /\ 1 <= (a - 1) + 1 /\ a - 1 <= m
        /\ 0 + 1 - 1 = 0 /\ (a - 1) - 1 + 1 = a - 1
    BY <1>6
  <2>2. Reads(SubSeq(s, 1, a - 1), d, 0 + 1 - 1, (a - 1) - 1 + 1)
    BY <1>14, <2>1, ReadsPart
  <2>3. QED
    BY <1>11, <2>1, <2>2
<1>16. Reads(tg, d, a, b - a - 1)
  <2>1. /\ a + 1 \in Nat \ {0} /\ b - 1 \in Int /\ a + 1 <= (b - 1) + 1 /\ b - 1 <= m
        /\ 0 + (a + 1) - 1 = a /\ (b - 1) - (a + 1) + 1 = b - a - 1
    BY <1>6
  <2>2. Reads(SubSeq(s, a + 1, b - 1), d, 0 + (a + 1) - 1, (b - 1) - (a + 1) + 1)
    BY <1>14, <2>1, ReadsPart
  <2>3. QED
    BY <1>12, <2>1, <2>2
<1>17. Reads(vs, d, b, z + 1)
  <2>1. /\ b + 1 \in Nat \ {0} /\ m \in Int /\ b + 1 <= m + 1 /\ m <= m
        /\ 0 + (b + 1) - 1 = b /\ m - (b + 1) + 1 = z + 1
    BY <1>3, <1>6
  <2>2. Reads(SubSeq(s, b + 1, m), d, 0 + (b + 1) - 1, m - (b + 1) + 1)
    BY <1>14, <2>1, ReadsPart
  <2>3. QED
    BY <1>13, <2>1, <2>2
<1>18. Len(mt) \in 1..MaxMethod /\ AllIn(mt, TokenBytes)
  <2>1. Len(mt) = a - 1 /\ DOMAIN mt = 1..(a - 1) /\ \A k \in 1..(a - 1) : mt[k] = d[0 + k] /\ 0 + k = k
    BY <1>15 DEF Reads
  <2>2. QED
    BY <1>5, <2>1 DEF AllIn
<1>19. Len(tg) \in 1..MaxTarget /\ AllIn(tg, TargetBytes) /\ tg[1] = "/"
  <2>1. Len(tg) = b - a - 1 /\ DOMAIN tg = 1..(b - a - 1) /\ \A k \in 1..(b - a - 1) : tg[k] = d[a + k]
    BY <1>16 DEF Reads
  <2>2. \A k \in 1..(b - a - 1) : a + k \in (a + 1)..(b - 1)
    BY <1>6
  <2>3. 1 \in 1..(b - a - 1)
    BY <1>5, VersionBytes
  <2>4. QED
    BY <1>5, <2>1, <2>2, <2>3 DEF AllIn
<1>20. PICK v \in {"0", "1"} : v = d[m]
  BY <1>1, <1>3
<1>21. vs = Append(Version, v)
  <2>1. v \in Bytes
    BY DEF Bytes, Digits
  <2>2. PICK t : t = Append(Version, v)
    OBVIOUS
  <2>3. t \in Seq(Bytes) /\ Len(t) = z + 1 /\ (\A k \in 1..z : t[k] = Version[k]) /\ t[z + 1] = v
    BY <1>2, <2>1, <2>2, AppendProperties
  <2>4. Len(vs) = z + 1 /\ \A k \in 1..(z + 1) : vs[k] = d[b + k]
    BY <1>17 DEF Reads
  <2>5. vs[z + 1] = v
    <3>1. z + 1 \in 1..(z + 1) /\ b + (z + 1) = m
      BY <1>3
    <3>2. QED
      BY <1>20, <2>4, <3>1
  <2>6. \A k \in 1..z : vs[k] = Version[k]
    <3>1. \A k \in 1..z : k \in 1..(z + 1)
      OBVIOUS
    <3>2. QED
      BY <1>5, <2>4, <3>1
  <2>7. \A k \in 1..(z + 1) : vs[k] = t[k]
    <3>1. \A k \in 1..(z + 1) : k \in 1..z \/ k = z + 1
      OBVIOUS
    <3>2. QED
      BY <2>3, <2>5, <2>6, <3>1
  <2>8. \A k \in (b + 1)..m : s[k] \in Bytes
    <3>1. Len(d) \in Nat /\ \A k \in 1..Len(d) : d[k] \in Bytes
      BY Stored
    <3>2. \A k \in (b + 1)..m : k \in 1..m /\ k \in 1..Len(d)
      BY <1>3, <3>1
    <3>3. QED
      BY <1>4, <3>1, <3>2
  <2>9. vs \in Seq(Bytes)
    BY <1>13, <2>8, SubSeqProperties
  <2>10. vs = t
    BY <2>3, <2>4, <2>7, <2>9, SeqEqual
  <2>11. QED
    BY <2>2, <2>10
<1>22. QED
  BY <1>4, <1>7, <1>9, <1>10, <1>11, <1>12, <1>13, <1>18, <1>19, <1>21 DEF IsRequestLine

\* What the reference takes for a request line is one.
LEMMA RequestLineHas ==
    ASSUME NEW d \in Seq(Bytes), NEW f \in Nat, 2 <= f, f <= Len(d), d[f - 1] = "CR", d[f] = "LF",
           NEW s, Reads(s, d, 0, f - 2), IsRequestLine(s)
    PROVE  RequestLineAt(d, f)
<1>1. PICK m \in Nat : m = f - 2
  OBVIOUS
<1>2. Len(s) = m /\ DOMAIN s = 1..m /\ \A k \in 1..m : s[k] = d[k]
  BY <1>1 DEF Reads
<1>3. PICK S : S = {i \in DOMAIN s : s[i] = "SP"}
  OBVIOUS
<1>4. Cardinality(S) = 2
  BY <1>3 DEF IsRequestLine
<1>5. S \in SUBSET Nat /\ S \in SUBSET (0..m) /\ \A k \in S : k \in 1..m /\ d[k] = "SP"
  BY <1>2, <1>3
<1>6. IsFiniteSet(S)
  <2>1. IsFiniteSet(0..m)
    BY FS_Interval
  <2>2. QED
    BY <1>5, <2>1, FS_Subset
<1>7. S # {} /\ \E x, y \in S : x # y
  BY <1>4, <1>6, TwoHas
<1>8. PICK x \in S, y \in S : x # y
  BY <1>7
<1>9. Min(S) \in S /\ \A k \in S : Min(S) <= k
  BY <1>5, <1>7, MinHas
<1>10. Max(S) \in S /\ \A k \in S : Max(S) >= k
  BY <1>5, <1>7, MaxHas
<1>11. PICK a \in 1..m : a = Min(S) /\ a \in S
  BY <1>5, <1>9
<1>12. PICK b \in 1..m : b = Max(S) /\ b \in S
  BY <1>5, <1>10
<1>13. a < b
  <2>1. a <= x /\ a <= y /\ x <= b /\ y <= b /\ x \in Nat /\ y \in Nat
    BY <1>5, <1>8, <1>9, <1>10, <1>11, <1>12
  <2>2. QED
    BY <1>8, <2>1
<1>14. PICK mt : mt = SubSeq(s, 1, a - 1)
  OBVIOUS
<1>15. PICK tg : tg = SubSeq(s, a + 1, b - 1)
  OBVIOUS
<1>16. PICK vs : vs = SubSeq(s, b + 1, m)
  OBVIOUS
<1>17. /\ Len(mt) \in 1..MaxMethod /\ AllIn(mt, TokenBytes)
       /\ Len(tg) \in 1..MaxTarget /\ tg[1] = "/" /\ AllIn(tg, TargetBytes)
       /\ \E v \in {"0", "1"} : vs = Append(Version, v)
  BY <1>2, <1>3, <1>11, <1>12, <1>14, <1>15, <1>16 DEF IsRequestLine
<1>18. Reads(s, d, 0, m) /\ 0 \in Nat
  BY <1>1
<1>19. Reads(mt, d, 0, a - 1)
  <2>1. /\ 1 \in Nat \ {0} /\ a - 1 \in Int /\ 1 <= (a - 1) + 1 /\ a - 1 <= m
        /\ 0 + 1 - 1 = 0 /\ (a - 1) - 1 + 1 = a - 1
    OBVIOUS
  <2>2. Reads(SubSeq(s, 1, a - 1), d, 0 + 1 - 1, (a - 1) - 1 + 1)
    BY <1>18, <2>1, ReadsPart
  <2>3. QED
    BY <1>14, <2>1, <2>2
<1>20. Reads(tg, d, a, b - a - 1)
  <2>1. /\ a + 1 \in Nat \ {0} /\ b - 1 \in Int /\ a + 1 <= (b - 1) + 1 /\ b - 1 <= m
        /\ 0 + (a + 1) - 1 = a /\ (b - 1) - (a + 1) + 1 = b - a - 1
    BY <1>13
  <2>2. Reads(SubSeq(s, a + 1, b - 1), d, 0 + (a + 1) - 1, (b - 1) - (a + 1) + 1)
    BY <1>18, <2>1, ReadsPart
  <2>3. QED
    BY <1>15, <2>1, <2>2
<1>21. Reads(vs, d, b, m - b)
  <2>1. /\ b + 1 \in Nat \ {0} /\ m \in Int /\ b + 1 <= m + 1 /\ m <= m
        /\ 0 + (b + 1) - 1 = b /\ m - (b + 1) + 1 = m - b
    OBVIOUS
  <2>2. Reads(SubSeq(s, b + 1, m), d, 0 + (b + 1) - 1, m - (b + 1) + 1)
    BY <1>18, <2>1, ReadsPart
  <2>3. QED
    BY <1>16, <2>1, <2>2
<1>22. MethodAt(d, a)
  <2>1. Len(mt) = a - 1 /\ DOMAIN mt = 1..(a - 1) /\ \A k \in 1..(a - 1) : mt[k] = d[0 + k] /\ 0 + k = k
    BY <1>19 DEF Reads
  <2>2. QED
    BY <1>5, <1>11, <1>17, <2>1 DEF AllIn, MethodAt, Span
<1>23. TargetAt(d, a, b)
  <2>1. Len(tg) = b - a - 1 /\ DOMAIN tg = 1..(b - a - 1) /\ \A k \in 1..(b - a - 1) : tg[k] = d[a + k]
    BY <1>20, <1>13 DEF Reads
  <2>2. ASSUME NEW k \in (a + 1)..(b - 1) PROVE d[k] \in TargetBytes
    <3>1. PICK i \in 1..(b - a - 1) : i = k - a
      OBVIOUS
    <3>2. tg[i] = d[a + i] /\ i \in DOMAIN tg
      BY <2>1
    <3>3. a + i = k
      BY <3>1
    <3>4. tg[i] \in TargetBytes
      BY <1>17, <3>2 DEF AllIn
    <3>5. QED
      BY <3>2, <3>3, <3>4
  <2>3. 1 \in 1..(b - a - 1)
    BY <1>17, <2>1, VersionBytes
  <2>4. QED
    BY <1>5, <1>12, <1>17, <2>1, <2>2, <2>3 DEF TargetAt, Span
<1>24. PICK v \in {"0", "1"} : vs = Append(Version, v)
  BY <1>17
<1>25. PICK z \in Nat : z = Len(Version) /\ Version \in Seq(Bytes)
  <2>1. Version \in Seq(Bytes \ {"SP", "CR", "LF"})
    BY FramingAssumption
  <2>2. Version \in Seq(Bytes)
    BY <2>1
  <2>3. QED
    BY <2>2, VersionBytes
<1>26. Len(vs) = z + 1 /\ (\A k \in 1..z : vs[k] = Version[k]) /\ vs[z + 1] = v
  <2>1. v \in Bytes
    BY DEF Bytes, Digits
  <2>2. QED
    BY <1>24, <1>25, <2>1, AppendProperties
<1>27. Len(vs) = m - b /\ \A k \in 1..(m - b) : vs[k] = d[b + k]
  BY <1>21 DEF Reads
<1>28. m = b + z + 1
  BY <1>26, <1>27
<1>29. VersionAt(d, b, z)
  <2>1. \A k \in 1..z : k \in 1..(m - b)
    BY <1>28
  <2>2. QED
    BY <1>26, <1>27, <2>1 DEF VersionAt
<1>30. d[m] \in {"0", "1"}
  <2>1. z + 1 \in 1..(m - b) /\ b + (z + 1) = m
    BY <1>28
  <2>2. QED
    BY <1>26, <1>27, <2>1
<1>31. a \in 1..f /\ b \in 1..f /\ f = b + z + 3 /\ f - 2 = m
  BY <1>1, <1>28
<1>32. QED
  BY <1>22, <1>23, <1>25, <1>29, <1>30, <1>31 DEF RequestLineAt, Opening

\* A line of the reference that begins after the first.
LEMMA LineIs ==
    ASSUME NEW d, NEW i \in Nat, NEW p \in Nat, LineAt(d, p, i)
    PROVE  /\ LineStart(d, i) = p
           /\ p < i => Reads(Line(d, i), d, p - 1, i - 1 - p)
<1>1. Starts(d, p, i) /\ i \in Nat \ {0} /\ p \in Nat \ {0}
  BY DEF LineAt, Starts
<1>2. LineStart(d, i) = p
  BY <1>1, LineStartIs
<1>3. ASSUME p < i PROVE Reads(Line(d, i), d, p - 1, i - 1 - p)
  <2>1. i - 2 \in Int /\ p <= (i - 2) + 1 /\ (i - 2) - p + 1 = i - 1 - p
    BY <1>3
  <2>2. Reads(SubSeq(d, p, i - 2), d, p - 1, (i - 2) - p + 1)
    BY <1>1, <2>1, RangeReads
  <2>3. QED
    BY <1>2, <2>1, <2>2 DEF Line
<1>4. QED
  BY <1>2, <1>3

\* A header line that ends at i.
LEMMA HeaderNamed ==
    ASSUME NEW d, NEW i \in Nat, NEW p \in Nat, LineAt(d, p, i), NEW c \in Nat, HeaderAt(d, p, c, i)
    PROVE  /\ IsTerminated(d, i) /\ p - 1 \in Nat /\ i - 1 - p \in Nat
           /\ Named(Line(d, i), d, p - 1, i - 1 - p, c)
<1>1. p < i - 1 /\ p < c /\ d[i - 1] = "CR" /\ NameAt(d, p, c) /\ c <= i - 2 /\ p >= 2
  BY HeaderFull DEF HeaderAt, LineAt
<1>2. LineStart(d, i) = p /\ Reads(Line(d, i), d, p - 1, i - 1 - p)
  BY <1>1, LineIs
<1>3. (p - 1) + 1 = p /\ (p - 1) + (i - 1 - p) = i - 2 /\ p - 1 \in Nat /\ i - 1 - p \in Nat /\ p < i
  BY <1>1
<1>4. Named(Line(d, i), d, p - 1, i - 1 - p, c)
  BY <1>1, <1>2, <1>3 DEF Named
<1>5. QED
  BY <1>1, <1>2, <1>3, <1>4 DEF IsTerminated

\* A plain header is a header line for the reference,
LEMMA PlainSame ==
    ASSUME NEW d, NEW i \in Nat, NEW p \in Nat, LineAt(d, p, i), PlainLine(d, p, i)
    PROVE  IsTerminated(d, i) /\ IsHeaderLine(Line(d, i)) /\ ~IsNamed(Line(d, i), Names[1])
<1>1. PICK c \in p..i : HeaderAt(d, p, c, i) /\ Unreserved(d, p, c)
  BY DEF PlainLine
<1>2. PICK o \in Nat, m \in Nat : o = p - 1 /\ m = i - 1 - p
  BY <1>1, HeaderNamed
<1>3. IsTerminated(d, i) /\ Named(Line(d, i), d, o, m, c) /\ c \in Nat
  BY <1>1, <1>2, HeaderNamed
<1>4. o + 1 = p /\ o + m = i - 2
  BY <1>2
<1>5. IsHeaderLine(Line(d, i))
  <2>1. Span(d, c + 1, o + m, ValueBytes)
    BY <1>1, <1>4 DEF HeaderAt
  <2>2. \A j \in DOMAIN Names : ~Called(d, o + 1, c, j)
    BY <1>1, <1>4 DEF Unreserved
  <2>3. QED
    BY <1>3, <2>1, <2>2, HeaderLineIs
<1>6. ~IsNamed(Line(d, i), Names[1])
  <2>1. 1 \in DOMAIN Names
    BY NameLetters
  <2>2. ~Called(d, o + 1, c, 1)
    BY <1>1, <1>4, <2>1 DEF Unreserved
  <2>3. QED
    BY <1>3, <2>1, <2>2, NamedIs
<1>7. QED
  BY <1>3, <1>5, <1>6

\* and a Content-Length one with the same value.
LEMMA LengthSame ==
    ASSUME NEW d \in Seq(Bytes), NEW i \in Nat, i <= Len(d), NEW p \in Nat, LineAt(d, p, i),
           NEW v, LengthLine(d, p, i, v)
    PROVE  /\ IsTerminated(d, i) /\ IsHeaderLine(Line(d, i)) /\ IsNamed(Line(d, i), Names[1])
           /\ Trimmed(Content(Line(d, i))) # << >> /\ AllIn(Trimmed(Content(Line(d, i))), Digits)
           /\ Decimal(Trimmed(Content(Line(d, i)))) = v
<1>1. PICK c \in p..i, x \in p..i, y \in p..i :
          /\ HeaderAt(d, p, c, i) /\ Called(d, p, c, 1)
          /\ NumberAt(d, c, x, y, i) /\ v = Decimal(SubSeq(d, x, y))
  BY DEF LengthLine
<1>2. PICK o \in Nat, m \in Nat : o = p - 1 /\ m = i - 1 - p
  <2>1. c \in Nat
    OBVIOUS
  <2>2. p - 1 \in Nat /\ i - 1 - p \in Nat
    BY <1>1, <2>1, HeaderNamed
  <2>3. QED
    BY <2>2
<1>3. IsTerminated(d, i) /\ Named(Line(d, i), d, o, m, c) /\ c \in Nat
  BY <1>1, <1>2, HeaderNamed
<1>4. o + 1 = p /\ o + m = i - 2 /\ p < c /\ c <= i - 2
  <2>1. p < c /\ c <= i - 2
    BY <1>1 DEF HeaderAt, NameAt
  <2>2. o + 1 = p /\ o + m = i - 2
    BY <1>2
  <2>3. QED
    BY <2>1, <2>2
<1>5. 1 \in DOMAIN Names
  BY NameLetters
<1>6. IsNamed(Line(d, i), Names[1])
  <2>1. Called(d, o + 1, c, 1)
    BY <1>1, <1>4
  <2>2. QED
    BY <1>3, <1>5, <2>1, NamedIs
<1>7. IsHeaderLine(Line(d, i))
  <2>1. Span(d, c + 1, o + m, ValueBytes)
    BY <1>1, <1>4 DEF HeaderAt
  <2>2. ASSUME NEW j \in DOMAIN Names, j > 1, Called(d, o + 1, c, j) PROVE FALSE
    <3>1. Called(d, p, c, j)
      BY <1>4, <2>2
    <3>2. c - p \in Nat /\ c - p > 0
      BY <1>3, <1>4
    <3>3. Begins(d, p, c - p, 1) /\ Begins(d, p, c - p, j)
      BY <1>1, <3>1 DEF Called
    <3>4. j = 1
      BY <1>5, <3>2, <3>3, BeginsOne
    <3>5. QED
      BY <2>2, <3>4
  <2>3. QED
    BY <1>3, <2>1, <2>2, HeaderLineIs
<1>8. PICK t : t = Content(Line(d, i))
  OBVIOUS
<1>9. PICK k \in Nat : k = o + m - c
  BY <1>3, <1>4
<1>10. Reads(t, d, c, k)
  <2>1. Reads(Content(Line(d, i)), d, c, o + m - c)
    BY <1>3, NameIs
  <2>2. QED
    BY <1>8, <1>9, <2>1
<1>11. c + k <= Len(d) /\ i = c + k + 2
  <2>1. Len(d) \in Nat
    BY Stored
  <2>2. QED
    BY <1>3, <1>4, <1>9, <2>1
<1>12. Trimmed(t) = SubSeq(d, x, y) /\ Trimmed(t) # << >> /\ AllIn(Trimmed(t), Digits)
  <2>1. x \in Nat /\ y \in Nat
    BY <1>1
  <2>2. QED
    BY <1>1, <1>3, <1>10, <1>11, <2>1, NumberIs
<1>13. QED
  BY <1>1, <1>3, <1>6, <1>7, <1>8, <1>12

\* And the other way round.
LEMMA LineNamed ==
    ASSUME NEW d, NEW i \in Nat, NEW p \in Nat, LineAt(d, p, i), IsTerminated(d, i), IsHeaderLine(Line(d, i))
    PROVE  \E c \in Nat : HeaderAt(d, p, c, i) /\ p - 1 \in Nat /\ i - 1 - p \in Nat
                             /\ Named(Line(d, i), d, p - 1, i - 1 - p, c)
                             /\ \A j \in DOMAIN Names : j > 1 => ~Called(d, p, c, j)
<1>1. LineStart(d, i) = p
  BY LineIs
<1>2. i > p /\ d[i - 1] = "CR"
  BY <1>1 DEF IsTerminated
<1>3. p >= 2
  BY DEF LineAt
<1>4. PICK o \in Nat, m \in Nat : o = p - 1 /\ m = i - 1 - p
  BY <1>2, <1>3
<1>5. PICK s : s = Line(d, i) /\ Reads(s, d, o, m)
  BY <1>2, <1>4, LineIs
<1>6. Colons(s) # {} /\ Name(s) # << >> /\ AllIn(Name(s), TokenBytes)
  BY <1>5 DEF IsHeaderLine
<1>7. PICK c \in Nat : Named(s, d, o, m, c)
  BY <1>5, <1>6, NameHas
<1>8. Span(d, c + 1, o + m, ValueBytes) /\ \A j \in DOMAIN Names : j > 1 => ~Called(d, o + 1, c, j)
  BY <1>5, <1>7, HeaderLineIs
<1>9. o + 1 = p /\ o + m = i - 2
  BY <1>4
<1>10. HeaderAt(d, p, c, i)
  BY <1>2, <1>7, <1>8, <1>9 DEF HeaderAt, Named
<1>11. QED
  BY <1>4, <1>5, <1>7, <1>8, <1>9, <1>10

LEMMA PlainBack ==
    ASSUME NEW d, NEW i \in Nat, NEW p \in Nat, LineAt(d, p, i), IsTerminated(d, i),
           IsHeaderLine(Line(d, i)), ~IsNamed(Line(d, i), Names[1])
    PROVE  PlainLine(d, p, i)
<1>1. PICK c \in Nat : /\ HeaderAt(d, p, c, i) /\ p - 1 \in Nat /\ i - 1 - p \in Nat
                       /\ Named(Line(d, i), d, p - 1, i - 1 - p, c)
                       /\ \A j \in DOMAIN Names : j > 1 => ~Called(d, p, c, j)
  BY LineNamed
<1>2. (p - 1) + 1 = p /\ 1 \in DOMAIN Names
  BY NameLetters
<1>3. ~Called(d, p, c, 1)
  <2>1. IsNamed(Line(d, i), Names[1]) <=> Called(d, (p - 1) + 1, c, 1)
    BY <1>1, <1>2, NamedIs
  <2>2. QED
    BY <1>2, <2>1
<1>4. Unreserved(d, p, c)
  <2>1. \A j \in DOMAIN Names : j = 1 \/ j > 1
    BY NameLetters, FramingAssumption
  <2>2. QED
    BY <1>1, <1>3, <2>1 DEF Unreserved
<1>5. c \in p..i
  BY <1>1, HeaderFull
<1>6. QED
  BY <1>1, <1>4, <1>5 DEF PlainLine

LEMMA LengthBack ==
    ASSUME NEW d, NEW i \in Nat, NEW p \in Nat, LineAt(d, p, i), IsTerminated(d, i),
           IsHeaderLine(Line(d, i)), IsNamed(Line(d, i), Names[1]),
           Trimmed(Content(Line(d, i))) # << >>, AllIn(Trimmed(Content(Line(d, i))), Digits)
    PROVE  \E x, y \in Nat : LengthLine(d, p, i, Decimal(SubSeq(d, x, y)))
<1>1. PICK c \in Nat : /\ HeaderAt(d, p, c, i) /\ p - 1 \in Nat /\ i - 1 - p \in Nat
                       /\ Named(Line(d, i), d, p - 1, i - 1 - p, c)
  BY LineNamed
<1>2. (p - 1) + 1 = p /\ 1 \in DOMAIN Names
  BY NameLetters
<1>3. Called(d, p, c, 1)
  <2>1. IsNamed(Line(d, i), Names[1]) <=> Called(d, (p - 1) + 1, c, 1)
    BY <1>1, <1>2, NamedIs
  <2>2. QED
    BY <1>2, <2>1
<1>4. p < c /\ c <= i - 2
  BY <1>1 DEF HeaderAt, NameAt
<1>5. PICK k \in Nat : k = i - 2 - c /\ k = (p - 1) + (i - 1 - p) - c
  BY <1>4
<1>6. PICK t : t = Content(Line(d, i)) /\ Reads(t, d, c, k)
  BY <1>1, <1>5, NameIs
<1>7. i = c + k + 2
  BY <1>5
<1>8. PICK x \in Nat, y \in Nat : NumberAt(d, c, x, y, i)
  BY <1>6, <1>7, NumberHas
<1>9. c \in p..i /\ x \in p..i /\ y \in p..i
  BY <1>4, <1>8 DEF NumberAt
<1>10. QED
  BY <1>1, <1>3, <1>8, <1>9 DEF LengthLine

\* What the reference reads as the value of a Content-Length line.
Digitized(d, i) == Trimmed(Content(Line(d, i)))
IsLengthLine(d, i) == IsHeaderLine(Line(d, i)) /\ IsNamed(Line(d, i), Names[1])

\* The header lines of a request.
LEMMA HeadersAre ==
    ASSUME NEW d \in Seq(Bytes), NEW f \in Nat, NEW g \in Nat, g <= Len(d), NEW count, NEW v,
           Counted(d, f, g, count, v),
           NEW H, \A i \in H : i \in (f + 1)..g /\ d[i] = "LF",
           \A i \in (f + 1)..g : d[i] = "LF" => i \in H
    PROVE  /\ \A i \in H : IsTerminated(d, i) /\ IsHeaderLine(Line(d, i))
           /\ \/ v = 0 /\ \A i \in H : ~IsLengthLine(d, i)
              \/ \E l \in H : /\ \A i \in H : IsLengthLine(d, i) <=> i = l
                              /\ Digitized(d, l) # << >> /\ AllIn(Digitized(d, l), Digits)
                              /\ Decimal(Digitized(d, l)) = v
<1>1. ASSUME NEW i \in H, NEW p \in 2..i, LineAt(d, p, i), PlainLine(d, p, i)
      PROVE  IsTerminated(d, i) /\ IsHeaderLine(Line(d, i)) /\ ~IsLengthLine(d, i)
  <2>1. i \in Nat /\ p \in Nat
    OBVIOUS
  <2>2. QED
    BY <1>1, <2>1, PlainSame DEF IsLengthLine
<1>2. CASE v = 0 /\ Lines(d, f, g, 0)
  <2>1. ASSUME NEW i \in H
        PROVE  IsTerminated(d, i) /\ IsHeaderLine(Line(d, i)) /\ ~IsLengthLine(d, i)
    <3>1. i \in (f + 1)..g /\ d[i] = "LF" /\ i # 0
      OBVIOUS
    <3>2. PICK p \in 2..i : LineAt(d, p, i) /\ PlainLine(d, p, i)
      BY <1>2, <3>1 DEF Lines
    <3>3. QED
      BY <1>1, <3>2
  <2>2. QED
    BY <1>2, <2>1
<1>3. ASSUME NEW l \in (f + 1)..g, NEW p \in 2..l, LineAt(d, p, l), LengthLine(d, p, l, v), Lines(d, f, g, l)
      PROVE  /\ \A i \in H : IsTerminated(d, i) /\ IsHeaderLine(Line(d, i))
             /\ \E x \in H : /\ \A i \in H : IsLengthLine(d, i) <=> i = x
                             /\ Digitized(d, x) # << >> /\ AllIn(Digitized(d, x), Digits)
                             /\ Decimal(Digitized(d, x)) = v
  <2>1. l \in H
    BY <1>3 DEF LineAt
  <2>2. l \in Nat /\ p \in Nat /\ l <= Len(d)
    <3>1. Len(d) \in Nat
      BY Stored
    <3>2. QED
      BY <3>1
  <2>3. /\ IsTerminated(d, l) /\ IsHeaderLine(Line(d, l)) /\ IsLengthLine(d, l)
        /\ Digitized(d, l) # << >> /\ AllIn(Digitized(d, l), Digits) /\ Decimal(Digitized(d, l)) = v
    BY <1>3, <2>2, LengthSame DEF IsLengthLine, Digitized
  <2>4. ASSUME NEW i \in H, i # l
        PROVE  IsTerminated(d, i) /\ IsHeaderLine(Line(d, i)) /\ ~IsLengthLine(d, i)
    <3>1. i \in (f + 1)..g /\ d[i] = "LF"
      OBVIOUS
    <3>2. PICK q \in 2..i : LineAt(d, q, i) /\ PlainLine(d, q, i)
      BY <1>3, <2>4, <3>1 DEF Lines
    <3>3. QED
      BY <1>1, <3>2
  <2>5. \A i \in H : IsLengthLine(d, i) <=> i = l
    BY <2>3, <2>4
  <2>6. \A i \in H : IsTerminated(d, i) /\ IsHeaderLine(Line(d, i))
    BY <2>3, <2>4
  <2>7. QED
    BY <2>1, <2>3, <2>5, <2>6
<1>4. CASE \E l \in (f + 1)..g : /\ \E p \in 2..l : LineAt(d, p, l) /\ LengthLine(d, p, l, v)
                                 /\ Lines(d, f, g, l)
  <2>1. PICK l \in (f + 1)..g : /\ \E p \in 2..l : LineAt(d, p, l) /\ LengthLine(d, p, l, v)
                                /\ Lines(d, f, g, l)
    BY <1>4
  <2>2. PICK p \in 2..l : LineAt(d, p, l) /\ LengthLine(d, p, l, v)
    BY <2>1
  <2>3. QED
    BY <1>3, <2>1, <2>2
<1>5. QED
  BY <1>2, <1>4 DEF Counted

\* The request line is that of the reference.
LEMMA FirstIs ==
    ASSUME NEW d \in Seq(Bytes), NEW f \in Nat, f <= Len(d), RequestLineAt(d, f)
    PROVE  IsTerminated(d, f) /\ IsRequestLine(Line(d, f))
<1>1. f > 3 /\ d[f - 1] = "CR" /\ d[f] = "LF" /\ \A k \in 1..(f - 1) : d[k] # "LF"
  BY RequestLinePlain
<1>2. Starts(d, 1, f) /\ f \in Nat \ {0}
  BY <1>1 DEF Starts
<1>3. LineStart(d, f) = 1
  BY <1>2, LineStartIs
<1>4. Reads(SubSeq(d, 1, f - 2), d, 0, f - 2)
  <2>1. f - 2 \in Int /\ 1 <= (f - 2) + 1 /\ 1 - 1 = 0 /\ (f - 2) - 1 + 1 = f - 2 /\ 1 \in Nat \ {0}
    BY <1>1
  <2>2. Reads(SubSeq(d, 1, f - 2), d, 1 - 1, (f - 2) - 1 + 1)
    BY <2>1, RangeReads
  <2>3. QED
    BY <2>1, <2>2
<1>5. IsRequestLine(SubSeq(d, 1, f - 2))
  BY <1>4, RequestLineIs
<1>6. QED
  BY <1>1, <1>3, <1>5 DEF IsTerminated, Line

\* The reference finds the request that is there, with its length.
LEMMA RequestReferenced ==
    ASSUME NEW d \in Seq(Bytes), NEW e \in Nat, NEW v \in Nat, NEW capacity \in Nat,
           RequestAt(d, e, v), e + v <= capacity, e + v <= Len(d)
    PROVE  reference(d, capacity) = [verdict |-> "complete", total |-> e + v]
<1>1. PICK z \in Nat : z = Len(d)
  BY Stored
<1>2. e <= z /\ e + v <= z /\ e <= capacity
  BY <1>1
<1>3. e \in Ends(d) /\ \A x \in Ends(d) : e <= x
  BY <1>1, <1>2, EndsIs
<1>4. Ends(d) # {} /\ Min(Ends(d)) = e
  <2>1. Ends(d) \in SUBSET Int
    BY <1>1, EndsHave
  <2>2. QED
    BY <1>3, <2>1, MinOf
<1>5. PICK f \in 1..(e - 2) : RequestLineAt(d, f) /\ \E count \in {0, 1} : Counted(d, f, e - 2, count, v)
  BY DEF RequestAt
<1>6. PICK count \in {0, 1} : Counted(d, f, e - 2, count, v)
  BY <1>5
<1>7. f > 3 /\ d[f] = "LF" /\ f \in Nat /\ \A k \in 1..(f - 1) : d[k] # "LF"
  BY <1>5, RequestLinePlain
<1>8. FirstLine(d, e) = f
  <2>1. f \in LineEnds(d, e) /\ LineEnds(d, e) \in SUBSET Int
    BY <1>5, <1>7 DEF LineEnds
  <2>2. \A k \in LineEnds(d, e) : f <= k
    BY <1>5, <1>7 DEF LineEnds
  <2>3. QED
    BY <2>1, <2>2, MinOf DEF FirstLine
<1>9. IsTerminated(d, f) /\ IsRequestLine(Line(d, f))
  BY <1>1, <1>2, <1>5, <1>7, FirstIs
<1>10. PICK H : H = LineEnds(d, e) \ {f}
  OBVIOUS
<1>11. \A i \in H : i \in (f + 1)..(e - 2) /\ d[i] = "LF"
  BY <1>7, <1>10 DEF LineEnds
<1>12. \A i \in (f + 1)..(e - 2) : d[i] = "LF" => i \in H
  BY <1>7, <1>10 DEF LineEnds
<1>13. /\ \A i \in H : IsTerminated(d, i) /\ IsHeaderLine(Line(d, i))
       /\ \/ v = 0 /\ \A i \in H : ~IsLengthLine(d, i)
          \/ \E l \in H : /\ \A i \in H : IsLengthLine(d, i) <=> i = l
                          /\ Digitized(d, l) # << >> /\ AllIn(Digitized(d, l), Digits)
                          /\ Decimal(Digitized(d, l)) = v
  <2>1. PICK g \in Nat : g = e - 2 /\ g <= Len(d)
    BY <1>1, <1>2, <1>5, <1>7
  <2>2. /\ \A i \in H : i \in (f + 1)..g /\ d[i] = "LF"
        /\ \A i \in (f + 1)..g : d[i] = "LF" => i \in H
        /\ Counted(d, f, g, count, v)
    BY <1>6, <1>11, <1>12, <2>1
  <2>3. QED
    BY <1>7, <2>1, <2>2, HeadersAre
<1>14. PICK L : L = {i \in H : IsHeaderLine(Line(d, i)) /\ IsNamed(Line(d, i), Names[1])}
  OBVIOUS
<1>15. PICK V : V = {Decimal(Digitized(d, i)) : i \in L}
  OBVIOUS
<1>16. /\ Cardinality(L) <= 1 /\ SumSet(V) = v
       /\ \A i \in L : Digitized(d, i) # << >> /\ AllIn(Digitized(d, i), Digits)
  <2>1. CASE v = 0 /\ \A i \in H : ~IsLengthLine(d, i)
    <3>1. L = {}
      BY <1>14, <2>1 DEF IsLengthLine
    <3>2. V = {}
      BY <1>15, <3>1
    <3>3. Cardinality(L) = 0
      BY <3>1, FS_EmptySet
    <3>4. QED
      BY <2>1, <3>1, <3>2, <3>3, SumOfNone
  <2>2. CASE \E l \in H : /\ \A i \in H : IsLengthLine(d, i) <=> i = l
                          /\ Digitized(d, l) # << >> /\ AllIn(Digitized(d, l), Digits)
                          /\ Decimal(Digitized(d, l)) = v
    <3>1. PICK l \in H : /\ \A i \in H : IsLengthLine(d, i) <=> i = l
                         /\ Digitized(d, l) # << >> /\ AllIn(Digitized(d, l), Digits)
                         /\ Decimal(Digitized(d, l)) = v
      BY <2>2
    <3>2. L = {l}
      BY <1>14, <3>1 DEF IsLengthLine
    <3>3. V = {v}
      BY <1>15, <3>1, <3>2
    <3>4. Cardinality(L) = 1
      BY <3>2, FS_Singleton
    <3>5. SumSet(V) = v
      BY <3>3, SumOfOne
    <3>6. QED
      BY <3>1, <3>2, <3>4, <3>5
  <2>3. QED
    BY <1>13, <2>1, <2>2
<1>17. \A i \in LineEnds(d, e) : IsTerminated(d, i)
  BY <1>9, <1>10, <1>13
<1>18. e + v \in Nat /\ ~(e + v > capacity) /\ ~(z < e + v)
  BY <1>2
<1>19. QED
  BY <1>1, <1>2, <1>4, <1>8, <1>9, <1>10, <1>13, <1>14, <1>15, <1>16, <1>17, <1>18 DEF reference, Digitized

\* A length is a number.
LEMMA LengthNumber ==
    ASSUME NEW d, NEW p \in Nat, NEW i \in Nat, NEW v, LengthLine(d, p, i, v)
    PROVE  v \in Nat
<1>1. PICK c \in p..i, x \in p..i, y \in p..i : NumberAt(d, c, x, y, i) /\ v = Decimal(SubSeq(d, x, y))
  BY DEF LengthLine
<1>2. x \in Nat /\ y \in Nat /\ x <= y + 1 /\ Span(d, x, y, Digits)
  BY <1>1 DEF NumberAt
<1>3. QED
  BY <1>1, <1>2, RangeNumber

\* A line of the reference after the first one, which ends at f.
LEMMA LineOf ==
    ASSUME NEW d, NEW f \in Nat \ {0}, d[f] = "LF", NEW i \in Nat, f < i, d[i] = "LF"
    PROVE  \E p \in 2..i : LineAt(d, p, i)
<1>1. PICK p \in 1..i : p = LineStart(d, i) /\ Starts(d, p, i)
  <2>1. i \in Nat \ {0}
    OBVIOUS
  <2>2. QED
    BY <2>1, LineStartHas DEF Starts
<1>2. p > f
  BY <1>1 DEF Starts
<1>3. p \in 2..i
  BY <1>2
<1>4. LineAt(d, p, i)
  BY <1>1, <1>3 DEF Starts, LineAt
<1>5. QED
  BY <1>3, <1>4

HasLength(d, f, g, L) ==
    \E v \in Nat : /\ \E count \in {0, 1} : Counted(d, f, g, count, v)
                  /\ SumSet({Decimal(Digitized(d, i)) : i \in L}) = v

\* The header lines of a sound request are those of a request.
LEMMA HeadersBack ==
    ASSUME NEW d \in Seq(Bytes), NEW f \in Nat \ {0}, d[f] = "LF", NEW g \in Nat, g <= Len(d),
           NEW H, H = {i \in (f + 1)..g : d[i] = "LF"},
           \A i \in H : IsTerminated(d, i) /\ IsHeaderLine(Line(d, i)),
           NEW L, L = {i \in H : IsLengthLine(d, i)}, L = {} \/ \E l : L = {l},
           \A i \in L : Digitized(d, i) # << >> /\ AllIn(Digitized(d, i), Digits)
    PROVE  HasLength(d, f, g, L)
<1>1. ASSUME NEW i \in H, i \notin L PROVE \E p \in 2..i : LineAt(d, p, i) /\ PlainLine(d, p, i)
  <2>1. i \in Nat /\ f < i /\ d[i] = "LF"
    OBVIOUS
  <2>2. PICK p \in 2..i : LineAt(d, p, i)
    BY <2>1, LineOf
  <2>3. p \in Nat
    BY <2>1
  <2>4. IsTerminated(d, i) /\ IsHeaderLine(Line(d, i)) /\ ~IsNamed(Line(d, i), Names[1])
    BY <1>1 DEF IsLengthLine
  <2>5. PlainLine(d, p, i)
    BY <2>1, <2>2, <2>3, <2>4, PlainBack
  <2>6. QED
    BY <2>2, <2>5
<1>2. CASE L = {}
  <2>1. Lines(d, f, g, 0)
    BY <1>1, <1>2 DEF Lines
  <2>2. Counted(d, f, g, 0, 0)
    BY <2>1 DEF Counted
  <2>3. {Decimal(Digitized(d, i)) : i \in L} = {}
    BY <1>2
  <2>4. SumSet({Decimal(Digitized(d, i)) : i \in L}) = 0
    BY <2>3, SumOfNone
  <2>5. QED
    BY <2>2, <2>4 DEF HasLength
<1>3. ASSUME NEW l, L = {l}
      PROVE  HasLength(d, f, g, L)
  <2>1. l \in L /\ l \in H /\ l \in (f + 1)..g /\ d[l] = "LF"
    BY <1>3
  <2>2. l \in Nat /\ f < l /\ l <= Len(d)
    <3>1. Len(d) \in Nat
      BY Stored
    <3>2. QED
      BY <2>1, <3>1
  <2>3. PICK p \in 2..l : LineAt(d, p, l)
    BY <2>1, <2>2, LineOf
  <2>4. p \in Nat
    BY <2>2
  <2>5. IsTerminated(d, l) /\ IsHeaderLine(Line(d, l)) /\ IsNamed(Line(d, l), Names[1])
    BY <2>1 DEF IsLengthLine
  <2>6. Trimmed(Content(Line(d, l))) # << >> /\ AllIn(Trimmed(Content(Line(d, l))), Digits)
    BY <2>1 DEF Digitized
  <2>7. PICK x \in Nat, y \in Nat : LengthLine(d, p, l, Decimal(SubSeq(d, x, y)))
    BY <2>2, <2>3, <2>4, <2>5, <2>6, LengthBack
  <2>8. PICK v \in Nat : LengthLine(d, p, l, v)
    BY <2>2, <2>4, <2>7, LengthNumber
  <2>9. Decimal(Digitized(d, l)) = v
    BY <2>2, <2>3, <2>4, <2>8, LengthSame DEF Digitized
  <2>10. Lines(d, f, g, l)
    BY <1>1, <1>3 DEF Lines
  <2>11. Counted(d, f, g, 1, v)
    BY <2>1, <2>3, <2>8, <2>10 DEF Counted
  <2>12. {Decimal(Digitized(d, i)) : i \in L} = {v}
    BY <1>3, <2>9
  <2>13. SumSet({Decimal(Digitized(d, i)) : i \in L}) = v
    BY <2>12, SumOfOne
  <2>14. QED
    BY <2>11, <2>13 DEF HasLength
<1>4. QED
  BY <1>2, <1>3

\* The first line of the reference is the request line.
LEMMA FirstBack ==
    ASSUME NEW d \in Seq(Bytes), NEW f \in Nat \ {0}, f <= Len(d), d[f] = "LF", \A k \in 1..(f - 1) : d[k] # "LF",
           IsTerminated(d, f), IsRequestLine(Line(d, f))
    PROVE  RequestLineAt(d, f)
<1>1. Starts(d, 1, f)
  BY DEF Starts
<1>2. LineStart(d, f) = 1
  BY <1>1, LineStartIs
<1>3. 2 <= f /\ d[f - 1] = "CR"
  BY <1>2 DEF IsTerminated
<1>4. Reads(SubSeq(d, 1, f - 2), d, 0, f - 2)
  <2>1. f - 2 \in Int /\ 1 <= (f - 2) + 1 /\ 1 - 1 = 0 /\ (f - 2) - 1 + 1 = f - 2 /\ 1 \in Nat \ {0}
    BY <1>3
  <2>2. Reads(SubSeq(d, 1, f - 2), d, 1 - 1, (f - 2) - 1 + 1)
    BY <2>1, RangeReads
  <2>3. QED
    BY <2>1, <2>2
<1>5. IsRequestLine(SubSeq(d, 1, f - 2))
  BY <1>2 DEF Line
<1>6. QED
  BY <1>3, <1>4, <1>5, RequestLineHas

\* What the reference accepts is a request, no longer than the buffer and the bytes.
LEMMA ReferencedRequest ==
    ASSUME NEW d \in Seq(Bytes), NEW capacity \in Nat, reference(d, capacity).verdict = "complete"
    PROVE  \E e, v \in Nat : RequestAt(d, e, v) /\ e + v <= capacity /\ e + v <= Len(d)
<1>1. PICK z \in Nat : z = Len(d)
  BY Stored
<1>2. Ends(d) # {}
  BY DEF reference, Invalid, More
<1>3. Ends(d) \in SUBSET Nat
  BY <1>1, EndsHave
<1>4. Min(Ends(d)) \in Ends(d)
  BY <1>2, <1>3, MinHas
<1>5. PICK e \in Nat : e = Min(Ends(d)) /\ e \in Ends(d)
  BY <1>3, <1>4
<1>6. e \in 4..z /\ d[e - 3] = "CR" /\ d[e - 2] = "LF" /\ d[e - 1] = "CR" /\ d[e] = "LF"
  BY <1>1, <1>5, EndsHave
<1>7. PICK E : E = LineEnds(d, e)
  OBVIOUS
<1>8. E \in SUBSET Nat /\ E # {} /\ \A i : i \in E <=> i \in 1..(e - 2) /\ d[i] = "LF"
  <2>1. e - 2 \in E
    BY <1>6, <1>7 DEF LineEnds
  <2>2. QED
    BY <1>7, <2>1 DEF LineEnds
<1>9. Min(E) \in E /\ \A x \in E : Min(E) <= x
  BY <1>8, MinHas
<1>10. PICK f \in 1..(e - 2) : f = Min(E) /\ d[f] = "LF" /\ f = FirstLine(d, e)
  BY <1>7, <1>8, <1>9 DEF FirstLine
<1>11. \A k \in 1..(f - 1) : d[k] # "LF"
  <2> SUFFICES ASSUME NEW k \in 1..(f - 1), d[k] = "LF" PROVE FALSE
    OBVIOUS
  <2>1. k \in E
    BY <1>8, <1>10
  <2>2. QED
    BY <1>9, <1>10, <2>1
<1>12. PICK H : H = E \ {f}
  OBVIOUS
<1>13. PICK L : L = {i \in H : IsHeaderLine(Line(d, i)) /\ IsNamed(Line(d, i), Names[1])}
  OBVIOUS
<1>14. PICK s : s = SumSet({Decimal(Digitized(d, i)) : i \in L})
  OBVIOUS
<1>15. /\ e <= capacity
       /\ \A i \in E : IsTerminated(d, i)
       /\ IsRequestLine(Line(d, f))
       /\ \A i \in H : IsHeaderLine(Line(d, i))
       /\ Cardinality(L) <= 1
       /\ \A i \in L : Digitized(d, i) # << >> /\ AllIn(Digitized(d, i), Digits)
       /\ ~(e + s > capacity) /\ ~(z < e + s)
  BY <1>1, <1>2, <1>5, <1>7, <1>10, <1>12, <1>13, <1>14 DEF reference, Digitized, Invalid, More
<1>16. RequestLineAt(d, f)
  <2>1. f \in Nat \ {0} /\ f <= Len(d) /\ f \in E
    BY <1>1, <1>6, <1>8, <1>10
  <2>2. QED
    BY <1>10, <1>11, <1>15, <2>1, FirstBack
<1>17. PICK g \in Nat : g = e - 2 /\ g <= Len(d)
  BY <1>1, <1>6
<1>18. H = {i \in (f + 1)..g : d[i] = "LF"}
  <2>1. ASSUME NEW i \in H PROVE i \in (f + 1)..g /\ d[i] = "LF"
    BY <1>8, <1>9, <1>10, <1>12, <1>17
  <2>2. ASSUME NEW i \in (f + 1)..g, d[i] = "LF" PROVE i \in H
    BY <1>8, <1>10, <1>12, <1>17, <2>2
  <2>3. QED
    BY <2>1, <2>2
<1>19. L = {} \/ \E l : L = {l}
  <2>1. L \subseteq 0..g
    BY <1>13, <1>18
  <2>2. IsFiniteSet(0..g)
    BY FS_Interval
  <2>3. IsFiniteSet(L)
    BY <2>1, <2>2, FS_Subset
  <2>4. QED
    BY <1>15, <2>3, OneHas
<1>20. PICK v \in Nat : /\ \E count \in {0, 1} : Counted(d, f, g, count, v)
                        /\ SumSet({Decimal(Digitized(d, i)) : i \in L}) = v
  <2>1. f \in Nat \ {0} /\ d[f] = "LF"
    BY <1>10
  <2>2. \A i \in H : IsTerminated(d, i) /\ IsHeaderLine(Line(d, i))
    BY <1>12, <1>15
  <2>3. L = {i \in H : IsLengthLine(d, i)}
    BY <1>13 DEF IsLengthLine
  <2>4. HasLength(d, f, g, L)
    BY <1>15, <1>17, <1>18, <1>19, <2>1, <2>2, <2>3, HeadersBack
  <2>5. QED
    BY <2>4 DEF HasLength
<1>21. s = v
  BY <1>14, <1>20
<1>22. RequestAt(d, e, v)
  BY <1>6, <1>10, <1>16, <1>17, <1>20 DEF RequestAt
<1>23. e + v <= capacity /\ e + v <= Len(d)
  BY <1>1, <1>15, <1>21
<1>24. QED
  BY <1>22, <1>23

-----------------------------------------------------------------------------
(* A request is one wherever its bytes are. *)

Agree(u, w, n) == \A k \in 1..n : u[k] = w[k]

\* The request line,
LEMMA RequestLineMoves ==
    ASSUME NEW w, NEW u, NEW n \in Nat, Agree(u, w, n), NEW f \in 1..n, RequestLineAt(w, f)
    PROVE  RequestLineAt(u, f)
<1>1. PICK a \in 1..f, b \in 1..f :
          /\ Opening(w, a, b) /\ VersionAt(w, b, Len(Version))
          /\ f = b + Len(Version) + 3
          /\ w[f - 2] \in {"0", "1"} /\ w[f - 1] = "CR" /\ w[f] = "LF"
  BY DEF RequestLineAt
<1>2. PICK z \in Nat : z = Len(Version)
  BY VersionBytes
<1>3. \A k \in 1..f : u[k] = w[k]
  BY DEF Agree
<1>4. a > 1 /\ a < b /\ f = b + z + 3
  BY <1>1, <1>2, OpeningPlain
<1>5. MethodAt(u, a)
  BY <1>1, <1>3 DEF Opening, MethodAt, Span
<1>6. TargetAt(u, a, b)
  <2>1. a + 1 \in 1..f /\ b \in 1..f /\ \A k \in (a + 1)..(b - 1) : k \in 1..f
    BY <1>4
  <2>2. QED
    BY <1>1, <1>3, <2>1 DEF Opening, TargetAt, Span
<1>7. VersionAt(u, b, Len(Version))
  <2>1. \A k \in 1..z : b + k \in 1..f
    BY <1>4
  <2>2. QED
    BY <1>1, <1>2, <1>3, <2>1 DEF VersionAt
<1>8. f - 2 \in 1..f /\ f - 1 \in 1..f
  BY <1>4
<1>9. QED
  BY <1>1, <1>3, <1>5, <1>6, <1>7, <1>8 DEF RequestLineAt, Opening

\* a line,
LEMMA LineMoves ==
    ASSUME NEW w, NEW u, NEW n \in Nat, Agree(u, w, n), NEW i \in 1..n, NEW p \in 2..i, LineAt(w, p, i)
    PROVE  LineAt(u, p, i)
<1>1. p - 1 \in 1..n /\ i \in 1..n /\ \A k \in p..(i - 1) : k \in 1..n
  OBVIOUS
<1>2. QED
  BY <1>1 DEF LineAt, Agree

\* a header,
LEMMA HeaderMoves ==
    ASSUME NEW w, NEW u, NEW n \in Nat, Agree(u, w, n), NEW i \in 1..n, NEW p \in 2..i, NEW c \in p..i,
           HeaderAt(w, p, c, i)
    PROVE  /\ HeaderAt(u, p, c, i)
           /\ \A j \in DOMAIN Names : Called(u, p, c, j) <=> Called(w, p, c, j)
<1>1. /\ p < c /\ c <= i - 2 /\ i - 1 \in 1..n /\ c \in 1..n
      /\ \A k \in p..(c - 1) : k \in 1..n
      /\ \A k \in (c + 1)..(i - 2) : k \in 1..n
      /\ \A k \in 1..(c - p) : p + k - 1 \in 1..n
  BY DEF HeaderAt, NameAt
<1>2. HeaderAt(u, p, c, i)
  BY <1>1 DEF HeaderAt, NameAt, Span, Agree
<1>3. \A k \in 1..(c - p) : u[p + k - 1] = w[p + k - 1]
  BY <1>1 DEF Agree
<1>4. \A j \in DOMAIN Names : Called(u, p, c, j) <=> Called(w, p, c, j)
  BY <1>3 DEF Called, Begins
<1>5. QED
  BY <1>2, <1>4

\* a plain one,
LEMMA PlainMoves ==
    ASSUME NEW w, NEW u, NEW n \in Nat, Agree(u, w, n), NEW i \in 1..n, NEW p \in 2..i, PlainLine(w, p, i)
    PROVE  PlainLine(u, p, i)
<1>1. PICK c \in p..i : HeaderAt(w, p, c, i) /\ Unreserved(w, p, c)
  BY DEF PlainLine
<1>2. HeaderAt(u, p, c, i) /\ \A j \in DOMAIN Names : Called(u, p, c, j) <=> Called(w, p, c, j)
  BY <1>1, HeaderMoves
<1>3. QED
  BY <1>1, <1>2 DEF PlainLine, Unreserved

\* a Content-Length,
LEMMA LengthMoves ==
    ASSUME NEW w \in Seq(Bytes), NEW u \in Seq(Bytes), NEW n \in Nat, n <= Len(w), n <= Len(u), Agree(u, w, n),
           NEW i \in 1..n, NEW p \in 2..i, NEW v, LengthLine(w, p, i, v)
    PROVE  LengthLine(u, p, i, v)
<1>1. PICK c \in p..i, x \in p..i, y \in p..i :
          /\ HeaderAt(w, p, c, i) /\ Called(w, p, c, 1)
          /\ NumberAt(w, c, x, y, i) /\ v = Decimal(SubSeq(w, x, y))
  BY DEF LengthLine
<1>2. HeaderAt(u, p, c, i) /\ Called(u, p, c, 1)
  BY <1>1, HeaderMoves, NameLetters
<1>3. c < x /\ x <= y /\ y <= i - 2
  BY <1>1 DEF NumberAt
<1>4. /\ \A k \in (c + 1)..(x - 1) : k \in 1..n
      /\ \A k \in x..y : k \in 1..n
      /\ \A k \in (y + 1)..(i - 2) : k \in 1..n
  BY <1>3
<1>5. NumberAt(u, c, x, y, i)
  BY <1>1, <1>4 DEF NumberAt, Span, Agree
<1>6. SubSeq(u, x, y) = SubSeq(w, x, y)
  <2>1. PICK s : s = SubSeq(u, x, y)
    OBVIOUS
  <2>2. PICK t : t = SubSeq(w, x, y)
    OBVIOUS
  <2>3. PICK o \in Nat, m \in Nat : o = x - 1 /\ m = y - x + 1
    BY <1>3
  <2>4. x \in Nat \ {0} /\ y \in Int /\ x <= y + 1
    BY <1>3
  <2>5. Reads(s, u, o, m) /\ Reads(t, w, o, m)
    BY <2>1, <2>2, <2>3, <2>4, RangeReads
  <2>6. Reads(s, w, o, m)
    <3>1. ASSUME NEW k \in 1..m PROVE u[o + k] = w[o + k]
      <4>1. o + k \in 1..n
        BY <1>3, <2>3
      <4>2. QED
        BY <4>1 DEF Agree
    <3>2. QED
      BY <2>5, <3>1 DEF Reads
  <2>7. /\ Len(u) \in Nat /\ \A k \in 1..Len(u) : u[k] \in Bytes
        /\ Len(w) \in Nat /\ \A k \in 1..Len(w) : w[k] \in Bytes
    BY Stored
  <2>8. s \in Seq(Bytes) /\ t \in Seq(Bytes)
    <3>1. \A k \in x..y : k \in 1..Len(u) /\ k \in 1..Len(w)
      BY <1>4, <2>7
    <3>2. \A k \in x..y : u[k] \in Bytes /\ w[k] \in Bytes
      BY <2>7, <3>1
    <3>3. QED
      BY <2>1, <2>2, <3>2, SubSeqProperties
  <2>9. s = t
    BY <2>5, <2>6, <2>8, ReadsSeq
  <2>10. QED
    BY <2>1, <2>2, <2>9
<1>7. QED
  BY <1>1, <1>2, <1>5, <1>6 DEF LengthLine

\* all of them,
LEMMA LinesMove ==
    ASSUME NEW w, NEW u, NEW n \in Nat, Agree(u, w, n), NEW f \in Nat, NEW g \in Nat, g <= n, NEW l,
           Lines(w, f, g, l)
    PROVE  Lines(u, f, g, l)
<1> SUFFICES ASSUME NEW i \in (f + 1)..g, u[i] = "LF", i # l
             PROVE  \E p \in 2..i : LineAt(u, p, i) /\ PlainLine(u, p, i)
  BY DEF Lines
<1>1. i \in 1..n
  OBVIOUS
<1>2. w[i] = "LF"
  BY <1>1 DEF Agree
<1>3. PICK p \in 2..i : LineAt(w, p, i) /\ PlainLine(w, p, i)
  BY <1>2 DEF Lines
<1>4. QED
  BY <1>1, <1>3, LineMoves, PlainMoves

\* and the request.
LEMMA RequestMoves ==
    ASSUME NEW w \in Seq(Bytes), NEW u \in Seq(Bytes), NEW n \in Nat, n <= Len(w), n <= Len(u), Agree(u, w, n),
           NEW e \in Nat, e <= n, NEW v, RequestAt(w, e, v)
    PROVE  RequestAt(u, e, v)
<1>1. PICK f \in 1..(e - 2) : RequestLineAt(w, f) /\ \E count \in {0, 1} : Counted(w, f, e - 2, count, v)
  BY DEF RequestAt
<1>2. PICK count \in {0, 1} : Counted(w, f, e - 2, count, v)
  BY <1>1
<1>3. f > 3
  BY <1>1, RequestLinePlain
<1>4. PICK g \in Nat : g = e - 2 /\ g <= n /\ f \in 1..n
  BY <1>1
<1>5. RequestLineAt(u, f)
  BY <1>1, <1>4, RequestLineMoves
<1>6. Counted(u, f, g, count, v)
  <2>1. CASE count = 0 /\ v = 0 /\ Lines(w, f, g, 0)
    BY <1>4, <2>1, LinesMove DEF Counted
  <2>2. CASE count = 1 /\ \E l \in (f + 1)..g : /\ \E p \in 2..l : LineAt(w, p, l) /\ LengthLine(w, p, l, v)
                                                /\ Lines(w, f, g, l)
    <3>1. PICK l \in (f + 1)..g : /\ \E p \in 2..l : LineAt(w, p, l) /\ LengthLine(w, p, l, v)
                                  /\ Lines(w, f, g, l)
      BY <2>2
    <3>2. PICK p \in 2..l : LineAt(w, p, l) /\ LengthLine(w, p, l, v)
      BY <3>1
    <3>3. l \in 1..n
      BY <1>4
    <3>4. LineAt(u, p, l)
      BY <3>2, <3>3, LineMoves
    <3>5. LengthLine(u, p, l, v)
      BY <3>2, <3>3, LengthMoves
    <3>6. Lines(u, f, g, l)
      BY <1>4, <3>1, LinesMove
    <3>7. QED
      BY <2>2, <3>4, <3>5, <3>6 DEF Counted
  <2>3. QED
    BY <1>2, <1>4, <2>1, <2>2 DEF Counted
<1>7. u[e - 3] = "CR" /\ u[e - 2] = "LF" /\ u[e - 1] = "CR" /\ u[e] = "LF"
  <2>1. e - 3 \in 1..n /\ e - 2 \in 1..n /\ e - 1 \in 1..n /\ e \in 1..n
    BY <1>1, <1>3
  <2>2. QED
    BY <2>1 DEF RequestAt, Agree
<1>8. QED
  BY <1>1, <1>4, <1>5, <1>6, <1>7 DEF RequestAt

\* What is framed is parsed: the first spaces are those of the request line and
\* the body follows the blank line.
LEMMA RequestParses ==
    ASSUME NEW d \in Seq(Bytes), NEW e \in Nat, NEW v \in Nat, RequestAt(d, e, v), e + v = Len(d)
    PROVE  Parses(d) /\ Min(BodyStarts(d)) = e + 1
<1>1. PICK z \in Nat : z = Len(d) /\ DOMAIN d = 1..z
  BY Stored
<1>2. PICK f \in 1..(e - 2) : RequestLineAt(d, f)
  BY DEF RequestAt
<1>3. PICK a \in 1..f, b \in 1..f :
          /\ Opening(d, a, b) /\ VersionAt(d, b, Len(Version))
          /\ f = b + Len(Version) + 3
  BY <1>2 DEF RequestLineAt
<1>4. /\ a - 1 \in 1..MaxMethod /\ b - a - 1 \in 1..MaxTarget
      /\ d[a] = "SP" /\ d[b] = "SP"
      /\ \A k \in 1..(a - 1) : d[k] \in TokenBytes
      /\ \A k \in (a + 1)..(b - 1) : d[k] \in TargetBytes
  BY <1>3 DEF Opening, MethodAt, TargetAt, Span
<1>5. /\ a > 1 /\ a < b /\ b + 3 <= f /\ f <= e - 2 /\ e <= z /\ a \in 1..z /\ b \in 1..z
      /\ MaxMethod \in Nat /\ MaxTarget \in Nat
  BY <1>1, <1>2, <1>3, <1>4, VersionBytes
<1>6. Spaces(d) # {} /\ Min(Spaces(d)) = a
  <2>1. a \in Spaces(d) /\ Spaces(d) \in SUBSET Int
    BY <1>1, <1>4, <1>5 DEF Spaces
  <2>2. ASSUME NEW k \in Spaces(d), k < a PROVE FALSE
    <3>1. k \in 1..(a - 1) /\ d[k] = "SP"
      BY <1>1, <2>2 DEF Spaces
    <3>2. QED
      BY <1>4, <3>1, ByteClasses
  <2>3. \A k \in Spaces(d) : a <= k
    BY <2>1, <2>2
  <2>4. QED
    BY <2>1, <2>3, MinOf
<1>7. PathEnds(d) # {} /\ Min(PathEnds(d)) = b
  <2>1. b \in PathEnds(d) /\ PathEnds(d) \in SUBSET Int
    BY <1>1, <1>4, <1>5, <1>6 DEF PathEnds
  <2>2. ASSUME NEW k \in PathEnds(d), k < b PROVE FALSE
    <3>1. k \in (a + 1)..(b - 1) /\ d[k] \in {"SP", "CR", "LF"}
      BY <1>1, <1>6, <2>2 DEF PathEnds
    <3>2. QED
      BY <1>4, <3>1, ByteClasses
  <2>3. \A k \in PathEnds(d) : b <= k
    BY <2>1, <2>2
  <2>4. QED
    BY <2>1, <2>3, MinOf
<1>8. e \in Ends(d) /\ \A x \in Ends(d) : e <= x
  BY <1>1, <1>5, EndsIs
<1>9. BodyStarts(d) # {} /\ Min(BodyStarts(d)) = e + 1
  <2>1. e > b + 3
    BY <1>5
  <2>2. e + 1 \in BodyStarts(d)
    BY <1>7, <1>8, <2>1 DEF BodyStarts
  <2>3. \A x \in Ends(d) : x \in Int
    BY <1>1, EndsHave
  <2>4. BodyStarts(d) \in SUBSET Int /\ \A x \in BodyStarts(d) : e + 1 <= x
    BY <1>8, <2>3 DEF BodyStarts
  <2>5. QED
    BY <2>2, <2>4, MinOf
<1>10. a - 1 <= MaxMethod /\ b - a - 1 <= MaxTarget
  BY <1>4, <1>5
<1>11. QED
  BY <1>6, <1>7, <1>9, <1>10 DEF Parses

-----------------------------------------------------------------------------
(* Where the automaton is. *)

Understood ==
    /\ state = DONE => RequestAt(wire, scan, length) /\ total = scan + length
    /\ state # DONE =>
          /\ total = 0
          /\ \/ InOpening(wire, scan, state, path) /\ seen = 0 /\ length = 0
             \/ InHeaders(wire, scan, state, seen, length)

\* Where a connection is, and what was refused.
Framing ==
    /\ pc = "scan" => state # DONE
    /\ pc \in {"read", "wait_read"} => IF state = DONE THEN have < total ELSE scan = have
    /\ pc = "body" => state = DONE
    /\ pc \in {"framed", "parse"} \/ Accepted => state = DONE /\ total <= have
    /\ cause = "malformed" => reference(wire, Capacity).verdict # "complete"
    /\ cause # "none" => pc = "closed"

\* The automaton does not start where it ends.
LEMMA StartStates ==
    /\ START = <<"method", 0, 0>> /\ START # DONE
    /\ At("headers") # DONE
BY DEF START, DONE, At

\* Nothing is read at the start.
LEMMA InitFramed == Init => Understood /\ Framing
<1> SUFFICES ASSUME Init PROVE Understood /\ Framing
  OBVIOUS
<1>1. InOpening(wire, 0, START, 0)
  <2>1. Span(wire, 1, 0, TokenBytes)
    BY DEF Span
  <2>2. QED
    BY <2>1, StartStates, VersionBytes DEF InOpening
<1>2. state = START /\ scan = 0 /\ path = 0 /\ seen = 0 /\ length = 0 /\ total = 0
      /\ pc = "read" /\ cause = "none" /\ have = 0
  BY DEF Init
<1>3. Understood
  BY <1>1, <1>2, StartStates DEF Understood
<1>4. Framing
  BY <1>2, StartStates DEF Framing, Accepted, Sending
<1>5. QED
  BY <1>3, <1>4

-----------------------------------------------------------------------------
(* The bytes that are scanned. *)

\* The positions in the stream.
LEMMA StreamFacts ==
    ASSUME TypeOK
    PROVE  /\ wire \in Seq(Bytes) /\ Len(wire) \in Nat
           /\ scan \in Nat /\ have \in Nat /\ scan <= have /\ have <= Len(wire)
           /\ length \in Nat /\ total \in Nat /\ Capacity \in Nat /\ path \in 0..MaxTarget /\ seen \in {0, 1}
           /\ have <= Capacity
<1>1. wire \in Seq(Bytes)
  BY TransportAssumption DEF TypeOK
<1>2. Len(wire) \in Nat
  BY <1>1, LenProperties
<1>3. QED
  BY <1>1, <1>2, TransportAssumption DEF TypeOK

\* A byte is refused only if the stream does not begin with a request.
LEMMA RejectedRight ==
    ASSUME TypeOK, Understood, state # DONE,
           Rejected(Edge(state, wire[scan + 1]), wire[scan + 1])
    PROVE  reference(wire, Capacity).verdict # "complete"
<1> SUFFICES ASSUME reference(wire, Capacity).verdict = "complete" PROVE FALSE
  OBVIOUS
<1>1. PICK x : x = Edge(state, wire[scan + 1])
  OBVIOUS
<1>2. PICK b : b = wire[scan + 1]
  OBVIOUS
<1>3. PICK e \in Nat, u \in Nat : RequestAt(wire, e, u) /\ e + u <= Capacity
  BY StreamFacts, ReferencedRequest
<1>4. \/ x.next = Reject
      \/ x.action = "TARGET" /\ path = MaxTarget
      \/ x.action = "LENGTH" /\ seen = 1
      \/ x.action = "DIGIT" /\ length * 10 + Value(b) > Capacity
      \/ x.next = DONE /\ scan + 1 + length > Capacity
  BY <1>1, <1>2 DEF Rejected
<1>5. CASE InOpening(wire, scan, state, path) /\ seen = 0 /\ length = 0
  <2>1. PICK f \in 1..(e - 2) : RequestLineAt(wire, f)
    BY <1>3 DEF RequestAt
  <2>2. x.next \notin {Reject, DONE} /\ x.action \in {"none", "TARGET"} /\ (x.action = "TARGET" => path # MaxTarget)
    <3>1. f \in Nat /\ scan \in Nat
      BY StreamFacts
    <3>2. QED
      BY <1>1, <1>5, <2>1, <3>1, OpeningFine
  <2>3. QED
    BY <1>4, <2>2
<1>6. CASE InHeaders(wire, scan, state, seen, length)
  <2>1. /\ x.next # Reject /\ x.action \in {"none", "LENGTH", "DIGIT"}
        /\ x.action = "LENGTH" => seen # 1
        /\ x.action = "DIGIT" => length * 10 + Value(b) <= u
        /\ x.next = DONE => scan + 1 = e /\ length = u
    <3>1. scan \in Nat
      BY StreamFacts
    <3>2. QED
      BY <1>1, <1>2, <1>3, <1>6, <3>1, HeadersFine
  <2>2. CASE x.action = "DIGIT" /\ length * 10 + Value(b) > Capacity
    <3>1. b \in Digits
      BY <1>1, <1>2, <2>2, TableIsClosed DEF IsEdge, TypeOK
    <3>2. PICK y \in Nat : y = length * 10 + Value(b)
      BY <3>1, DigitValue, StreamFacts
    <3>3. y <= u /\ y > Capacity
      BY <2>1, <2>2, <3>2
    <3>4. QED
      BY <1>3, <3>3, StreamFacts
  <2>3. CASE x.next = DONE /\ scan + 1 + length > Capacity
    BY <1>3, <2>1, <2>3, StreamFacts
  <2>4. QED
    BY <1>4, <2>1, <2>2, <2>3
<1>7. QED
  BY <1>5, <1>6 DEF Understood

\* The bytes received, and the first of them.
LEMMA Received ==
    ASSUME TypeOK, RequestAt(wire, scan, length), NEW n \in Nat, scan <= n, n <= Len(wire)
    PROVE  /\ SubSeq(wire, 1, n) \in Seq(Bytes) /\ Len(SubSeq(wire, 1, n)) = n
           /\ RequestAt(SubSeq(wire, 1, n), scan, length)
<1>1. wire \in Seq(Bytes) /\ Len(wire) \in Nat /\ scan \in Nat /\ DOMAIN wire = 1..Len(wire)
  BY StreamFacts, Stored
<1>2. PICK u : u = SubSeq(wire, 1, n)
  OBVIOUS
<1>3. u \in Seq(Bytes)
  <2>1. \A k \in 1..n : wire[k] \in Bytes
    BY <1>1
  <2>2. QED
    BY <1>2, <2>1, SubSeqProperties
<1>4. Reads(u, wire, 0, n)
  <2>1. 1 \in Nat \ {0} /\ n \in Int /\ 1 <= n + 1 /\ 1 - 1 = 0 /\ n - 1 + 1 = n
    OBVIOUS
  <2>2. Reads(SubSeq(wire, 1, n), wire, 1 - 1, n - 1 + 1)
    BY <2>1, RangeReads
  <2>3. QED
    BY <1>2, <2>1, <2>2
<1>5. Len(u) = n /\ Agree(u, wire, n)
  <2>1. \A k \in 1..n : 0 + k = k
    OBVIOUS
  <2>2. QED
    BY <1>4, <2>1 DEF Reads, Agree
<1>6. n <= Len(u)
  BY <1>5
<1>7. RequestAt(u, scan, length)
  BY <1>1, <1>3, <1>5, <1>6, RequestMoves
<1>8. QED
  BY <1>2, <1>3, <1>5, <1>7

\* What is framed is a request of that length and is parsed.
LEMMA FramedRight ==
    ASSUME TypeOK, Understood, state = DONE, total <= have
    PROVE  /\ reference(SubSeq(wire, 1, have), Capacity) = [verdict |-> "complete", total |-> total]
           /\ Parses(Request) /\ Len(Body) = length
<1>1. /\ RequestAt(wire, scan, length) /\ total = scan + length
      /\ scan \in Nat /\ length \in Nat /\ have \in Nat /\ Capacity \in Nat
      /\ have <= Len(wire) /\ scan <= have /\ scan <= total /\ total <= Capacity /\ total \in Nat
      /\ Len(wire) \in Nat /\ total <= Len(wire)
  BY StreamFacts DEF Understood, TypeOK
<1>2. PICK d : d = SubSeq(wire, 1, have)
  OBVIOUS
<1>3. d \in Seq(Bytes) /\ Len(d) = have /\ RequestAt(d, scan, length)
  BY <1>1, <1>2, Received
<1>4. scan + length <= Capacity /\ scan + length <= Len(d)
  BY <1>1, <1>3
<1>5. reference(d, Capacity) = [verdict |-> "complete", total |-> scan + length]
  BY <1>1, <1>3, <1>4, RequestReferenced
<1>6. PICK r : r = Request
  OBVIOUS
<1>7. r \in Seq(Bytes) /\ Len(r) = total /\ RequestAt(r, scan, length)
  BY <1>1, <1>6, Received DEF Request
<1>8. scan + length = Len(r)
  BY <1>1, <1>7
<1>9. Parses(r) /\ Min(BodyStarts(r)) = scan + 1
  BY <1>1, <1>7, <1>8, RequestParses
<1>10. Len(SubSeq(r, scan + 1, total)) = length
  <2>1. scan + 1 \in Nat /\ total \in Int /\ scan + 1 <= total + 1 /\ total - (scan + 1) + 1 = length
    BY <1>1
  <2>2. Len(SubSeq(r, scan + 1, total)) = total - (scan + 1) + 1
    BY <2>1, RangeShape
  <2>3. QED
    BY <2>1, <2>2
<1>11. Body = SubSeq(r, scan + 1, total)
  BY <1>6, <1>9 DEF Body
<1>12. QED
  BY <1>1, <1>2, <1>5, <1>6, <1>9, <1>10, <1>11

\* A full buffer that holds no request is no request's beginning.
LEMMA FullRight ==
    ASSUME TypeOK, Understood, Framing, ReadFull
    PROVE  reference(wire, Capacity).verdict # "complete"
<1> SUFFICES ASSUME reference(wire, Capacity).verdict = "complete" PROVE FALSE
  OBVIOUS
<1>1. pc = "read" /\ have = Capacity
  BY DEF ReadFull, Timely
<1>2. state # DONE /\ scan = Capacity /\ scan \in Nat /\ Capacity \in Nat
  BY <1>1, StreamFacts DEF Framing, TypeOK
<1>3. PICK e \in Nat, u \in Nat : RequestAt(wire, e, u) /\ e + u <= Capacity
  BY StreamFacts, ReferencedRequest
<1>4. CASE InOpening(wire, scan, state, path)
  <2>1. PICK f \in 1..(e - 2) : RequestLineAt(wire, f)
    BY <1>3 DEF RequestAt
  <2>2. wire[f] = "LF"
    BY <2>1, RequestLinePlain
  <2>3. f \in 1..scan
    BY <1>2, <1>3, <2>1
  <2>4. QED
    BY <1>2, <1>4, <2>2, <2>3, OpeningShort
<1>5. CASE InHeaders(wire, scan, state, seen, length)
  <2>1. scan < e
    BY <1>2, <1>3, <1>5, HeadersReach
  <2>2. QED
    BY <1>2, <1>3, <2>1
<1>6. QED
  BY <1>2, <1>4, <1>5 DEF Understood

-----------------------------------------------------------------------------
(* The byte scanned next. *)

\* The headers follow the request line.
LEMMA HeadersBegin ==
    ASSUME NEW w, NEW f \in Nat, RequestLineAt(w, f)
    PROVE  InHeaders(w, f, At("headers"), 0, 0)
<1>1. f > 3 /\ w[f] = "LF"
  BY RequestLinePlain
<1>2. PICK s \in (f + 1)..(f + 1) : s = f + 1 /\ s - 1 = f
  OBVIOUS
<1>3. Lines(w, f, f, 0)
  BY DEF Lines
<1>4. Counted(w, f, s - 1, 0, 0)
  BY <1>2, <1>3 DEF Counted
<1>5. InLine(w, s, f, At("headers"))
  BY <1>2 DEF InLine
<1>6. w[s - 1] = "LF" /\ \A k \in s..f : w[k] # "LF"
  BY <1>1, <1>2
<1>7. f \in 1..f
  BY <1>1
<1>8. QED
  BY <1>4, <1>5, <1>6, <1>7 DEF InHeaders

\* A byte that is scanned leads where it should, or refutes every request.
LEMMA ScanUnderstood ==
    ASSUME TypeOK, Understood, Framing, ScanByte
    PROVE  Understood' /\ Framing'
<1>1. PICK b : b = wire[scan + 1]
  OBVIOUS
<1>2. PICK x : x = Edge(state, b)
  OBVIOUS
<1>3. pc = "scan" /\ state # DONE /\ cause = "none" /\ wire' = wire /\ have' = have
  <2>1. pc = "scan" /\ wire' = wire /\ have' = have
    BY DEF ScanByte, Close, client, frame
  <2>2. QED
    BY <2>1 DEF Framing, TypeOK
<1>4. CASE Rejected(x, b)
  <2>1. Close("malformed")
    BY <1>1, <1>2, <1>4 DEF ScanByte
  <2>2. reference(wire, Capacity).verdict # "complete"
    BY <1>1, <1>2, <1>3, <1>4, RejectedRight
  <2>3. Understood'
    BY <2>1 DEF Close, client, frame, Understood
  <2>4. Framing'
    <3>1. pc' = "closed" /\ cause' = "malformed" /\ wire' = wire
      BY <2>1 DEF Close, client
    <3>2. QED
      BY <2>2, <3>1 DEF Framing, Accepted, Sending
  <2>5. QED
    BY <2>3, <2>4
<1>5. CASE ~Rejected(x, b)
  <2>1. /\ scan' = scan + 1 /\ state' = x.next
        /\ path' = Pathed(x, path) /\ seen' = Counting(x, seen) /\ length' = Measured(x, b, length)
        /\ total' = IF x.next = DONE THEN scan + 1 + length ELSE total
        /\ pc' = IF x.next = DONE THEN "body" ELSE "scan"
        /\ cause' = cause
    BY <1>1, <1>2, <1>5 DEF ScanByte, Pathed, Counting, Measured
  <2>2. x.next # Reject /\ ~(x.action = "LENGTH" /\ seen = 1)
    BY <1>5 DEF Rejected
  <2>3. scan \in Nat /\ path \in 0..MaxTarget /\ total = 0
    BY <1>3, StreamFacts DEF Understood
  <2>4. Framing'
    <3>1. state' = x.next /\ pc' = (IF x.next = DONE THEN "body" ELSE "scan") /\ cause' = "none"
      BY <1>3, <2>1
    <3>2. QED
      BY <3>1 DEF Framing, Accepted, Sending
  <2>5. CASE InOpening(wire, scan, state, path) /\ seen = 0 /\ length = 0
    <3>1. OpeningGoes(wire, scan, x, path)
      BY <1>1, <1>2, <2>2, <2>3, <2>5, OpeningStep
    <3>2. x.next # DONE /\ x.action \in {"none", "TARGET"}
      BY <3>1 DEF OpeningGoes
    <3>3. seen' = 0 /\ length' = 0 /\ total' = 0 /\ state' # DONE
      BY <2>1, <2>3, <2>5, <3>2 DEF Counting, Measured
    <3>4. CASE InOpening(wire, scan + 1, x.next, Pathed(x, path))
      <4>1. InOpening(wire', scan', state', path')
        BY <1>3, <2>1, <3>4
      <4>2. QED
        BY <2>4, <3>3, <4>1 DEF Understood
    <3>5. CASE x.next = At("headers") /\ RequestLineAt(wire, scan + 1)
      <4>1. InHeaders(wire, scan + 1, At("headers"), 0, 0)
        BY <2>3, <3>5, HeadersBegin
      <4>2. InHeaders(wire', scan', state', seen', length')
        BY <1>3, <2>1, <3>3, <3>5, <4>1
      <4>3. QED
        BY <2>4, <3>3, <4>2 DEF Understood
    <3>6. QED
      BY <3>1, <3>4, <3>5 DEF OpeningGoes
  <2>6. CASE InHeaders(wire, scan, state, seen, length)
    <3>1. HeadersGo(wire, scan, x, seen, length)
      BY <1>1, <1>2, <2>2, <2>3, <2>6, HeaderStep
    <3>2. CASE x.next = DONE /\ x.action = "none" /\ RequestAt(wire, scan + 1, length)
      <4>1. state' = DONE /\ total' = scan' + length' /\ RequestAt(wire', scan', length')
        BY <1>3, <2>1, <3>2 DEF Measured
      <4>2. Understood'
        BY <4>1 DEF Understood
      <4>3. QED
        BY <2>4, <4>2
    <3>3. CASE x.next # DONE /\ InHeaders(wire, scan + 1, x.next, Counting(x, seen), Measured(x, b, length))
      <4>1. state' # DONE /\ total' = 0 /\ InHeaders(wire', scan', state', seen', length')
        BY <1>3, <2>1, <2>3, <3>3
      <4>2. Understood'
        BY <4>1 DEF Understood
      <4>3. QED
        BY <2>4, <4>2
    <3>4. QED
      BY <1>1, <3>1, <3>2, <3>3 DEF HeadersGo
  <2>7. QED
    BY <1>3, <2>5, <2>6 DEF Understood
<1>6. QED
  BY <1>4, <1>5

\* Every step but those on bytes leaves the automaton alone.
LEMMA StepUnderstood == TypeOK /\ Understood /\ Framing /\ [Next]_vars => Understood' /\ Framing'
<1> SUFFICES ASSUME TypeOK, Understood, Framing, [Next]_vars PROVE Understood' /\ Framing'
  OBVIOUS
<1>1. ASSUME UNCHANGED <<wire, scan, state, length, seen, total, path>> PROVE Understood'
  BY <1>1 DEF Understood
<1>2. ASSUME UNCHANGED <<wire, pc, cause, frame>> PROVE Understood' /\ Framing'
  BY <1>2 DEF Understood, Framing, Accepted, frame
<1>3. ASSUME NEW why \in {"expired", "ended", "malformed"}, Close(why),
             why = "malformed" => reference(wire, Capacity).verdict # "complete"
      PROVE  Understood' /\ Framing'
  <2>1. pc' = "closed" /\ cause' = why /\ UNCHANGED <<wire, scan, state, length, seen, total, path, have>>
    BY <1>3 DEF Close, client, frame
  <2>2. Framing'
    BY <1>3, <2>1 DEF Framing, Accepted, Sending
  <2>3. QED
    BY <1>1, <2>1, <2>2
<1>4. ASSUME NEW where, Goto(where), pc # "closed",
             where \in {"read", "wait_read"} => IF state = DONE THEN have < total ELSE scan = have,
             where \notin {"scan", "body"},
             where \in {"framed", "parse", "handle", "after", "send", "wait_send"} => state = DONE /\ total <= have
      PROVE  Understood' /\ Framing'
  <2>1. pc' = where /\ cause' = cause /\ UNCHANGED <<wire, scan, state, length, seen, total, path, have>>
    BY <1>4 DEF Goto, client, frame
  <2>2. cause = "none"
    BY <1>4 DEF Framing, TypeOK
  <2>3. Framing'
    BY <1>4, <2>1, <2>2 DEF Framing, Accepted, Sending
  <2>4. QED
    BY <1>1, <2>1, <2>3
<1>5. CASE UNCHANGED vars \/ Deliver \/ PeerLeaves \/ Tick \/ Ended
  BY <1>2, <1>5 DEF vars, client, frame, response, Deliver, PeerLeaves, Tick, Ended
<1>6. CASE \E where \in {"read", "wait_read", "framed", "send", "wait_send"} : Expired(where)
  <2>1. Close("expired")
    BY <1>6 DEF Expired
  <2>2. QED
    BY <1>3, <2>1
<1>7. CASE ReadFull
  <2>1. Close("malformed")
    BY <1>7 DEF ReadFull
  <2>2. QED
    BY <1>3, <1>7, <2>1, FullRight
<1>8. CASE ReadEnds \/ SendFails
  <2>1. Close("ended")
    BY <1>8 DEF ReadEnds, SendFails
  <2>2. QED
    BY <1>3, <2>1
<1>9. CASE ReadBytes
  <2>1. /\ pc = "read" /\ cause' = cause /\ pc' = (IF total # 0 THEN "body" ELSE "scan")
        /\ UNCHANGED <<wire, scan, state, length, seen, total, path>>
    BY <1>9 DEF ReadBytes, Timely, client
  <2>2. cause = "none" /\ (total # 0 <=> state = DONE)
    <3>1. cause = "none"
      BY <2>1 DEF Framing, TypeOK
    <3>2. have \in Nat /\ total \in Nat
      BY StreamFacts
    <3>3. QED
      BY <2>1, <3>1, <3>2 DEF Framing, Understood
  <2>3. Framing'
    BY <2>1, <2>2 DEF Framing, Accepted, Sending
  <2>4. QED
    BY <1>1, <2>1, <2>3
<1>10. CASE ReadBlocks \/ ReadWakes
  <2>1. pc \in {"read", "wait_read"}
    BY <1>10 DEF ReadBlocks, ReadWakes, Timely
  <2>2. Goto("wait_read") \/ Goto("read")
    BY <1>10 DEF ReadBlocks, ReadWakes
  <2>3. QED
    BY <1>4, <2>1, <2>2 DEF Framing
<1>11. CASE ScanMore
  <2>1. pc = "scan" /\ scan = have /\ Goto("read")
    BY <1>11 DEF ScanMore
  <2>2. QED
    BY <1>4, <2>1 DEF Framing
<1>12. CASE ScanByte
  BY <1>12, ScanUnderstood
<1>13. CASE CheckBody
  <2>1. pc = "body" /\ state = DONE /\ Goto(IF have >= total THEN "framed" ELSE "read")
    BY <1>13 DEF CheckBody, Framing
  <2>2. have \in Nat /\ total \in Nat
    BY StreamFacts
  <2>3. CASE have >= total
    <3>1. Goto("framed") /\ total <= have
      BY <2>1, <2>2, <2>3
    <3>2. QED
      BY <1>4, <2>1, <3>1
  <2>4. CASE ~(have >= total)
    <3>1. Goto("read") /\ have < total
      BY <2>1, <2>2, <2>4
    <3>2. QED
      BY <1>4, <2>1, <3>1
  <2>5. QED
    BY <2>3, <2>4
<1>14. CASE Framed
  <2>1. pc = "framed" /\ Goto("parse")
    BY <1>14 DEF Framed, Timely
  <2>2. QED
    BY <1>4, <2>1 DEF Framing
<1>15. CASE ParseRequest
  <2>1. pc = "parse" /\ state = DONE /\ total <= have
    BY <1>15 DEF ParseRequest, Framing
  <2>2. Goto("handle")
    BY <1>15, <2>1, FramedRight DEF ParseRequest
  <2>3. QED
    BY <1>4, <2>1, <2>2
<1>16. CASE ClientAbort \/ Finish
  <2>1. pc \in {"handle", "after"} /\ (Close("refused") \/ Close("answered"))
    BY <1>16 DEF ClientAbort, Finish
  <2>2. /\ pc' = "closed" /\ cause' \in {"refused", "answered"}
        /\ UNCHANGED <<wire, scan, state, length, seen, total, path, have>>
    BY <2>1 DEF Close, client, frame
  <2>3. state = DONE /\ total <= have
    BY <2>1 DEF Framing, Accepted
  <2>4. Framing'
    BY <2>2, <2>3 DEF Framing, Accepted, Sending
  <2>5. QED
    BY <1>1, <2>2, <2>4
<1>17. CASE StartResponse \/ SendBytes \/ NextSegment
  <2>1. /\ pc \in Sending \cup {"handle"} /\ pc' \in Sending /\ cause' = cause
        /\ UNCHANGED <<wire, scan, state, length, seen, total, path, have>>
    BY <1>17 DEF StartResponse, SendBytes, NextSegment, Timely, Sending, client, frame
  <2>2. state = DONE /\ total <= have /\ cause = "none"
    BY <2>1 DEF Framing, Accepted, Sending, TypeOK
  <2>3. Framing'
    BY <2>1, <2>2 DEF Framing, Accepted, Sending
  <2>4. QED
    BY <1>1, <2>1, <2>3
<1>18. CASE SendBlocks \/ SendWakes \/ SendDone
  <2>1. pc \in Sending /\ (Goto("wait_send") \/ Goto("send") \/ Goto("after"))
    BY <1>18 DEF SendBlocks, SendWakes, SendDone, Timely, Sending
  <2>2. state = DONE /\ total <= have /\ pc # "closed"
    BY <2>1 DEF Framing, Accepted, Sending
  <2>3. QED
    BY <1>4, <2>1, <2>2
<1>19. QED
  BY <1>5, <1>6, <1>7, <1>8, <1>9, <1>10, <1>11, <1>12, <1>13, <1>14, <1>15, <1>16, <1>17, <1>18
     DEF Next, Step, Host

\* Whatever the stream and however it arrives: what the handler gets is the request
\* that the reference finds in the bytes received, with a body of the declared
\* length, and a connection is closed as malformed only if the stream does not begin
\* with a request.
THEOREM FramedExactly == Spec => []FramedAsReference
<1>1. TypeOK /\ Understood /\ Framing => FramedAsReference
  BY FramedRight DEF Framing, FramedAsReference
<1>2. QED
  BY InitTyped, StepTyped, InitFramed, StepUnderstood, <1>1, PTL DEF Spec

=============================================================================
