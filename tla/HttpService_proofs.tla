------------------------- MODULE HttpService_proofs -------------------------
(***************************************************************************)
(* The descriptors and the text state of the service iteration, for every   *)
(* number of resources, connections, logs and sets.                         *)
(*                                                                         *)
(* The state follows the source program as long as no set reads a let after *)
(* an earlier set has stored into its field (NoLateLets; the run            *)
(* http_service_let shows what happens otherwise).  Stored is the inductive *)
(* invariant: sets run in order and only for a served request (Progress),  *)
(* a let keeps its value while nothing was stored into its field           *)
(* (LetsHold), and the texts are those of the source after the sets so far *)
(* (Follows).                                                              *)
(***************************************************************************)
EXTENDS HttpService, TLAPS, WellFoundedInduction, SequenceTheorems

\* An open descriptor is the one in the client's slot or the one in r15, r15
\* is in use only while a fetch or a log is under way, and the client's slot
\* is empty while there is no client.
Account ==
    /\ pc \in Stages
    /\ client \in {"open", "closed"} /\ r15 \in {"open", "closed"}
    /\ held = (IF client = "open" THEN 1 ELSE 0) + (IF r15 = "open" THEN 1 ELSE 0)
    /\ r15 = "open" => pc \in {"fetch_request", "log_content", "exited"}
    /\ pc \in {"cached", "accept"} => client = "closed"

LEMMA StageFacts ==
    /\ DOMAIN Count = {"cached", "resource", "fetch", "entropy", "log", "after"}
    /\ Stages = {"cached", "resource", "fetch", "entropy", "log", "after",
                 "accept", "receive", "parse", "fetch_request", "handler",
                 "log_content", "respond", "close", "exited"}
    /\ Following["cached"] = "accept" /\ Following["resource"] = "parse"
    /\ Following["fetch"] = "entropy" /\ Following["entropy"] = "handler"
    /\ Following["log"] = "respond" /\ Following["after"] = "close"
BY DEF Count, Following, Stages

LEMMA AccountInit == Init => Account
BY StageFacts DEF Init, Account, descriptors

LEMMA AccountStep == Account /\ [Next]_vars => Account'
<1> SUFFICES ASSUME Account, [Next]_vars PROVE Account'
  OBVIOUS
<1> USE StageFacts DEF Account
<1>1. ASSUME NEW stage \in DOMAIN Count, EndOfStage(stage) PROVE Account'
  BY <1>1 DEF EndOfStage, Go, descriptors
<1>2. CASE Load("cached") \/ Load("resource") \/ Load("entropy")
  BY <1>2 DEF Load, ExitFailure, NextItem, At, descriptors
<1>3. CASE Accept
  BY <1>3 DEF Accept, Go
<1>4. CASE Receive \/ Parse \/ Handler \/ Respond
  BY <1>4 DEF Receive, Parse, Handler, Respond, Go, descriptors
<1>5. CASE Drop("receive") \/ Drop("parse") \/ Drop("handler") \/ RespondFails \/ SetAborts
  BY <1>5 DEF Drop, RespondFails, SetAborts, Go, descriptors
<1>6. CASE FetchConnect \/ FetchExchange
  BY <1>6 DEF FetchConnect, FetchExchange, OpenR15, CloseR15, At
<1>7. CASE FetchFails \/ LogWriteFails
  BY <1>7 DEF FetchFails, LogWriteFails, ExitFailure, descriptors
<1>8. CASE AbortWithR15("fetch_request") \/ AbortWithR15("log_content")
  BY <1>8 DEF AbortWithR15, CloseR15, Go
<1>9. CASE LogOpen \/ LogWrite
  BY <1>9 DEF LogOpen, LogWrite, OpenR15, CloseR15, At
<1>10. CASE LogOpenFails
  BY <1>10 DEF LogOpenFails, ExitFailure, At, descriptors
<1>11. CASE RunSet
  BY <1>11 DEF RunSet, ExitFailure, NextItem, At, descriptors
<1>12. CASE CloseClient
  BY <1>12 DEF CloseClient, Go
<1>13. CASE UNCHANGED vars
  BY <1>13 DEF vars, descriptors
<1> QED
  BY <1>1, <1>2, <1>3, <1>4, <1>5, <1>6, <1>7, <1>8, <1>9, <1>10, <1>11, <1>12, <1>13 DEF Next

\* However a request ends (served, dropped, cut off by a check while a socket
\* or a log file is open), the service is back at accept with no descriptor of
\* that request left open.
THEOREM DescriptorsReturned == Spec => []DescriptorsBalanced
<1>1. Account => DescriptorsBalanced
  BY DEF Account, DescriptorsBalanced
<1> QED
  BY AccountInit, AccountStep, <1>1, PTL DEF Spec

-----------------------------------------------------------------------------
(* The text state. *)

\* No set reads a let after an earlier one has set the field it came from.
NoLateLets ==
    \A i, n \in 1..Len(Sets) :
        i < n /\ Sets[n].source.kind = "let" => Sets[i].field # Sets[n].source.field

Typed ==
    /\ k \in Nat \ {0} /\ done \in 0..Len(Sets) /\ served \in {0, 1}
    /\ request \in Seq(Bytes) /\ entry \in [Fields -> Seq(Bytes)]
    /\ buffer \in [Fields -> Seq(Bytes)]
    /\ len \in [Fields -> Nat] /\ letlen \in [Fields -> Nat]
    /\ \A f \in Fields : Len(buffer[f]) = Bound[f] /\ len[f] <= Bound[f] /\ letlen[f] <= Bound[f]

\* Sets run only for a served request, in order, and until one fails.
Progress ==
    /\ pc = "after" => served = 1 /\ k = done + 1
    /\ served = 1 => pc \in {"after", "close", "accept", "exited"}
    /\ served = 0 => done = 0
    /\ pc \in {"close", "accept"} /\ served = 1 =>
          done = Len(Sets) \/ Fails(Sets[done + 1].source, request)

\* A let still has its value while no set has stored into its field.
LetsHold ==
    pc \in {"log", "log_content", "respond", "after"} =>
        \A f \in Fields : (\A i \in 1..done : Sets[i].field # f) => LetText(f) = entry[f]

Follows == [f \in Fields |-> Text(f)] = Committed[done]

Stored == Typed /\ Progress /\ LetsHold /\ Follows

\* The source's step for set n: the value of its source for the request r, the
\* state prior left by the earlier sets and the state e the request found.
SourceValue(source, prior, e, r) ==
    CASE source.kind = "request" -> r
      [] source.kind = "substring" -> Slice(r, source)
      [] source.kind = "state" -> prior[source.field]
      [] source.kind = "let" -> e[source.field]
SetStep(n, prior, e, r) == [prior EXCEPT ![Sets[n].field] = SourceValue(Sets[n].source, prior, e, r)]

CommittedBy(e, r, n, f) ==
    f = [i \in 0..n |-> IF i = 0 THEN e ELSE SetStep(i, f[i - 1], e, r)]

\* What holds of 0 and of every successor holds of every number.
LEMMA Induction ==
    ASSUME NEW B, 0 \in B, \A m \in Nat : m \in B => m + 1 \in B
    PROVE  \A m \in Nat : m \in B
<1> SUFFICES ASSUME NEW n \in Nat, n \notin B PROVE FALSE
  OBVIOUS
<1> DEFINE S == Nat \ B
<1>1. S \in SUBSET Nat /\ S # {}
  OBVIOUS
<1> HIDE DEF S
<1>2. PICK m \in S : \A j \in S : <<j, m>> \notin OpToRel(<, Nat)
  BY <1>1, WFMin, NatLessThanWellFounded
<1>3. m \in Nat /\ m \notin B /\ m # 0
  BY DEF S
<1>4. m - 1 \in Nat /\ m - 1 < m /\ (m - 1) + 1 = m
  BY <1>3
<1>5. m - 1 \in S
  BY <1>3, <1>4 DEF S
<1>6. <<m - 1, m>> \in OpToRel(<, Nat)
  BY <1>3, <1>4 DEF OpToRel
<1> QED
  BY <1>2, <1>5, <1>6

\* The states between the sets exist, however many sets there are.
LEMMA StatesExist ==
    ASSUME NEW e, NEW r
    PROVE  \A n \in Nat : \E f : CommittedBy(e, r, n, f)
<1> DEFINE B == {n \in Nat : \E f : CommittedBy(e, r, n, f)}
           step(s, i) == SetStep(i, s, e, r)
<1> HIDE DEF step
<1>0. ASSUME NEW n, NEW f
      PROVE  CommittedBy(e, r, n, f) <=>
               f = [i \in 0..n |-> IF i = 0 THEN e ELSE step(f[i - 1], i)]
  BY DEF CommittedBy, step
<1>1. 0 \in B
  <2> DEFINE f == [i \in 0..0 |-> e]
  <2>1. f = [i \in 0..0 |-> IF i = 0 THEN e ELSE step(f[i - 1], i)]
    OBVIOUS
  <2> HIDE DEF f
  <2> QED
    BY <1>0, <2>1
<1>2. ASSUME NEW n \in Nat, n \in B PROVE n + 1 \in B
  <2>1. PICK f : f = [i \in 0..n |-> IF i = 0 THEN e ELSE step(f[i - 1], i)]
    BY <1>0, <1>2
  <2> DEFINE g == [i \in 0..(n + 1) |-> IF i = n + 1 THEN step(f[n], n + 1) ELSE f[i]]
  <2>2. \A i \in 0..n : g[i] = f[i]
    OBVIOUS
  <2>3. ASSUME NEW i \in 0..(n + 1) PROVE g[i] = IF i = 0 THEN e ELSE step(g[i - 1], i)
    <3>1. CASE i = 0
      BY <2>1, <2>2, <3>1
    <3>2. CASE i = n + 1
      <4>1. i - 1 = n /\ i # 0 /\ n \in 0..n
        BY <3>2
      <4>2. g[i] = step(f[n], n + 1) /\ g[n] = f[n]
        BY <2>2, <3>2, <4>1
      <4> HIDE DEF g
      <4> QED
        BY <3>2, <4>1, <4>2
    <3>3. CASE i # 0 /\ i # n + 1
      <4>1. i \in 0..n /\ i - 1 \in 0..n
        BY <3>3
      <4>2. f[i] = step(f[i - 1], i)
        BY <2>1, <3>3, <4>1
      <4>3. g[i] = f[i] /\ g[i - 1] = f[i - 1]
        BY <2>2, <4>1
      <4> HIDE DEF g
      <4> QED
        BY <3>3, <4>2, <4>3
    <3> QED
      BY <3>1, <3>2, <3>3
  <2>4. g = [i \in 0..(n + 1) |-> g[i]]
    OBVIOUS
  <2> HIDE DEF g
  <2>5. g = [i \in 0..(n + 1) |-> IF i = 0 THEN e ELSE step(g[i - 1], i)]
    BY <2>3, <2>4
  <2>6. CommittedBy(e, r, n + 1, g)
    BY <1>0, <2>5
  <2> QED
    BY <2>6
<1> QED
  <2> HIDE DEF B
  <2>1. \A n \in Nat : n \in B
    BY <1>1, <1>2, Induction
  <2> QED
    BY <2>1 DEF B

LEMMA CommittedIs ==
    /\ Committed[0] = entry
    /\ \A i \in 1..Len(Sets) : Committed[i] = SetStep(i, Committed[i - 1], entry, request)
<1>1. PICK n \in Nat : n = Len(Sets)
  BY ServiceAssumption, LenProperties
<1>2. \E f : CommittedBy(entry, request, n, f)
  BY <1>1, StatesExist
<1>3. CommittedBy(entry, request, n, Committed)
  <2>1. \E f : f = [i \in 0..n |-> IF i = 0 THEN entry
                 ELSE LET set == Sets[i]
                          prior == f[i - 1]
                          value == CASE set.source.kind = "request" -> request
                                     [] set.source.kind = "substring" -> Slice(request, set.source)
                                     [] set.source.kind = "state" -> prior[set.source.field]
                                     [] set.source.kind = "let" -> entry[set.source.field]
                      IN  [prior EXCEPT ![set.field] = value]]
    BY <1>2 DEF CommittedBy, SetStep, SourceValue
  <2> QED
    BY <1>1, <2>1 DEF CommittedBy, SetStep, SourceValue, Committed
<1>4. PICK c : c = Committed
  OBVIOUS
<1>5. CommittedBy(entry, request, n, c)
  BY <1>3, <1>4
<1>6. c[0] = entry
  BY <1>5 DEF CommittedBy
<1>7. ASSUME NEW i \in 1..n PROVE c[i] = SetStep(i, c[i - 1], entry, request)
  <2>1. i \in 0..n /\ i # 0
    OBVIOUS
  <2> QED
    BY <1>5, <2>1 DEF CommittedBy
<1> QED
  BY <1>1, <1>4, <1>6, <1>7

CommittedStarts == Committed[0] = entry

LEMMA CommittedNext == CommittedStarts'
<1>1. CommittedStarts
  BY CommittedIs DEF CommittedStarts
<1> QED
  BY <1>1, PTL

LEMMA CommittedSame == ASSUME UNCHANGED <<entry, request>> PROVE Committed' = Committed
BY DEF Committed

\* A text of the source that a set may store.
LEMMA TextShape ==
    ASSUME Typed, NEW f \in Fields
    PROVE  /\ Text(f) \in Seq(Bytes) /\ Len(Text(f)) = len[f]
           /\ LetText(f) \in Seq(Bytes)
<1>1. PICK b \in Seq(Bytes) : b = buffer[f]
  BY DEF Typed
<1>2. PICK m \in Nat : m = len[f] /\ m <= Len(b)
  BY <1>1, ServiceAssumption DEF Typed
<1>3. PICK l \in Nat : l = letlen[f] /\ l <= Len(b)
  BY <1>1, ServiceAssumption DEF Typed
<1>4. DOMAIN b = 1..Len(b) /\ Len(b) \in Nat /\ \A i \in 1..Len(b) : b[i] \in Bytes
  BY LenProperties, ElementOfSeq
<1>5. SubSeq(b, 1, m) \in Seq(Bytes) /\ Len(SubSeq(b, 1, m)) = m
  BY <1>2, <1>4, SubSeqProperties
<1>6. SubSeq(b, 1, l) \in Seq(Bytes)
  BY <1>3, <1>4, SubSeqProperties
<1> QED
  BY <1>1, <1>2, <1>3, <1>5, <1>6 DEF Text, LetText

\* What a copy leaves: the new text in front, the rest of the buffer behind it.
LEMMA Overwritten ==
    ASSUME NEW b \in Seq(Bytes), NEW t \in Seq(Bytes), Len(t) <= Len(b)
    PROVE  /\ Overwrite(b, t) \in Seq(Bytes) /\ Len(Overwrite(b, t)) = Len(b)
           /\ SubSeq(Overwrite(b, t), 1, Len(t)) = t
<1>1. /\ Len(b) \in Nat /\ Len(t) \in Nat
      /\ \A i \in 1..Len(b) : b[i] \in Bytes
      /\ \A i \in 1..Len(t) : t[i] \in Bytes
  BY LenProperties, ElementOfSeq
<1>2. PICK rest : rest = SubSeq(b, Len(t) + 1, Len(b))
  OBVIOUS
<1>3. rest \in Seq(Bytes) /\ Len(rest) = Len(b) - Len(t)
  BY <1>1, <1>2, SubSeqProperties
<1>4. /\ t \o rest \in Seq(Bytes) /\ Len(t \o rest) = Len(t) + Len(rest)
      /\ \A i \in 1..Len(t) : (t \o rest)[i] = t[i]
  BY <1>3, ConcatProperties
<1>5. PICK u \in Seq(Bytes) : u = t \o rest
  BY <1>4
<1>6. SubSeq(u, 1, Len(t)) = t
  <2>1. /\ SubSeq(u, 1, Len(t)) \in Seq(Bytes) /\ Len(SubSeq(u, 1, Len(t))) = Len(t)
        /\ \A i \in 1..Len(t) : SubSeq(u, 1, Len(t))[i] = u[i]
    <3>1. \A i \in 1..Len(t) : u[i] \in Bytes
      BY <1>1, <1>4, <1>5
    <3>2. /\ SubSeq(u, 1, Len(t)) \in Seq(Bytes)
          /\ Len(SubSeq(u, 1, Len(t))) = IF 1 <= Len(t) THEN Len(t) - 1 + 1 ELSE 0
          /\ \A i \in 1..(Len(t) - 1 + 1) : SubSeq(u, 1, Len(t))[i] = u[1 + i - 1]
      BY <1>1, <3>1, SubSeqProperties
    <3> QED
      BY <1>1, <3>2
  <2> QED
    BY <1>4, <1>5, <2>1, SeqEqual
<1> QED
  BY <1>1, <1>2, <1>3, <1>4, <1>5, <1>6 DEF Overwrite

LEMMA SetShape ==
    ASSUME NEW i \in 1..Len(Sets)
    PROVE  /\ Sets[i].field \in Fields /\ Sets[i].source \in Sources
           /\ Sets[i].source.kind \in {"request", "substring", "state", "let"}
           /\ Sets[i].source.kind \in {"state", "let"} => Sets[i].source.field \in Fields
           /\ Sets[i].source.kind = "substring" => Sets[i].source.from \in Nat /\ Sets[i].source.to \in Nat
<1>1. Sets[i] \in [field : Fields, source : Sources]
  BY ServiceAssumption, ElementOfSeq
<1> QED
  BY <1>1 DEF Sources

\* The block of a set evaluates what the source prescribes.
LEMMA EvaluateFollows ==
    ASSUME NoLateLets, Stored, pc = "after", NEW i \in 1..Len(Sets), i = done + 1,
           ~Fails(Sets[i].source, request)
    PROVE  /\ Evaluate(Sets[i].source) = SourceValue(Sets[i].source, Committed[done], entry, request)
           /\ Evaluate(Sets[i].source) \in Seq(Bytes)
<1>1. PICK s : s = Sets[i].source
  OBVIOUS
<1>2. /\ s.kind \in {"request", "substring", "state", "let"}
      /\ s.kind \in {"state", "let"} => s.field \in Fields
      /\ s.kind = "substring" => s.from \in Nat /\ s.to \in Nat
  BY <1>1, SetShape
<1>3. Typed /\ LetsHold /\ Follows /\ done \in Nat
  <2>1. Len(Sets) \in Nat
    BY ServiceAssumption, LenProperties
  <2> QED
    BY <2>1 DEF Stored, Typed
<1>4. CASE s.kind = "request"
  BY <1>1, <1>3, <1>4 DEF Evaluate, SourceValue, Typed
<1>5. CASE s.kind = "substring"
  <2>1. s.from <= s.to /\ s.to <= Len(request)
    BY <1>1, <1>5 DEF Fails
  <2>2. \A j \in (s.from + 1)..s.to : request[j] \in Bytes
    <3>1. request \in Seq(Bytes)
      BY <1>3 DEF Typed
    <3>2. \A j \in 1..Len(request) : request[j] \in Bytes
      BY <3>1, ElementOfSeq
    <3>3. Len(request) \in Nat
      BY <3>1, LenProperties
    <3> QED
      BY <1>2, <1>5, <2>1, <3>2, <3>3
  <2>3. Slice(request, s) \in Seq(Bytes)
    BY <1>2, <1>5, <2>2, SubSeqProperties DEF Slice
  <2> QED
    BY <1>1, <1>5, <2>3 DEF Evaluate, SourceValue
<1>6. CASE s.kind = "state"
  <2>1. Text(s.field) = Committed[done][s.field]
    BY <1>2, <1>3, <1>6 DEF Follows
  <2>2. Text(s.field) \in Seq(Bytes)
    BY <1>2, <1>3, <1>6, TextShape
  <2> QED
    BY <1>1, <1>6, <2>1, <2>2 DEF Evaluate, SourceValue
<1>7. CASE s.kind = "let"
  <2>1. \A j \in 1..done : Sets[j].field # s.field
    <3> SUFFICES ASSUME NEW j \in 1..done PROVE Sets[j].field # s.field
      OBVIOUS
    <3>1. j \in 1..Len(Sets) /\ j < i
      BY <1>3
    <3> QED
      BY <1>1, <1>7, <3>1 DEF NoLateLets
  <2>2. LetText(s.field) = entry[s.field]
    BY <1>2, <1>3, <1>7, <2>1 DEF LetsHold
  <2>3. LetText(s.field) \in Seq(Bytes)
    BY <1>2, <1>3, <1>7, TextShape
  <2> QED
    BY <1>1, <1>7, <2>2, <2>3 DEF Evaluate, SourceValue
<1> QED
  BY <1>2, <1>4, <1>5, <1>6, <1>7

LEMMA InitStored == Init => Stored
<1> SUFFICES ASSUME Init PROVE Stored
  OBVIOUS
<1>1. Len(Sets) \in Nat
  BY ServiceAssumption, LenProperties
<1>2. ASSUME NEW f \in Fields
      PROVE  /\ buffer[f] \in Seq(Bytes) /\ Len(buffer[f]) = Bound[f]
             /\ len[f] \in Nat /\ len[f] <= Bound[f] /\ Bound[f] \in Nat
             /\ Text(f) = Initial[f]
  <2>1. PICK b : b = Garbage(Bound[f])
    OBVIOUS
  <2>2. PICK n \in Nat : n = Bound[f]
    BY ServiceAssumption
  <2>3. b = [i \in 1..n |-> "?"]
    BY <2>1, <2>2 DEF Garbage
  <2>4. b \in Seq(Bytes) /\ Len(b) = n
    <3>1. "?" \in Bytes
      BY ServiceAssumption
    <3>2. \A i \in 1..n : b[i] \in Bytes
      BY <2>3, <3>1
    <3> QED
      BY <2>2, <2>3, <3>2, IsASeq
  <2>5. PICK t \in Seq(Bytes) : t = Initial[f] /\ Len(t) <= n /\ Len(t) \in Nat
    BY <2>2, ServiceAssumption, LenProperties
  <2>6. buffer[f] = Overwrite(b, t) /\ len[f] = Len(t)
    BY <2>1, <2>5 DEF Init
  <2> QED
    BY <2>2, <2>4, <2>5, <2>6, Overwritten DEF Text
<1>3. Typed
  <2>1. buffer \in [Fields -> Seq(Bytes)] /\ len \in [Fields -> Nat] /\ letlen \in [Fields -> Nat]
    BY <1>2 DEF Init
  <2>2. \A f \in Fields : letlen[f] = 0
    BY DEF Init
  <2> QED
    BY <1>1, <1>2, <2>1, <2>2, ServiceAssumption DEF Init, Typed
<1>4. Follows
  <2>1. [f \in Fields |-> Text(f)] = Initial
    BY <1>2, ServiceAssumption
  <2> QED
    BY <2>1, CommittedIs DEF Follows, Init
<1> QED
  BY <1>3, <1>4 DEF Init, Stored, Progress, LetsHold

AfterHandler == {"log", "log_content", "respond", "after"}

\* A step that stores nothing.
LEMMA QuietStored ==
    ASSUME Stored, UNCHANGED <<request, buffer, len, letlen, entry, done, served>>,
           k' \in Nat \ {0},
           pc' = "after" => served = 1 /\ k' = done + 1,
           served = 1 => pc' \in {"after", "close", "accept", "exited"},
           pc' \in {"close", "accept"} /\ served = 1 =>
              done = Len(Sets) \/ Fails(Sets[done + 1].source, request),
           pc' \in AfterHandler => pc \in AfterHandler
    PROVE  Stored'
<1>1. Committed' = Committed
  BY CommittedSame
<1>2. Typed' /\ Progress'
  BY DEF Stored, Typed, Progress
<1>3. LetsHold'
  BY DEF Stored, LetsHold, LetText, AfterHandler
<1>4. Follows'
  BY <1>1 DEF Stored, Follows, Text
<1> QED
  BY <1>2, <1>3, <1>4 DEF Stored

LEMMA AcceptStored == Stored /\ Accept => Stored'
<1> SUFFICES ASSUME Stored, Accept PROVE Stored'
  OBVIOUS
<1>1. /\ entry' = [f \in Fields |-> Text(f)] /\ done' = 0 /\ served' = 0 /\ pc' = "receive" /\ k' = 1
      /\ UNCHANGED <<request, buffer, len, letlen>>
  BY DEF Accept, Go, state
<1>2. Typed'
  <2>1. \A f \in Fields : Text(f) \in Seq(Bytes)
    BY TextShape DEF Stored
  <2>2. Len(Sets) \in Nat
    BY ServiceAssumption, LenProperties
  <2> QED
    BY <1>1, <2>1, <2>2 DEF Stored, Typed
<1>3. Follows'
  <2>1. Committed'[0] = entry'
    BY CommittedNext DEF CommittedStarts
  <2> QED
    BY <1>1, <2>1 DEF Follows, Text
<1> QED
  BY <1>1, <1>2, <1>3 DEF Stored, Progress, LetsHold

LEMMA ReceiveStored == Stored /\ Receive => Stored'
<1> SUFFICES ASSUME Stored, Receive PROVE Stored'
  OBVIOUS
<1>1. /\ pc = "receive" /\ pc' = "resource" /\ k' = 1 /\ request' \in Requests
      /\ UNCHANGED <<buffer, len, letlen, entry, done, served>>
  BY DEF Receive, Go, state, history
<1>2. served = 0 /\ done = 0
  BY <1>1 DEF Stored, Progress, Typed
<1>3. Typed'
  BY <1>1, ServiceAssumption DEF Stored, Typed
<1>4. Follows'
  <2>1. Committed'[0] = entry' /\ Committed[0] = entry
    BY CommittedNext, CommittedIs DEF CommittedStarts
  <2> QED
    BY <1>1, <1>2, <2>1 DEF Stored, Follows, Text
<1> QED
  BY <1>1, <1>2, <1>3, <1>4 DEF Stored, Progress, LetsHold

LEMMA HandlerStored == Stored /\ Handler => Stored'
<1> SUFFICES ASSUME Stored, Handler PROVE Stored'
  OBVIOUS
<1>1. /\ pc = "handler" /\ pc' = "log" /\ k' = 1 /\ letlen' = len
      /\ UNCHANGED <<request, buffer, len, entry, done, served>>
  BY DEF Handler, Go, state, history
<1>2. served = 0 /\ done = 0
  BY <1>1 DEF Stored, Progress, Typed
<1>3. Committed' = Committed
  BY <1>1, CommittedSame
<1>4. Typed'
  BY <1>1 DEF Stored, Typed
<1>5. LetsHold'
  <2>1. ASSUME NEW f \in Fields PROVE LetText(f)' = entry'[f]
    <3>1. LetText(f)' = Text(f)
      BY <1>1 DEF LetText, Text
    <3>2. Text(f) = entry[f]
      BY <1>2, CommittedIs DEF Stored, Follows
    <3> QED
      BY <1>1, <3>1, <3>2
  <2> QED
    BY <2>1 DEF LetsHold
<1>6. Follows'
  BY <1>1, <1>3 DEF Stored, Follows, Text
<1> QED
  BY <1>1, <1>2, <1>4, <1>5, <1>6 DEF Stored, Progress

LEMMA RunSetStored == NoLateLets /\ Stored /\ RunSet => Stored'
<1> SUFFICES ASSUME NoLateLets, Stored, RunSet PROVE Stored'
  OBVIOUS
<1>1. /\ pc = "after" /\ k = done + 1 /\ served = 1 /\ k \in 1..Len(Sets) /\ done \in Nat
      /\ Len(Sets) \in Nat
  <2>1. Len(Sets) \in Nat
    BY ServiceAssumption, LenProperties
  <2> QED
    BY <2>1 DEF RunSet, At, Count, Stored, Progress, Typed
<1>2. PICK f \in Fields : f = Sets[k].field
  BY <1>1, SetShape
<1>3. PICK text \in Seq(Bytes) :
        /\ text = Evaluate(Sets[k].source)
        /\ text = SourceValue(Sets[k].source, Committed[done], entry, request)
  <2>1. ~Fails(Sets[k].source, request)
    BY DEF RunSet
  <2> QED
    BY <1>1, <2>1, EvaluateFollows
<1>4. CASE ExitFailure
  <2>1. pc' = "exited" /\ UNCHANGED <<k, request, buffer, len, letlen, entry, done, served>>
    BY <1>4 DEF ExitFailure, state, history
  <2> QED
    BY <2>1, QuietStored DEF Stored, Typed, AfterHandler
<1>5. CASE /\ ~(Len(text) > Bound[f])
           /\ buffer' = [buffer EXCEPT ![f] = Overwrite(@, text)]
           /\ len' = [len EXCEPT ![f] = Len(text)]
           /\ done' = k
           /\ NextItem
           /\ UNCHANGED <<descriptors, request, letlen, entry, served>>
  <2>1. pc' = "after" /\ k' = k + 1 /\ UNCHANGED <<request, letlen, entry, served>> /\ done' = k
    BY <1>1, <1>5 DEF NextItem
  <2>2. PICK b \in Seq(Bytes) : b = buffer[f] /\ Len(b) = Bound[f] /\ Bound[f] \in Nat
    BY ServiceAssumption DEF Stored, Typed
  <2>3. PICK n \in Nat : n = Len(text) /\ n <= Bound[f]
    BY <1>5, <2>2, LenProperties
  <2>4. PICK o : o = Overwrite(b, text)
    OBVIOUS
  <2>5. o \in Seq(Bytes) /\ Len(o) = Bound[f] /\ SubSeq(o, 1, n) = text
    BY <2>2, <2>3, <2>4, Overwritten
  <2>6. /\ buffer' = [buffer EXCEPT ![f] = o] /\ len' = [len EXCEPT ![f] = n]
    BY <1>5, <2>2, <2>3, <2>4
  <2>7. /\ buffer \in [Fields -> Seq(Bytes)] /\ len \in [Fields -> Nat]
        /\ buffer'[f] = o /\ len'[f] = n
        /\ \A g \in Fields : g # f => buffer'[g] = buffer[g] /\ len'[g] = len[g]
    BY <2>6 DEF Stored, Typed
  <2>8. Typed'
    <3>1. buffer' \in [Fields -> Seq(Bytes)] /\ len' \in [Fields -> Nat]
      BY <2>5, <2>6, <2>7
    <3>2. \A g \in Fields : Len(buffer'[g]) = Bound[g] /\ len'[g] <= Bound[g] /\ letlen'[g] <= Bound[g]
      BY <2>1, <2>3, <2>5, <2>7 DEF Stored, Typed
    <3> QED
      BY <1>1, <2>1, <3>1, <3>2 DEF Stored, Typed
  <2>9. Progress'
    BY <1>1, <2>1 DEF Progress
  <2>10. LetsHold'
    <3> SUFFICES ASSUME NEW g \in Fields, \A i \in 1..done' : Sets[i].field # g
                 PROVE  LetText(g)' = entry'[g]
      BY DEF LetsHold
    <3>1. g # f /\ \A i \in 1..done : Sets[i].field # g
      BY <1>1, <1>2, <2>1
    <3>2. LetText(g) = entry[g]
      BY <1>1, <3>1 DEF Stored, LetsHold
    <3> QED
      BY <2>1, <2>7, <3>1, <3>2 DEF LetText
  <2>11. Follows'
    <3>1. PICK c : c = Committed
      OBVIOUS
    <3>2. Committed' = c
      BY <2>1, <3>1, CommittedSame
    <3>3. c[k] = SetStep(k, c[done], entry, request)
      BY <1>1, <3>1, CommittedIs
    <3>4. c[done] = [g \in Fields |-> Text(g)]
      BY <3>1 DEF Stored, Follows
    <3>5. c[k] = [c[done] EXCEPT ![f] = text]
      BY <1>2, <1>3, <3>1, <3>3 DEF SetStep
    <3>6. c[k] = [g \in Fields |-> IF g = f THEN text ELSE Text(g)]
      BY <3>4, <3>5
    <3>7. Text(f)' = text
      BY <2>5, <2>7 DEF Text
    <3>8. \A g \in Fields : g # f => Text(g)' = Text(g)
      BY <2>7 DEF Text
    <3> QED
      BY <2>1, <3>2, <3>6, <3>7, <3>8 DEF Follows
  <2> QED
    BY <2>8, <2>9, <2>10, <2>11 DEF Stored
<1> QED
  BY <1>2, <1>3, <1>4, <1>5 DEF RunSet

LEMMA StepStored == NoLateLets /\ Stored /\ [Next]_vars => Stored'
<1> SUFFICES ASSUME NoLateLets, Stored, [Next]_vars PROVE Stored'
  OBVIOUS
<1> USE StageFacts
<1>0. /\ k \in Nat \ {0} /\ done \in Nat /\ served \in {0, 1} /\ Len(Sets) \in Nat /\ done <= Len(Sets)
      /\ Progress
  <2>1. Len(Sets) \in Nat
    BY ServiceAssumption, LenProperties
  <2> QED
    BY <2>1 DEF Stored, Typed
<1> DEFINE Kept == UNCHANGED <<request, buffer, len, letlen, entry, done, served>>
<1>1. ASSUME NEW stage \in DOMAIN Count, EndOfStage(stage) PROVE Stored'
  <2>1. Kept /\ pc = stage /\ pc' = Following[stage] /\ k' = 1
    BY <1>1 DEF EndOfStage, Go, state, history
  <2>2. stage = "after" => done = Len(Sets)
    BY <1>0, <1>1 DEF EndOfStage, Count, Progress
  <2> QED
    BY <1>0, <2>1, <2>2, QuietStored DEF Progress, AfterHandler
<1>2. CASE Load("cached") \/ Load("resource") \/ Load("entropy")
  <2>1. Kept /\ k' \in Nat \ {0} /\ pc' \in {pc, "exited"} /\ pc \in {"cached", "resource", "entropy"}
    BY <1>0, <1>2 DEF Load, ExitFailure, NextItem, At, state, history
  <2> QED
    BY <1>0, <2>1, QuietStored DEF Progress, AfterHandler
<1>3. CASE Parse \/ Drop("receive") \/ Drop("parse") \/ Drop("handler") \/ RespondFails
  <2>1. Kept /\ k' = 1 /\ pc \in {"receive", "parse", "handler", "respond"} /\ pc' \in {"fetch", "close"}
    BY <1>3 DEF Parse, Drop, RespondFails, Go, state, history
  <2> QED
    BY <1>0, <2>1, QuietStored DEF Progress, AfterHandler
<1>4. CASE FetchConnect \/ FetchExchange \/ FetchFails \/ AbortWithR15("fetch_request")
  <2>1. /\ Kept /\ k' \in Nat \ {0} /\ pc \in {"fetch", "fetch_request"}
        /\ pc' \in {"fetch", "fetch_request", "close", "exited"}
    BY <1>0, <1>4 DEF FetchConnect, FetchExchange, FetchFails, AbortWithR15, ExitFailure, At, Go,
                      state, history
  <2> QED
    BY <1>0, <2>1, QuietStored DEF Progress, AfterHandler
<1>5. CASE LogOpen \/ LogOpenFails \/ LogWrite \/ LogWriteFails \/ AbortWithR15("log_content")
  <2>1. /\ Kept /\ k' \in Nat \ {0} /\ pc \in {"log", "log_content"}
        /\ pc' \in {"log", "log_content", "close", "exited"}
    BY <1>0, <1>5 DEF LogOpen, LogOpenFails, LogWrite, LogWriteFails, AbortWithR15, ExitFailure, At, Go,
                      state, history
  <2> QED
    BY <1>0, <2>1, QuietStored DEF Progress, AfterHandler
<1>6. CASE Respond
  <2>1. /\ UNCHANGED <<request, buffer, len, letlen, entry, done>> /\ served' = 1 /\ k' = 1
        /\ pc = "respond" /\ pc' = "after"
    BY <1>6 DEF Respond, Go, state
  <2>2. served = 0 /\ done = 0
    BY <1>0, <2>1 DEF Progress
  <2>3. Committed' = Committed
    BY <2>1, CommittedSame
  <2>4. Typed' /\ Progress'
    BY <2>1, <2>2 DEF Stored, Typed, Progress
  <2>5. LetsHold' /\ Follows'
    BY <2>1, <2>3 DEF Stored, LetsHold, LetText, Follows, Text
  <2> QED
    BY <2>4, <2>5 DEF Stored
<1>7. CASE SetAborts
  <2>1. /\ Kept /\ k' = 1 /\ pc = "after" /\ pc' = "close" /\ Fails(Sets[done + 1].source, request)
    BY <1>0, <1>7 DEF SetAborts, At, Drop, Go, state, history, Progress
  <2> QED
    BY <1>0, <2>1, QuietStored DEF Progress, AfterHandler
<1>8. CASE CloseClient
  <2>1. Kept /\ k' = 1 /\ pc = "close" /\ pc' = "accept"
    BY <1>8 DEF CloseClient, Go, state, history
  <2> QED
    BY <1>0, <2>1, QuietStored DEF Progress, AfterHandler
<1>9. CASE UNCHANGED vars
  <2>1. Kept /\ k' = k /\ pc' = pc
    BY <1>9 DEF vars, state, history
  <2> QED
    BY <1>0, <2>1, QuietStored DEF Progress, AfterHandler
<1> QED
  BY <1>1, <1>2, <1>3, <1>4, <1>5, <1>6, <1>7, <1>8, <1>9, AcceptStored, ReceiveStored, HandlerStored,
     RunSetStored DEF Next

\* For programs whose sets read a let only before its field is set, the text state
\* is after any number of sets what the source program prescribes, whatever a
\* request contains and wherever it is dropped; sets run only for a served request,
\* and all of them unless a check on the request fails.
THEOREM StateCommitted == NoLateLets => (Spec => []StateFollowsSource)
<1> SUFFICES ASSUME NoLateLets PROVE Spec => []StateFollowsSource
  OBVIOUS
<1>1. Init => Stored
  BY InitStored
<1>2. Stored /\ [Next]_vars => Stored'
  BY StepStored
<1>3. Stored => StateFollowsSource
  <2>1. Len(Sets) \in Nat
    BY ServiceAssumption, LenProperties
  <2> QED
    BY <2>1 DEF Stored, Typed, Progress, Follows, StateFollowsSource
<1> QED
  BY <1>1, <1>2, <1>3, PTL DEF Spec

=============================================================================
