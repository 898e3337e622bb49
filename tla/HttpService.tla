---------------------------- MODULE HttpService ----------------------------
(***************************************************************************)
(* The iteration of a sequential HTTP service with paired deadlines, as     *)
(* emit_http10_dynamic_bytes (src/native.rs) lays it out: cached resources  *)
(* are read once, then for ever accept, receive, read the other resources,  *)
(* parse, fetch, draw entropy, run the handler, append the logs, send the   *)
(* response, run the `after:` sets, close.                                  *)
(*                                                                         *)
(* Three kinds of failure leave the straight line.  A malformed request, a  *)
(* failed transfer or a failed check on request data closes the connection  *)
(* (through a stub that first closes r15 while a file or an upstream socket *)
(* is in it), and an operator failure ends the process with status 1.       *)
(*                                                                         *)
(* A text state field is a buffer of fixed size and a length, both in the   *)
(* frame of the process.  `set` copies into the buffer; a handler `let`     *)
(* bound to state.<f> holds the buffer's address and the length of that     *)
(* moment.  HttpTransport has the inside of receive and of the response.    *)
(***************************************************************************)
EXTENDS Integers, Sequences

CONSTANTS
    Fields,     \* text state fields
    Bound,      \* their capacities
    Initial,    \* their initial literals
    Sets,       \* the after: block, [field, source] in source order
    Logs,       \* on_error of each log: block, "abort" or "drop"
    Cached,     \* how many resources are marked cache: true
    Resources,  \* how many are not
    Fetches,    \* how many connections the handler fetches
    Draws,      \* how many entropy items it draws
    Requests,   \* what req.path can be
    Bytes       \* what a byte can be, "?" where nothing was stored yet

VARIABLES
    pc,       \* the stage the process is in, "exited" after exit(1)
    k,        \* the item of the stage that is next
    client,   \* "open" while [rbp-48] holds an open descriptor
    r15,      \* "open" while r15 holds one
    held,     \* open descriptors besides the listener
    request,  \* req.path of the current request
    buffer,   \* persistent buffer of each field
    len,      \* its length slot
    letlen,   \* length slot of `let x = state.<f>`, one let per field
    entry,    \* history: the state when the request was accepted
    done,     \* history: sets completed for it
    served    \* history: 1 once its response was sent whole

descriptors == <<client, r15, held>>
state == <<buffer, len>>
history == <<entry, done, served>>
vars == <<pc, k, descriptors, request, state, letlen, history>>

-----------------------------------------------------------------------------
(* Text: sources of a set, their worst case, and what they evaluate to.     *)

Longest == CHOOSE n \in {Len(t) : t \in Requests} : \A t \in Requests : Len(t) <= n
WorstCase(source) ==
    CASE source.kind = "request" -> Longest
      [] source.kind = "substring" -> Longest
      [] source.kind = "state" -> Bound[source.field]
      [] source.kind = "let" -> Bound[source.field]

Sources == [kind : {"request"}]
           \cup [kind : {"substring"}, from : Nat, to : Nat]
           \cup [kind : {"state", "let"}, field : Fields]

\* What the parser and the verifier have established before code is emitted;
\* the last conjunct is the verifier's overflow gate.
ASSUME ServiceAssumption ==
    /\ "?" \in Bytes
    /\ Requests # {} /\ \A t \in Requests : t \in Seq(Bytes)
    /\ Bound \in [Fields -> Nat \ {0}]
    /\ Initial \in [Fields -> Seq(Bytes)]
    /\ \A f \in Fields : Len(Initial[f]) <= Bound[f]
    /\ Cached \in Nat /\ Resources \in Nat /\ Fetches \in Nat /\ Draws \in Nat
    /\ \A i \in 1..Len(Logs) : Logs[i] \in {"abort", "drop"}
    /\ Sets \in Seq([field : Fields, source : Sources])
    /\ \A i \in 1..Len(Sets) : WorstCase(Sets[i].source) <= Bound[Sets[i].field]

Text(f) == SubSeq(buffer[f], 1, len[f])
LetText(f) == SubSeq(buffer[f], 1, letlen[f])

\* substring fails on request data when its bounds leave the text.
Fails(source, t) ==
    source.kind = "substring" /\ ~(source.from <= source.to /\ source.to <= Len(t))
Slice(t, source) == SubSeq(t, source.from + 1, source.to)

Evaluate(source) ==
    CASE source.kind = "request" -> request
      [] source.kind = "substring" -> Slice(request, source)
      [] source.kind = "state" -> Text(source.field)
      [] source.kind = "let" -> LetText(source.field)

\* What the frame holds where nothing was stored yet.
Garbage(n) == [i \in 1..n |-> "?"]
Overwrite(b, t) == t \o SubSeq(b, Len(t) + 1, Len(b))

-----------------------------------------------------------------------------
Count == [cached |-> Cached, resource |-> Resources, fetch |-> Fetches,
          entropy |-> Draws, log |-> Len(Logs), after |-> Len(Sets)]
Following == [cached |-> "accept", resource |-> "parse", fetch |-> "entropy",
              entropy |-> "handler", log |-> "respond", after |-> "close"]

Init ==
    /\ pc = "cached" /\ k = 1
    /\ client = "closed" /\ r15 = "closed" /\ held = 0
    /\ request = <<>>
    /\ buffer = [f \in Fields |-> Overwrite(Garbage(Bound[f]), Initial[f])]
    /\ len = [f \in Fields |-> Len(Initial[f])]
    /\ letlen = [f \in Fields |-> 0]
    /\ entry = Initial /\ done = 0 /\ served = 0

Go(stage) == pc' = stage /\ k' = 1
NextItem == pc' = pc /\ k' = k + 1
At(stage) == pc = stage /\ k <= Count[stage]

\* The emitter lays one block per item; after the last one comes the next stage.
EndOfStage(stage) ==
    /\ pc = stage /\ k > Count[stage]
    /\ Go(Following[stage])
    /\ UNCHANGED <<descriptors, request, state, letlen, history>>

ExitFailure ==
    /\ pc' = "exited"
    /\ UNCHANGED <<k, descriptors, request, state, letlen, history>>

OpenR15 == r15' = "open" /\ held' = held + 1
CloseR15 == r15' = "closed" /\ held' = IF r15 = "open" THEN held - 1 ELSE held

Load(stage) ==
    /\ At(stage)
    /\ \/ NextItem /\ UNCHANGED <<descriptors, request, state, letlen, history>>
       \/ ExitFailure

\* accept is not checked: a failure leaves an errno in the slot of the client.
Accept ==
    /\ pc = "accept"
    /\ Go("receive")
    /\ \/ client' = "open" /\ held' = held + 1
       \/ client' = "closed" /\ held' = held
    /\ entry' = [f \in Fields |-> Text(f)]
    /\ done' = 0 /\ served' = 0
    /\ UNCHANGED <<r15, request, state, letlen>>

Receive ==
    /\ pc = "receive" /\ client = "open"
    /\ Go("resource")
    /\ request' \in Requests
    /\ UNCHANGED <<descriptors, state, letlen, history>>

Parse ==
    /\ pc = "parse"
    /\ Go("fetch")
    /\ UNCHANGED <<descriptors, request, state, letlen, history>>

\* The connection is dropped: bad framing, deadline, a lost client, an
\* over-long token, or a check on request data in a let or in the body.
Drop(stage) ==
    /\ pc = stage
    /\ Go("close")
    /\ UNCHANGED <<descriptors, request, state, letlen, history>>

FetchConnect ==
    /\ At("fetch")
    /\ OpenR15
    /\ pc' = "fetch_request" /\ k' = k
    /\ UNCHANGED <<client, request, state, letlen, history>>

FetchExchange ==
    /\ pc = "fetch_request"
    /\ CloseR15
    /\ pc' = "fetch" /\ k' = k + 1
    /\ UNCHANGED <<client, request, state, letlen, history>>

FetchFails ==
    /\ At("fetch") \/ pc = "fetch_request"
    /\ ExitFailure

\* Variant: the abort inside an open r15 takes the bare close path.
AbortWithR15Bare(stage) ==
    /\ pc = stage
    /\ Go("close")
    /\ UNCHANGED <<descriptors, request, state, letlen, history>>

\* A check on request data fails while r15 is in use: r15_close_stub.
AbortWithR15(stage) ==
    /\ pc = stage
    /\ CloseR15
    /\ Go("close")
    /\ UNCHANGED <<client, request, state, letlen, history>>

Handler ==
    /\ pc = "handler"
    /\ letlen' = len
    /\ Go("log")
    /\ UNCHANGED <<descriptors, request, state, history>>

LogOpen ==
    /\ At("log")
    /\ OpenR15
    /\ pc' = "log_content" /\ k' = k
    /\ UNCHANGED <<client, request, state, letlen, history>>

LogOpenFails ==
    /\ At("log")
    /\ \/ Logs[k] = "abort" /\ ExitFailure
       \/ /\ Logs[k] = "drop"
          /\ r15' = "closed" /\ held' = held
          /\ pc' = "log_content" /\ k' = k
          /\ UNCHANGED <<client, request, state, letlen, history>>

\* Written, or not written under on_error: drop.
LogWrite ==
    /\ pc = "log_content"
    /\ CloseR15
    /\ pc' = "log" /\ k' = k + 1
    /\ UNCHANGED <<client, request, state, letlen, history>>

LogWriteFails == pc = "log_content" /\ Logs[k] = "abort" /\ ExitFailure

Respond ==
    /\ pc = "respond"
    /\ served' = 1
    /\ Go("after")
    /\ UNCHANGED <<descriptors, request, state, letlen, entry, done>>

\* Variant: a failed send falls through into the after: block.
RespondFailsThrough ==
    /\ pc = "respond"
    /\ Go("after")
    /\ UNCHANGED <<descriptors, request, state, letlen, history>>

RespondFails == Drop("respond")

\* One set: evaluate, compare with the capacity, copy, store the length.
RunSet ==
    /\ At("after")
    /\ LET set == Sets[k]
           text == Evaluate(set.source)
       IN  /\ ~Fails(set.source, request)
           /\ IF Len(text) > Bound[set.field]
              THEN ExitFailure
              ELSE /\ buffer' = [buffer EXCEPT ![set.field] = Overwrite(@, text)]
                   /\ len' = [len EXCEPT ![set.field] = Len(text)]
                   /\ done' = k
                   /\ NextItem
                   /\ UNCHANGED <<descriptors, request, letlen, entry, served>>

SetAborts == At("after") /\ Fails(Sets[k].source, request) /\ Drop("after")

CloseClient ==
    /\ pc = "close"
    /\ client' = "closed"
    /\ held' = IF client = "open" THEN held - 1 ELSE held
    /\ Go("accept")
    /\ UNCHANGED <<r15, request, state, letlen, history>>

Next ==
    \/ \E stage \in DOMAIN Count : EndOfStage(stage)
    \/ Load("cached") \/ Load("resource") \/ Load("entropy")
    \/ Accept \/ Receive \/ Parse \/ Handler
    \/ Drop("receive") \/ Drop("parse") \/ Drop("handler")
    \/ FetchConnect \/ FetchExchange \/ FetchFails \/ AbortWithR15("fetch_request")
    \/ LogOpen \/ LogOpenFails \/ LogWrite \/ LogWriteFails \/ AbortWithR15("log_content")
    \/ Respond \/ RespondFails
    \/ RunSet \/ SetAborts
    \/ CloseClient

Spec == Init /\ [][Next]_vars

-----------------------------------------------------------------------------
(* Properties.                                                              *)

Stages == DOMAIN Count \cup {"accept", "receive", "parse", "fetch_request", "handler",
                             "log_content", "respond", "close", "exited"}

\* Every length slot stays inside its buffer, whatever the sets copy.
TypeOK ==
    /\ pc \in Stages /\ k \in Nat
    /\ client \in {"open", "closed"} /\ r15 \in {"open", "closed"} /\ held \in Nat
    /\ \A f \in Fields :
          /\ Len(buffer[f]) = Bound[f]
          /\ len[f] \in 0..Bound[f] /\ letlen[f] \in 0..Bound[f]

\* Whichever way a request ends, the next accept finds every descriptor of it
\* closed: the client's, the upstream sockets' and the log files'.
DescriptorsBalanced == pc = "accept" => held = 0

\* The state the source program has after its first n sets: state.<f> is the
\* value left by the earlier sets, a let the value it had in the handler.
Committed[n \in 0..Len(Sets)] ==
    IF n = 0 THEN entry
    ELSE LET set == Sets[n]
             prior == Committed[n - 1]
             value == CASE set.source.kind = "request" -> request
                        [] set.source.kind = "substring" -> Slice(request, set.source)
                        [] set.source.kind = "state" -> prior[set.source.field]
                        [] set.source.kind = "let" -> entry[set.source.field]
         IN  [prior EXCEPT ![set.field] = value]

\* The state is always the one the source program prescribes for the sets
\* completed so far, no set runs for a request whose response was not sent, and
\* a request that passes its checks completes all of them.
StateFollowsSource ==
    /\ [f \in Fields |-> Text(f)] = Committed[done]
    /\ done > 0 => served = 1
    /\ pc = "accept" /\ served = 1 =>
          \/ done = Len(Sets)
          \/ Fails(Sets[done + 1].source, request)

\* A set that reads a handler let stores the value the let captured
\* (docs/text-let-shadowing.md, "An earlier alias keeps the value it captured").
LetsKeepTheirValue ==
    \A f \in Fields :
        At("after") /\ Sets[k].source = [kind |-> "let", field |-> f] => LetText(f) = entry[f]
=============================================================================
