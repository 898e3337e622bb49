---------------------------- MODULE MCTcpService ----------------------------
(* Two clients.  A chunk of one byte makes the stateless handler fail between *)
(* two writes; the stateful one fails in the after: block of its second step. *)
EXTENDS TcpService

CONSTANTS c1, c2

MCMaxBytes == (c1 :> 2) @@ (c2 :> 1)

\* Of the multi-step services, the stateful one.
MCOffered == {d \in Declarations : IsMultistep(d) => ~d.identity /\ d.state}

MCInitial == [seq |-> 0, last |-> 0]

Counter == <<[op |-> "state", n |-> "seq"]>>
One == <<[op |-> "lit", n |-> 1]>>

\* let seen = state.last + length(req)
\* response: le32(seen)
\* after: set seq = state.seq + 1 ; set last = byte_at(req, state.last) + state.seq
MCStateful ==
    [lets |-> <<<<[op |-> "state", n |-> "last"], [op |-> "length", n |-> 0]>>>>,
     response |-> <<[kind |-> "le32", expr |-> <<[op |-> "let", n |-> 1]>>]>>,
     sets |-> <<[field |-> "seq", expr |-> Counter \o One],
                [field |-> "last", expr |-> <<[op |-> "at_state", n |-> "last"]>> \o Counter]>>]

\* let n = length(req) ; response: le32(n), le32(byte_at(req, 1))
MCStateless ==
    [lets |-> <<<<[op |-> "length", n |-> 0]>>>>,
     response |-> <<[kind |-> "le32", expr |-> <<[op |-> "let", n |-> 1]>>],
                    [kind |-> "le32", expr |-> <<[op |-> "at", n |-> 1]>>]>>,
     sets |-> <<>>]
=============================================================================
