---------------------------- MODULE MCHttpService ----------------------------
EXTENDS HttpService

MCFields == {"last", "prev"}
MCBound == [f \in MCFields |-> 3]
MCInitial == [last |-> <<"n">>, prev |-> <<>>]
MCRequests == {<<"a">>, <<"b", "a">>, <<"b", "b", "a">>}
MCLogs == <<"drop", "abort">>

Request == [kind |-> "request"]
Tail2 == [kind |-> "substring", from |-> 1, to |-> 2]
State(f) == [kind |-> "state", field |-> f]
LetOf(f) == [kind |-> "let", field |-> f]
Set(f, s) == [field |-> f, source |-> s]

\* The let is read before the field it came from is set.
MCSets == <<Set("prev", LetOf("last")), Set("last", Request), Set("prev", Tail2),
            Set("last", State("prev"))>>
\* The let is read after.
MCSetsLet == <<Set("last", Request), Set("prev", LetOf("last"))>>
=============================================================================
