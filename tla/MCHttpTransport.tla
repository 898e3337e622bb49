-------------------------- MODULE MCHttpTransport --------------------------
(* Requests, and things that are almost requests, for TLC.                   *)
EXTENDS HttpTransport

MCNames == << <<"c", "l">>, <<"t", "e">>, <<"e", "x">> >>
MCVersion == <<"x">>
MCSegments == <<1, 2, 0>>

Crlf == <<"CR", "LF">>
Plain == <<"a", "SP", "/", "SP", "x", "0", "CR", "LF">>

RequestLines ==
    { <<"a", "#", "SP", "/", "a", "SP", "x", "1", "CR", "LF">>,
      <<"a", "a", "a", "SP", "/", "SP", "x", "0", "CR", "LF">>,
      <<"SP", "/", "SP", "x", "0", "CR", "LF">>,
      <<"a", "SP", "a", "SP", "x", "0", "CR", "LF">>,
      <<"a", "SP", "/", "#", "SP", "x", "0", "CR", "LF">>,
      <<"a", "SP", "/", "a", "a", "SP", "x", "0", "CR", "LF">>,
      <<"a", "SP", "/", "SP", "x", "9", "CR", "LF">>,
      <<"a", "SP", "/", "SP", "0", "CR", "LF">>,
      <<"a", "SP", "/", "SP", "x", "0", "LF">>,
      <<"a", "SP", "/", "CR", "LF">> }

Headers ==
    { <<"c", "l", ":", "1", "CR", "LF">>,
      <<"C", "L", ":", "SP", "0", "1", "TAB", "CR", "LF">>,
      <<"c", "l", ":", "SP", "CR", "LF">>,
      <<"c", "l", ":", "1", "SP", "1", "CR", "LF">>,
      <<"c", "l", ":", "9", "9", "CR", "LF">>,
      <<"c", "l", ":", "9", "CR", "LF">>,
      <<"c", "t", ":", "1", "CR", "LF">>,
      <<"c", "l", "a", ":", "a", "CR", "LF">>,
      <<"a", "c", "l", ":", "9", "CR", "LF">>,
      <<"T", "e", ":", "a", "CR", "LF">>,
      <<"e", ":", "HIGH", "#", "CR", "LF">>,
      <<"E", "x", ":", "CR", "LF">>,
      <<"a", "SP", ":", "1", "CR", "LF">>,
      <<"a", ":", "DEL", "CR", "LF">>,
      <<"SP", "a", ":", "1", "CR", "LF">>,
      <<"a", "CR", "LF">>,
      <<":", "a", "CR", "LF">>,
      <<"a", ":", "a", "LF">>,
      <<"a", ":", "CR", "a", "CR", "LF">> }

\* Bodies that are exact, missing, or that look like the end of a header.
Bodies == { << >>, <<"a">>, <<"CR", "LF">> }
Declared == { <<"c", "l", ":", "1", "CR", "LF">>, <<"c", "t", ":", "1", "CR", "LF">> }

\* Requests that just fill the buffer, overrun it, or leave no room for the body.
Nine == <<"c", "l", ":", "9", "CR", "LF">>
Tight ==
    { Plain \o Nine \o Crlf \o [i \in 1..10 |-> "a"],
      Plain \o <<"a", ":", "CR", "LF">> \o Nine \o Crlf,
      Plain \o <<"a", ":">> \o [i \in 1..18 |-> "a"] }

MCStreams ==
    Tight \cup
    {r \o Crlf : r \in RequestLines}
    \cup {Plain \o h \o Crlf \o <<"a">> : h \in Headers \cup {<< >>}}
    \cup {Plain \o h \o Crlf \o b : h \in Declared, b \in Bodies}
    \cup {Plain \o <<"c", "l", ":", "0", "CR", "LF">> \o h \o Crlf \o <<"a">> :
            h \in Declared \cup {<<"C", "L", ":", "0", "CR", "LF">>}}

=============================================================================
