---------------------------- MODULE HttpFraming ----------------------------
(***************************************************************************)
(* The framing of one HTTP request: the byte DFA that the bounded transport *)
(* embeds (src/http_framing.rs, table) and the line-based parser that the   *)
(* repository's tests hold it against (reference).                          *)
(*                                                                         *)
(* A byte is represented by its class: one letter stands for all letters    *)
(* that no reserved header name uses, and so on.  The reserved names, the   *)
(* version prefix and the two length limits are parameters.                 *)
(***************************************************************************)
EXTENDS Integers, Sequences, FiniteSetsExt, SequencesExt

CONSTANTS
    Names,      \* reserved header names; the first one is content-length
    Version,    \* "HTTP/1."
    MaxMethod,  \* 8
    MaxTarget   \* 256

\* Letters have a case; a digit is its own value.
Letters == {"a", "c", "e", "l", "t", "x"}
Capitals == {"C", "E", "L", "T", "X"}
Lower == [b \in Capitals |->
            CASE b = "C" -> "c" [] b = "E" -> "e" [] b = "L" -> "l" [] b = "T" -> "t" [] b = "X" -> "x"]
Digits == {"0", "1", "9"}
Value(b) == CASE b = "0" -> 0 [] b = "1" -> 1 [] b = "9" -> 9
Blanks == {"SP", "TAB"}
Bytes == Letters \cup Capitals \cup Digits \cup Blanks
             \cup {"#", "/", ":", "CR", "LF", "DEL", "HIGH"}

ASSUME FramingAssumption ==
    /\ Names \in Seq(Seq(Letters)) /\ Len(Names) > 0
    /\ \A j \in DOMAIN Names : Names[j] # << >>
    /\ \A i, j \in DOMAIN Names : Names[i][1] = Names[j][1] => i = j
    /\ Version \in Seq(Bytes \ {"SP", "CR", "LF"})
    /\ MaxMethod \in Nat /\ MaxTarget \in Nat

\* token; 33..126 without "#"; TAB and 32.. without 127.
TokenBytes == Letters \cup Capitals \cup Digits \cup {"#"}
TargetBytes == (TokenBytes \ {"#"}) \cup {"/", ":"}
ValueBytes == Bytes \ {"CR", "LF", "DEL"}

Folded(b) == IF b \in Capitals THEN Lower[b] ELSE b

-----------------------------------------------------------------------------
(* The transition table.  A state is <<where, i, n>>: n counts the bytes of  *)
(* the method, of the version prefix or of reserved name i read so far.      *)

At(where) == <<where, 0, 0>>
START == <<"method", 0, 0>>
DONE == At("done")
Reject == At("reject")

States ==
    {At(w) : w \in {"done", "reject", "target_start", "target", "version_cr", "version_lf",
                    "headers", "end_lf", "generic_name", "value", "value_lf",
                    "leading", "digits", "trailing"}}
    \cup {<<"method", 0, n>> : n \in 0..MaxMethod}
    \cup {<<"version", 0, n>> : n \in 0..Len(Version)}
    \cup UNION {{<<"name", j, n>> : n \in 1..Len(Names[j])} : j \in DOMAIN Names}

\* A transition and the action on the byte it consumes: "none", "DIGIT",
\* "LENGTH" or "TARGET".
Go(next) == [next |-> next, action |-> "none"]
GoWith(next, action) == [next |-> next, action |-> action]

\* Header-name trie: prefix mismatches rejoin the generic token scanner.
FirstByte(b) ==
    LET matching == {j \in DOMAIN Names : Names[j][1] = Folded(b)}
    IN  IF matching # {} THEN Go(<<"name", CHOOSE j \in matching : TRUE, 1>>)
        ELSE IF b \in TokenBytes THEN Go(At("generic_name")) ELSE Go(Reject)

GenericByte(b) ==
    IF b \in TokenBytes THEN Go(At("generic_name"))
    ELSE IF b = ":" THEN Go(At("value")) ELSE Go(Reject)

NameByte(j, n, b) ==
    IF n < Len(Names[j]) /\ Folded(b) = Names[j][n + 1] THEN Go(<<"name", j, n + 1>>)
    ELSE IF n = Len(Names[j]) /\ b = ":"
         THEN IF j = 1 THEN GoWith(At("leading"), "LENGTH") ELSE Go(Reject)
    ELSE GenericByte(b)

Edge(q, b) ==
    CASE q[1] = "method" ->
            IF b \in TokenBytes /\ q[3] < MaxMethod THEN Go(<<"method", 0, q[3] + 1>>)
            ELSE IF b = "SP" /\ q[3] > 0 THEN Go(At("target_start")) ELSE Go(Reject)
      [] q[1] = "target_start" ->
            IF b = "/" THEN GoWith(At("target"), "TARGET") ELSE Go(Reject)
      [] q[1] = "target" ->
            IF b \in TargetBytes THEN GoWith(At("target"), "TARGET")
            ELSE IF b = "SP" THEN Go(<<"version", 0, 0>>) ELSE Go(Reject)
      [] q[1] = "version" ->
            IF q[3] < Len(Version)
            THEN IF b = Version[q[3] + 1] THEN Go(<<"version", 0, q[3] + 1>>) ELSE Go(Reject)
            ELSE IF b \in {"0", "1"} THEN Go(At("version_cr")) ELSE Go(Reject)
      [] q[1] = "version_cr" -> IF b = "CR" THEN Go(At("version_lf")) ELSE Go(Reject)
      [] q[1] \in {"version_lf", "value_lf"} -> IF b = "LF" THEN Go(At("headers")) ELSE Go(Reject)
      [] q[1] = "headers" -> IF b = "CR" THEN Go(At("end_lf")) ELSE FirstByte(b)
      [] q[1] = "end_lf" -> IF b = "LF" THEN Go(DONE) ELSE Go(Reject)
      [] q[1] = "generic_name" -> GenericByte(b)
      [] q[1] = "name" -> NameByte(q[2], q[3], b)
      [] q[1] = "value" ->
            IF b \in ValueBytes THEN Go(At("value"))
            ELSE IF b = "CR" THEN Go(At("value_lf")) ELSE Go(Reject)
      [] q[1] = "leading" ->
            IF b \in Digits THEN GoWith(At("digits"), "DIGIT")
            ELSE IF b \in Blanks THEN Go(At("leading")) ELSE Go(Reject)
      [] q[1] \in {"digits", "trailing"} ->
            IF b \in Digits /\ q[1] = "digits" THEN GoWith(At("digits"), "DIGIT")
            ELSE IF b \in Blanks THEN Go(At("trailing"))
            ELSE IF b = "CR" THEN Go(At("value_lf")) ELSE Go(Reject)
      [] OTHER -> Go(Reject)

-----------------------------------------------------------------------------
(* The reference: find the blank line, then judge whole lines. *)

IsBlankLineAt(d, i) == i + 3 <= Len(d) /\ SubSeq(d, i, i + 3) = <<"CR", "LF", "CR", "LF">>
Ends(d) == {i + 3 : i \in {k \in DOMAIN d : IsBlankLineAt(d, k)}}

\* The lines up to the blank one, as spans without their LF.
LineEnds(d, end) == {i \in 1..(end - 2) : d[i] = "LF"}
LineStart(d, i) == Max({0} \cup {k \in 1..(i - 1) : d[k] = "LF"}) + 1
IsTerminated(d, i) == i > LineStart(d, i) /\ d[i - 1] = "CR"
Line(d, i) == SubSeq(d, LineStart(d, i), i - 2)
FirstLine(d, end) == Min(LineEnds(d, end))

AllIn(s, S) == \A i \in DOMAIN s : s[i] \in S

IsRequestLine(s) ==
    LET spaces == {i \in DOMAIN s : s[i] = "SP"}
    IN  /\ Cardinality(spaces) = 2
        /\ LET a == Min(spaces)  b == Max(spaces)
               method == SubSeq(s, 1, a - 1)
               target == SubSeq(s, a + 1, b - 1)
           IN  /\ Len(method) \in 1..MaxMethod /\ AllIn(method, TokenBytes)
               /\ Len(target) \in 1..MaxTarget /\ target[1] = "/" /\ AllIn(target, TargetBytes)
               /\ \E v \in {"0", "1"} : SubSeq(s, b + 1, Len(s)) = Append(Version, v)

Colons(s) == {i \in DOMAIN s : s[i] = ":"}
Name(s) == SubSeq(s, 1, Min(Colons(s)) - 1)
Content(s) == SubSeq(s, Min(Colons(s)) + 1, Len(s))
IsNamed(s, name) ==
    Len(Name(s)) = Len(name) /\ \A i \in DOMAIN name : Folded(Name(s)[i]) = name[i]

IsHeaderLine(s) ==
    /\ Colons(s) # {}
    /\ Name(s) # << >> /\ AllIn(Name(s), TokenBytes)
    /\ AllIn(Content(s), ValueBytes)
    /\ \A j \in DOMAIN Names : j > 1 => ~IsNamed(s, Names[j])

Trimmed(s) ==
    LET kept == {i \in DOMAIN s : s[i] \notin Blanks}
    IN  IF kept = {} THEN << >> ELSE SubSeq(s, Min(kept), Max(kept))
Decimal(s) == FoldLeft(LAMBDA n, b : n * 10 + Value(b), 0, s)

\* More, Invalid, or Complete with the exact length of the request.
More == [verdict |-> "more", total |-> 0]
Invalid == [verdict |-> "invalid", total |-> 0]

reference(d, capacity) ==
    IF Ends(d) = {} THEN IF Len(d) >= capacity THEN Invalid ELSE More
    ELSE
      LET end == Min(Ends(d))
          headers == LineEnds(d, end) \ {FirstLine(d, end)}
          lengths == {i \in headers : IsHeaderLine(Line(d, i)) /\ IsNamed(Line(d, i), Names[1])}
          digits(i) == Trimmed(Content(Line(d, i)))
          total == end + SumSet({Decimal(digits(i)) : i \in lengths})
          sound == /\ end <= capacity
                   /\ \A i \in LineEnds(d, end) : IsTerminated(d, i)
                   /\ IsRequestLine(Line(d, FirstLine(d, end)))
                   /\ \A i \in headers : IsHeaderLine(Line(d, i))
                   /\ Cardinality(lengths) <= 1
                   /\ \A i \in lengths : digits(i) # << >> /\ AllIn(digits(i), Digits)
      IN  IF ~sound THEN Invalid
          ELSE IF total > capacity THEN Invalid
          ELSE IF Len(d) < total THEN More
          ELSE [verdict |-> "complete", total |-> total]

=============================================================================
