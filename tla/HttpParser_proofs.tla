------------------------- MODULE HttpParser_proofs -------------------------
(***************************************************************************)
(* Theorems about HttpParser and its reference HttpGrammar, for bytes of   *)
(* any number in any order.  First the parser alone: where it stops, and   *)
(* that a spent one stays spent.  Then the parser against the grammar.     *)
(***************************************************************************)
EXTENDS HttpGrammar, FiniteSetTheorems, TLAPS

AfterCR == {"expecting_newline_1", "expecting_newline_2"}
LineStates == AfterCR \union {"header_line_start", "expecting_newline_3"}
Parts == {"none", "method", "uri", "header", "name", "value"}

\* What the state says of the last bytes: where in an end of line they stop.
Ending(s, t) ==
    /\ s = "expecting_newline_3" =>
        Len(t) >= 3 /\ t[Len(t) - 2] = "CR" /\ t[Len(t) - 1] = "LF" /\ t[Len(t)] = "CR"
    /\ s = "header_line_start" =>
        /\ Len(t) >= 2 /\ t[Len(t) - 1] = "CR" /\ t[Len(t)] = "LF"
        /\ Len(t) >= 3 => t[Len(t) - 2] # "LF"
    /\ s \in AfterCR => Len(t) >= 1 /\ t[Len(t)] = "CR" /\ (Len(t) >= 2 => t[Len(t) - 1] # "LF")
    /\ s \notin LineStates => Len(t) = 0 \/ t[Len(t)] \notin {"CR", "LF"}

Endings == reads = 1 /\ verdict # "true" => Ending(state, text)

\* An accepted request ends at a blank line, and the parser stays where it is.
Resting ==
    /\ verdict = "true" \/ reads > 1 => state = "expecting_newline_3"
    /\ verdict = "true" /\ reads = 1 => AtBlankLine(text)
    /\ verdict # "true" /\ reads > 1 => text = <<>>

IInv == TypeOK /\ BackIsThere /\ Endings /\ Resting

-----------------------------------------------------------------------------
\* The table of consume(): lines end and begin as the states say, and a header
\* is there before a byte is pushed to it.
LEMMA StepShape ==
    ASSUME NEW s \in Steps
    PROVE  /\ s[1] \in States \ {"expecting_newline_3"} /\ s[3] \in States /\ s[4] \in Parts
           /\ s[2] \subseteq Classes
           /\ s[3] = "header_line_start" => s[2] = {"LF"}
           /\ s[3] = "header_line_start" <=> s[1] \in AfterCR
           /\ s[3] = "expecting_newline_3" => s[1] = "header_line_start" /\ s[2] = {"CR"}
           /\ s[3] \in AfterCR => s[1] \notin LineStates /\ s[2] = {"CR"}
           /\ s[3] \notin LineStates => "CR" \notin s[2] /\ "LF" \notin s[2]
           /\ s[3] \in InHeader =>
                s[1] \in InHeader \/ s[4] = "header" \/ (s[1] = "header_line_start" /\ s[2] = Blanks)
           /\ s[4] \in {"name", "value"} => s[1] \in InHeader
  BY SMTT(60) DEF Steps, RequestLineSteps, HeaderSteps, States, Parts, AfterCR, LineStates,
      InHeader, Blanks, TokenBytes, TextBytes, Classes, Literals

\* A byte pushed to a part of the request leaves a request, with the headers
\* it had.
LEMMA PushKeeps ==
    ASSUME TypeOK, NEW part \in Parts, NEW b \in Classes,
           part \in {"name", "value"} => req.headers # <<>>
    PROVE  LET r == Push(part, b)
           IN  /\ r \in [method : Seq(Classes), uri : Seq(Classes), headers : Seq(Headers)]
               /\ part = "header" \/ req.headers # <<>> => r.headers # <<>>
  <1> DEFINE hs == req.headers
             n == Len(hs)
  <1>1. /\ req \in [method : Seq(Classes), uri : Seq(Classes), headers : Seq(Headers)]
        /\ hs \in Seq(Headers) /\ n \in Nat
    BY DEF TypeOK
  <1>2. CASE part \in {"none", "method", "uri"}
    <2>1. CASE part = "none"
      BY <1>1, <2>1 DEF Push
    <2>2. CASE part = "method"
      <3>1. Push(part, b) = [req EXCEPT !.method = Append(req.method, b)]
        BY <2>2 DEF Push
      <3>2. Append(req.method, b) \in Seq(Classes)
        BY <1>1
      <3> QED
        BY <1>1, <2>2, <3>1, <3>2
    <2>3. CASE part = "uri"
      <3>1. Push(part, b) = [req EXCEPT !.uri = Append(req.uri, b)]
        BY <2>3 DEF Push
      <3>2. Append(req.uri, b) \in Seq(Classes)
        BY <1>1
      <3> QED
        BY <1>1, <2>3, <3>1, <3>2
    <2> QED
      BY <1>2, <2>1, <2>2, <2>3
  <1>3. CASE part = "header"
    <2> DEFINE h == NewHeader(b)
    <2>1. h \in Headers
      BY DEF Headers, NewHeader
    <2>2. Push(part, b) = [req EXCEPT !.headers = Append(hs, h)]
      BY <1>3 DEF Push
    <2> HIDE DEF h
    <2>3. Append(hs, h) \in Seq(Headers) /\ Len(Append(hs, h)) = n + 1
      BY <1>1, <2>1
    <2>4. Append(hs, h) # <<>>
      BY <1>1, <2>3
    <2> QED
      BY <1>1, <2>2, <2>3, <2>4
  <1>4. CASE part \in {"name", "value"}
    <2>1. n \in 1 .. n /\ hs[n] \in Headers
      BY <1>1, <1>4
    <2>2. CASE part = "name"
      <3> DEFINE h == [hs[n] EXCEPT !.name = Append(hs[n].name, b)]
      <3>1. h \in Headers
        <4>1. hs[n].name \in Seq(Classes) /\ hs[n].value \in Seq(Classes)
          BY <2>1 DEF Headers
        <4>2. Append(hs[n].name, b) \in Seq(Classes) \ {<<>>}
          BY <4>1
        <4> QED
          BY <2>1, <4>2 DEF Headers
      <3>2. Push(part, b) = [req EXCEPT !.headers = [hs EXCEPT ![n] = h]]
        BY <1>1, <2>1, <2>2 DEF Push
      <3>3. [hs EXCEPT ![n] = h] \in Seq(Headers) \ {<<>>}
        BY <1>1, <2>1, <3>1
      <3> HIDE DEF h
      <3> QED
        BY <1>1, <3>2, <3>3
    <2>3. CASE part = "value"
      <3> DEFINE h == [hs[n] EXCEPT !.value = Append(hs[n].value, b)]
      <3>1. h \in Headers
        <4>1. hs[n].name \in Seq(Classes) \ {<<>>} /\ hs[n].value \in Seq(Classes)
          BY <2>1 DEF Headers
        <4>2. Append(hs[n].value, b) \in Seq(Classes)
          BY <4>1
        <4> QED
          BY <2>1, <4>2 DEF Headers
      <3>2. Push(part, b) = [req EXCEPT !.headers = [hs EXCEPT ![n] = h]]
        BY <1>1, <2>1, <2>3 DEF Push
      <3>3. [hs EXCEPT ![n] = h] \in Seq(Headers) \ {<<>>}
        BY <1>1, <2>1, <3>1
      <3> HIDE DEF h
      <3> QED
        BY <1>1, <3>2, <3>3
    <2> QED
      BY <1>4, <2>2, <2>3
  <1> QED
    BY <1>2, <1>3, <1>4 DEF Parts

\* A byte carries the end of a line on as its state does.
LEMMA EndingStep ==
    ASSUME NEW t \in Seq(Classes), NEW s \in Steps, NEW b \in s[2], Ending(s[1], t)
    PROVE  Ending(s[3], Append(t, b)) /\ ~AtBlankLine(Append(t, b))
  <1> DEFINE u == Append(t, b)
  <1>1. /\ Len(u) = Len(t) + 1 /\ Len(t) \in Nat /\ u[Len(u)] = b
        /\ \A i \in 1 .. Len(t) : u[i] = t[i]
    BY StepShape
  <1> HIDE DEF u
  <1>2. CASE s[3] = "header_line_start"
    <2>1. s[1] \in AfterCR /\ b = "LF"
      BY <1>2, StepShape
    <2>2. Len(t) >= 1 /\ t[Len(t)] = "CR" /\ (Len(t) >= 2 => t[Len(t) - 1] # "LF")
      BY <2>1 DEF Ending
    <2>3. Ending(s[3], u)
      BY <1>1, <1>2, <2>1, <2>2 DEF Ending, AfterCR, LineStates
    <2>4. ~AtBlankLine(u)
      BY <1>1, <2>2 DEF AtBlankLine
    <2> QED
      BY <2>3, <2>4 DEF u
  <1>3. CASE s[3] = "expecting_newline_3"
    <2>1. s[1] = "header_line_start" /\ b = "CR"
      BY <1>3, StepShape
    <2>2. Len(t) >= 2 /\ t[Len(t) - 1] = "CR" /\ t[Len(t)] = "LF"
      BY <2>1 DEF Ending
    <2>3. Ending(s[3], u)
      BY <1>1, <1>3, <2>1, <2>2 DEF Ending, AfterCR, LineStates
    <2>4. ~AtBlankLine(u)
      BY <1>1, <2>1 DEF AtBlankLine
    <2> QED
      BY <2>3, <2>4 DEF u
  <1>4. CASE s[3] \in AfterCR
    <2>1. s[1] \notin LineStates /\ b = "CR"
      BY <1>4, StepShape
    <2>2. Len(t) = 0 \/ t[Len(t)] \notin {"CR", "LF"}
      BY <2>1 DEF Ending
    <2>3. Ending(s[3], u)
      BY <1>1, <1>4, <2>1, <2>2 DEF Ending, AfterCR, LineStates
    <2>4. ~AtBlankLine(u)
      BY <1>1, <2>1 DEF AtBlankLine
    <2> QED
      BY <2>3, <2>4 DEF u
  <1>5. CASE s[3] \notin LineStates
    <2>1. b \notin {"CR", "LF"}
      BY <1>5, StepShape
    <2>2. Ending(s[3], u)
      BY <1>1, <1>5, <2>1 DEF Ending, AfterCR, LineStates
    <2>3. ~AtBlankLine(u)
      BY <1>1, <2>1 DEF AtBlankLine
    <2> QED
      BY <2>2, <2>3 DEF u
  <1> QED
    BY <1>2, <1>3, <1>4, <1>5 DEF LineStates

-----------------------------------------------------------------------------
(* The invariant.                                                            *)

LEMMA InitIInv == Init => IInv
  <1> SUFFICES ASSUME Init PROVE IInv
    OBVIOUS
  <1>1. TypeOK
    BY ParserAssumption DEF Init, TypeOK, States, Empty
  <1>2. BackIsThere /\ Resting /\ Endings
    BY DEF Init, BackIsThere, InHeader, Resting, Endings, Ending, AfterCR, LineStates
  <1> QED
    BY <1>1, <1>2 DEF IInv

LEMMA TakeIInv ==
    ASSUME IInv, NEW s \in Steps, NEW b \in Classes, Take(s, b)
    PROVE  IInv'
  <1>1. TypeOK /\ BackIsThere /\ Endings /\ Resting
    BY DEF IInv
  <1>2. /\ verdict = "more" /\ verdict' = "more" /\ s[1] = state /\ b \in s[2] /\ state' = s[3]
        /\ req' = Push(s[4], b) /\ text' = Append(text, b) /\ reads' = reads
        /\ (s[1] = "header_line_start" /\ b \in Blanks => req.headers # <<>>)
    BY DEF Take, MayTake
  <1>3. reads = 1
    BY <1>1, <1>2, StepShape DEF Resting, TypeOK
  <1>4. s[4] \in Parts /\ (s[4] \in {"name", "value"} => req.headers # <<>>)
    BY <1>1, <1>2, StepShape DEF BackIsThere
  <1>5. /\ req' \in [method : Seq(Classes), uri : Seq(Classes), headers : Seq(Headers)]
        /\ s[4] = "header" \/ req.headers # <<>> => req'.headers # <<>>
    BY <1>1, <1>2, <1>4, PushKeeps
  <1>6. TypeOK'
    <2>1. text' \in Seq(Classes)
      BY <1>1, <1>2 DEF TypeOK
    <2>2. budget' \in Nat
      BY <1>1 DEF Take, Cost, TypeOK
    <2>3. state' \in States
      BY <1>2, StepShape
    <2> QED
      BY <1>1, <1>2, <1>5, <2>1, <2>2, <2>3 DEF TypeOK
  <1>7. BackIsThere'
    <2> SUFFICES ASSUME s[3] \in InHeader PROVE req'.headers # <<>>
      BY <1>2 DEF BackIsThere
    <2>1. s[1] \in InHeader \/ s[4] = "header" \/ (s[1] = "header_line_start" /\ s[2] = Blanks)
      BY StepShape
    <2> QED
      BY <1>1, <1>2, <1>5, <2>1 DEF BackIsThere
  <1>8. Endings'
    <2>1. Ending(s[1], text)
      BY <1>1, <1>2, <1>3 DEF Endings
    <2>2. Ending(s[3], Append(text, b))
      BY <1>1, <1>2, <2>1, EndingStep DEF TypeOK
    <2> QED
      BY <1>2, <2>2 DEF Endings
  <1>9. Resting'
    BY <1>2, <1>3 DEF Resting
  <1> QED
    BY <1>6, <1>7, <1>8, <1>9 DEF IInv

LEMMA AcceptIInv ==
    ASSUME IInv, NEW b \in Classes, Accept(b)
    PROVE  IInv'
  <1>1. TypeOK /\ BackIsThere /\ Endings /\ Resting
    BY DEF IInv
  <1>2. /\ verdict = "more" /\ verdict' = "true" /\ b = "LF" /\ state = "expecting_newline_3"
        /\ state' = state /\ req' = req /\ reads' = reads /\ budget' = budget
        /\ text' = Append(text, b)
    BY DEF Accept
  <1>3. TypeOK'
    <2>1. text' \in Seq(Classes)
      BY <1>1, <1>2 DEF TypeOK
    <2> QED
      BY <1>1, <1>2, <2>1 DEF TypeOK
  <1>4. BackIsThere' /\ Endings'
    BY <1>1, <1>2 DEF BackIsThere, Endings
  <1>5. reads = 1 => AtBlankLine(text')
    <2> SUFFICES ASSUME reads = 1 PROVE AtBlankLine(text')
      OBVIOUS
    <2>1. Ending(state, text)
      BY <1>1, <1>2 DEF Endings
    <2>2. Len(text) >= 3 /\ text[Len(text) - 2] = "CR" /\ text[Len(text) - 1] = "LF"
            /\ text[Len(text)] = "CR"
      BY <1>2, <2>1 DEF Ending
    <2>3. /\ Len(text') = Len(text) + 1 /\ Len(text) \in Nat /\ text'[Len(text')] = "LF"
          /\ \A i \in 1 .. Len(text) : text'[i] = text[i]
      BY <1>1, <1>2 DEF TypeOK
    <2> QED
      BY <2>2, <2>3 DEF AtBlankLine
  <1>6. Resting'
    <2>1. AtBlankLine(text)' <=> AtBlankLine(text')
      BY DEF AtBlankLine
    <2> QED
      BY <1>2, <1>5, <2>1 DEF Resting
  <1> QED
    BY <1>3, <1>4, <1>6 DEF IInv

LEMMA NextIInv == IInv /\ [Next]_pvars => IInv'
  <1> SUFFICES ASSUME IInv, [Next]_pvars PROVE IInv'
    OBVIOUS
  <1>1. Arriving \subseteq Classes
    BY ParserAssumption DEF Arriving, Classes
  <1>2. ASSUME NEW b \in Arriving, NEW s \in Steps, Take(s, b) PROVE IInv'
    BY <1>1, <1>2, TakeIInv
  <1>3. ASSUME NEW b \in Arriving, Accept(b) PROVE IInv'
    BY <1>1, <1>3, AcceptIInv
  <1>4. ASSUME NEW b \in Arriving, Reject(b) PROVE IInv'
    BY <1>4 DEF IInv, Reject, TypeOK, BackIsThere, Endings, Resting
  <1>5. CASE ParseAgain
    <2>1. TypeOK'
      BY <1>5, ParserAssumption DEF IInv, ParseAgain, TypeOK
    <2> QED
      BY <1>5, <2>1 DEF IInv, ParseAgain, TypeOK, BackIsThere, Endings, Resting
  <1>6. CASE UNCHANGED pvars
    BY <1>6 DEF pvars, IInv, TypeOK, BackIsThere, Endings, Ending, Resting, AtBlankLine
  <1> QED
    BY <1>2, <1>3, <1>4, <1>5, <1>6 DEF Next, Finished

LEMMA Invariance == Spec => []IInv
  BY InitIInv, NextIInv, PTL DEF Spec

-----------------------------------------------------------------------------
\* Every state, request and text the parser comes to is of its type, no header
\* without a name among them, after any bytes.
THEOREM ParserTypeOK == Spec => []TypeOK
  <1>1. IInv => TypeOK
    BY DEF IInv
  <1> QED
    BY <1>1, Invariance, PTL

\* headers.back() is defined wherever consume() uses it, after any bytes.
THEOREM BackDefined == Spec => []BackIsThere
  <1>1. IInv => BackIsThere
    BY DEF IInv
  <1> QED
    BY <1>1, Invariance, PTL

\* parse() has decided when the bytes async_read_until delivered run out, and
\* has accepted no earlier, whatever they are.
THEOREM FramingAgrees == Spec => []EndsAtBlankLine
  <1>1. IInv => EndsAtBlankLine
    <2> SUFFICES ASSUME IInv, reads = 1 PROVE verdict = "true" <=> AtBlankLine(text)
      BY DEF EndsAtBlankLine
    <2>1. verdict = "true" => AtBlankLine(text)
      BY DEF IInv, Resting
    <2>2. verdict # "true" => ~AtBlankLine(text)
      <3> SUFFICES ASSUME verdict # "true" PROVE ~AtBlankLine(text)
        OBVIOUS
      <3>1. Ending(state, text) /\ text \in Seq(Classes)
        BY DEF IInv, Endings, TypeOK
      <3> QED
        BY <3>1 DEF Ending, AtBlankLine, AfterCR, LineStates
    <2> QED
      BY <2>1, <2>2
  <1> QED
    BY <1>1, Invariance, PTL

\* What `Parses` of HttpConnection takes over from the parser: one that has
\* accepted a request is not reset by handle_read_headers, so it accepts a line
\* feed only and leaves the request alone, on every read that follows.
AcceptsOnce ==
    [][reads > 1 /\ verdict' # verdict =>
        /\ req' = req
        /\ verdict' = "true" => text' = <<"LF">>]_pvars

\* The bridge between the two models: a spent parser behaves as `Parses` says.
LEMMA SpentParser == Spec => AcceptsOnce
  <1>1. IInv /\ [Next]_pvars =>
          [reads > 1 /\ verdict' # verdict =>
            /\ req' = req
            /\ verdict' = "true" => text' = <<"LF">>]_pvars
    <2> SUFFICES ASSUME IInv, [Next]_pvars, reads > 1, verdict' # verdict
                 PROVE  req' = req /\ (verdict' = "true" => text' = <<"LF">>)
      OBVIOUS
    <2>1. verdict # "true" => text = <<>>
      BY DEF IInv, Resting
    <2>2. CASE \E b \in Arriving : Accept(b)
      BY <2>1, <2>2 DEF Accept
    <2>3. CASE \E b \in Arriving : Reject(b)
      BY <2>3 DEF Reject
    <2>4. CASE ParseAgain
      BY <2>4 DEF ParseAgain
    <2>5. ~\E b \in Arriving, s \in Steps : Take(s, b)
      BY DEF Take
    <2> QED
      BY <2>2, <2>3, <2>4, <2>5 DEF Next, Finished, pvars
  <1> QED
    BY <1>1, Invariance, PTL DEF Spec, AcceptsOnce

-----------------------------------------------------------------------------
(***************************************************************************)
(* The parser against the grammar, for bytes of any number in any order.   *)
(* The parser never looks back: its state must tell what the grammar asks  *)
(* of the line begun last (Shape), how many spaces the request line had    *)
(* (Spaces) and which header lacks its colon (Colons).  From Shape follows *)
(* that what it accepts is a request and that it refuses no byte a request *)
(* goes on with; from Spaces and Colons, that each byte is pushed to the   *)
(* part of the request it belongs to (Means).                              *)
(***************************************************************************)

\* The line that begins at a is a whole one, up to z, and fits where it is.
GoodLine(t, a, z) ==
    \/ a = 1 /\ IsRequestLine(t, z)
    \/ a # 1 /\ (IsHeaderLine(t, a, z) \/ IsContinuation(t, a, z))

\* Every line before the one begun at a is a whole one.
LinesBefore(t, a) ==
    \A b \in LineStarts(t) : b < a =>
        \E z \in b .. a - 3 : t[z + 1] = "CR" /\ t[z + 2] = "LF" /\ GoodLine(t, b, z)

\* The text ends k bytes behind the uri's space.
InProtocol(t, k) ==
    \E u \in 1 .. Len(t) : UriTo(t, u) /\ Protocol(t, u, k) /\ Len(t) = u + k

\* What the state says of the request line, up to the last byte.
RequestLineSoFar(s, t) ==
    LET n == Len(t) IN
    /\ s = "method_start" => n = 0
    /\ s = "method" => n >= 1 /\ Over(t, 1, n, NameBytes)
    /\ s = "uri" => \E m \in 2 .. n : MethodTo(t, m) /\ Over(t, m + 1, n, UriBytes)
    /\ s = "http_version_h" => InProtocol(t, 0)
    /\ s = "http_version_t_1" => InProtocol(t, 1)
    /\ s = "http_version_t_2" => InProtocol(t, 2)
    /\ s = "http_version_p" => InProtocol(t, 3)
    /\ s = "http_version_slash" => InProtocol(t, 4)
    /\ s = "http_version_major_start" => InProtocol(t, 5)
    /\ s = "http_version_major" => \E u \in 1 .. n :
        UriTo(t, u) /\ Protocol(t, u, 5) /\ u + 6 <= n /\ Over(t, u + 6, n, {"digit"})
    /\ s = "http_version_minor_start" => \E u \in 1 .. n :
        /\ UriTo(t, u) /\ Protocol(t, u, 5)
        /\ u + 6 < n /\ Over(t, u + 6, n - 1, {"digit"}) /\ t[n] = "dot"
    /\ s = "http_version_minor" => IsRequestLine(t, n)
    /\ s = "expecting_newline_1" => n >= 1 /\ t[n] = "CR" /\ IsRequestLine(t, n - 1)

\* The same of a line behind the first one.
HeaderLineSoFar(s, t, a) ==
    LET n == Len(t) IN
    /\ s = "header_line_start" => a = n + 1
    /\ s = "header_lws" => a <= n /\ Over(t, a, n, Blanks) /\ IsContinuation(t, a, n)
    /\ s = "header_name" => a <= n /\ Over(t, a, n, NameBytes)
    /\ s = "space_before_header_value" => a < n /\ Over(t, a, n - 1, NameBytes) /\ t[n] = "colon"
    /\ s = "header_value" =>
        /\ IsHeaderLine(t, a, n) \/ IsContinuation(t, a, n)
        /\ \E i \in a .. n : t[i] \notin Blanks
    /\ s = "expecting_newline_2" =>
        t[n] = "CR" /\ (IsHeaderLine(t, a, n - 1) \/ IsContinuation(t, a, n - 1))
    /\ s = "expecting_newline_3" => a = n /\ t[n] = "CR"

\* The states on the request line, and those behind it.
FirstLine == {"method_start", "method", "uri", "http_version_h", "http_version_t_1",
              "http_version_t_2", "http_version_p", "http_version_slash",
              "http_version_major_start", "http_version_major", "http_version_minor_start",
              "http_version_minor", "expecting_newline_1"}
HeaderLine == {"header_line_start", "header_lws", "header_name", "space_before_header_value",
               "header_value", "expecting_newline_2", "expecting_newline_3"}

\* What the state says of the whole text.
Shape(s, t) ==
    \/ s \in FirstLine /\ RequestLineSoFar(s, t)
    \/ /\ s \in HeaderLine
       /\ \E a \in 2 .. Len(t) + 1 :
            StartsLine(t, a) /\ LinesBefore(t, a) /\ HeaderLineSoFar(s, t, a)

\* How many spaces there were, as far as the request line needs to know.
Spaces(s, t) ==
    LET n == Len(t) IN
    /\ s \in {"method_start", "method"} => \A i \in 1 .. n : t[i] # "SP"
    /\ s = "uri" => \E m \in 1 .. n : t[m] = "SP" /\ \A i \in 1 .. n : t[i] = "SP" => i = m
    /\ s \notin {"method_start", "method", "uri"} =>
        \E m, u \in 1 .. n : m < u /\ t[m] = "SP" /\ t[u] = "SP"

Colon(t, a, z) == \E c \in a .. z : t[c] = "colon"

\* Every header but the last has its colon, and the last one where the state
\* says so.
LastHeader(s, t, l) ==
    LET n == Len(t) IN
    /\ \A q \in HeaderStarts(t) : q <= l /\ (q # l => Colon(t, q, l - 1))
    /\ s \in HeaderLine
    /\ IF s = "header_name" THEN ~Colon(t, l, n)
       ELSE IF s = "space_before_header_value" THEN l < n /\ t[n] = "colon" /\ ~Colon(t, l, n - 1)
       ELSE Colon(t, l, n - 1)

\* Whether there is a header to push a byte to, and to which part.
Colons(s, t) ==
    \/ HeaderStarts(t) = {} /\ s \notin InHeader
    \/ \E l \in HeaderStarts(t) : LastHeader(s, t, l)

-----------------------------------------------------------------------------
(* A text and its beginnings agree on everything that is said of the          *)
(* beginning's positions                                                      *)

Agree(t, r) == Len(t) <= Len(r) /\ \A i \in 1 .. Len(t) : t[i] = r[i]

\* r is t with one more byte, b.
Longer(t, b, r) ==
    /\ t \in Seq(Classes) /\ b \in Classes /\ r \in Seq(Classes)
    /\ Len(r) = Len(t) + 1 /\ r[Len(t) + 1] = b /\ Agree(t, r)

LEMMA AppendIsLonger ==
    ASSUME NEW t \in Seq(Classes), NEW b \in Classes
    PROVE  Longer(t, b, Append(t, b))
  BY DEF Longer, Agree

\* A range of positions.
LEMMA OverAgrees ==
    ASSUME NEW t \in Seq(Classes), NEW r \in Seq(Classes), Agree(t, r),
           NEW a \in Nat \ {0}, NEW z \in Int, z <= Len(t), NEW B
    PROVE  Over(t, a, z, B) <=> Over(r, a, z, B)
  BY DEF Over, Agree

\* Where lines and headers begin.
LEMMA StartsAgree ==
    ASSUME NEW t \in Seq(Classes), NEW r \in Seq(Classes), Agree(t, r)
    PROVE  /\ \A a \in 1 .. Len(t) + 1 : StartsLine(t, a) <=> StartsLine(r, a)
           /\ \A a \in 1 .. Len(t) : a \in LineStarts(t) <=> a \in LineStarts(r)
           /\ \A a \in 1 .. Len(t) : a \in HeaderStarts(t) <=> a \in HeaderStarts(r)
           /\ HeaderStarts(t) \subseteq HeaderStarts(r)
  <1>1. \A a \in 1 .. Len(t) + 1 : StartsLine(t, a) <=> StartsLine(r, a)
    BY DEF StartsLine, Agree
  <1>2. \A a \in 1 .. Len(t) : a \in LineStarts(t) <=> a \in LineStarts(r)
    BY <1>1 DEF LineStarts, Agree
  <1>3. \A a \in 1 .. Len(t) : a \in HeaderStarts(t) <=> a \in HeaderStarts(r)
    BY <1>2 DEF HeaderStarts, Agree
  <1>4. HeaderStarts(t) \subseteq 1 .. Len(t) BY DEF HeaderStarts, LineStarts
  <1> QED BY <1>1, <1>2, <1>3, <1>4

\* The request line, part by part.
LEMMA MethodAgrees ==
    ASSUME NEW t \in Seq(Classes), NEW r \in Seq(Classes), Agree(t, r), NEW m \in 1 .. Len(t)
    PROVE  MethodTo(t, m) <=> MethodTo(r, m)
  <1>1. Over(t, 1, m - 1, NameBytes) <=> Over(r, 1, m - 1, NameBytes)
    BY OverAgrees
  <1> QED BY <1>1 DEF MethodTo, Agree

LEMMA UriAgrees ==
    ASSUME NEW t \in Seq(Classes), NEW r \in Seq(Classes), Agree(t, r), NEW u \in 1 .. Len(t)
    PROVE  UriTo(t, u) <=> UriTo(r, u)
  <1>1. \A m \in 2 .. u - 1 : Over(t, m + 1, u - 1, UriBytes) <=> Over(r, m + 1, u - 1, UriBytes)
    BY OverAgrees
  <1>2. \A m \in 2 .. u - 1 : MethodTo(t, m) <=> MethodTo(r, m)
    BY MethodAgrees
  <1> QED BY <1>1, <1>2 DEF UriTo, Agree

LEMMA ProtocolAgrees ==
    ASSUME NEW t \in Seq(Classes), NEW r \in Seq(Classes), Agree(t, r),
           NEW u \in 1 .. Len(t), NEW k \in 0 .. 5, u + k <= Len(t)
    PROVE  Protocol(t, u, k) <=> Protocol(r, u, k)
  BY DEF Protocol, Agree

LEMMA RequestLineAgrees ==
    ASSUME NEW t \in Seq(Classes), NEW r \in Seq(Classes), Agree(t, r), NEW z \in 0 .. Len(t)
    PROVE  IsRequestLine(t, z) <=> IsRequestLine(r, z)
  <1>1. ASSUME NEW u \in 1 .. z, NEW d \in 1 .. z, u + 6 < d, d < z
        PROVE  /\ UriTo(t, u) <=> UriTo(r, u)
               /\ Protocol(t, u, 5) <=> Protocol(r, u, 5)
               /\ Over(t, u + 6, d - 1, {"digit"}) <=> Over(r, u + 6, d - 1, {"digit"})
               /\ Over(t, d + 1, z, {"digit"}) <=> Over(r, d + 1, z, {"digit"})
               /\ t[d] = r[d]
    <2>1. UriTo(t, u) <=> UriTo(r, u) BY UriAgrees
    <2>2. Protocol(t, u, 5) <=> Protocol(r, u, 5) BY <1>1, ProtocolAgrees
    <2>3. Over(t, u + 6, d - 1, {"digit"}) <=> Over(r, u + 6, d - 1, {"digit"})
      BY <1>1, OverAgrees
    <2>4. Over(t, d + 1, z, {"digit"}) <=> Over(r, d + 1, z, {"digit"})
      BY <1>1, OverAgrees
    <2> QED BY <2>1, <2>2, <2>3, <2>4 DEF Agree
  <1> QED BY <1>1 DEF IsRequestLine

\* A header, and a line that continues one.
LEMMA HeaderLineAgrees ==
    ASSUME NEW t \in Seq(Classes), NEW r \in Seq(Classes), Agree(t, r),
           NEW a \in Nat \ {0}, NEW z \in 0 .. Len(t)
    PROVE  IsHeaderLine(t, a, z) <=> IsHeaderLine(r, a, z)
  <1>1. ASSUME NEW c \in a + 1 .. z - 1
        PROVE  /\ Over(t, a, c - 1, NameBytes) <=> Over(r, a, c - 1, NameBytes)
               /\ Over(t, c + 2, z, ValueBytes) <=> Over(r, c + 2, z, ValueBytes)
               /\ t[c] = r[c] /\ t[c + 1] = r[c + 1]
    BY OverAgrees DEF Agree
  <1> QED BY <1>1 DEF IsHeaderLine

LEMMA ContinuationAgrees ==
    ASSUME NEW t \in Seq(Classes), NEW r \in Seq(Classes), Agree(t, r),
           NEW a \in 1 .. Len(t) + 1, NEW z \in 0 .. Len(t)
    PROVE  IsContinuation(t, a, z) <=> IsContinuation(r, a, z)
  <1>1. ASSUME NEW i \in a + 1 .. z + 1
        PROVE  /\ Over(t, a, i - 1, Blanks) <=> Over(r, a, i - 1, Blanks)
               /\ Over(t, i, z, ValueBytes) <=> Over(r, i, z, ValueBytes)
               /\ i <= z => t[i] = r[i]
    BY OverAgrees DEF Agree
  <1>2. (\E p \in HeaderStarts(t) : p < a) <=> (\E p \in HeaderStarts(r) : p < a)
    <2>1. HeaderStarts(t) \subseteq Nat \ {0} /\ HeaderStarts(r) \subseteq Nat \ {0}
      BY DEF HeaderStarts, LineStarts
    <2> QED BY <2>1, StartsAgree
  <1> QED BY <1>1, <1>2 DEF IsContinuation

LEMMA GoodLineAgrees ==
    ASSUME NEW t \in Seq(Classes), NEW r \in Seq(Classes), Agree(t, r),
           NEW a \in 1 .. Len(t) + 1, NEW z \in 0 .. Len(t)
    PROVE  GoodLine(t, a, z) <=> GoodLine(r, a, z)
  BY RequestLineAgrees, HeaderLineAgrees, ContinuationAgrees DEF GoodLine

-----------------------------------------------------------------------------
(* The steps of consume(), and what the state says of the text               *)

\* The parser's classes are the grammar's.
LEMMA ByteSets == TokenBytes = NameBytes /\ TextBytes = ValueBytes
  <1>1. ASSUME NEW b PROVE (b \in TokenBytes <=> b \in NameBytes) /\ (b \in TextBytes <=> b \in ValueBytes)
    BY DEF TokenBytes, TextBytes, NameBytes, ValueBytes, Controls, Separators, Classes, Literals
  <1> QED BY <1>1

\* The table read by the state a byte is taken in: the request line ...
LEMMA RequestLineTable ==
    ASSUME NEW s \in Steps, NEW b \in s[2]
    PROVE  /\ s[1] = "method_start" => b \in NameBytes /\ s[3] = "method" /\ s[4] = "method"
           /\ s[1] = "method" =>
                \/ b = "SP" /\ s[3] = "uri" /\ s[4] = "none"
                \/ b \in NameBytes /\ s[3] = "method" /\ s[4] = "method"
           /\ s[1] = "uri" =>
                \/ b = "SP" /\ s[3] = "http_version_h" /\ s[4] = "none"
                \/ b \in UriBytes /\ s[3] = "uri" /\ s[4] = "uri"
           /\ s[1] = "http_version_h" => b = "H" /\ s[3] = "http_version_t_1" /\ s[4] = "none"
           /\ s[1] = "http_version_t_1" => b = "T" /\ s[3] = "http_version_t_2" /\ s[4] = "none"
           /\ s[1] = "http_version_t_2" => b = "T" /\ s[3] = "http_version_p" /\ s[4] = "none"
           /\ s[1] = "http_version_p" => b = "P" /\ s[3] = "http_version_slash" /\ s[4] = "none"
           /\ s[1] = "http_version_slash" =>
                b = "slash" /\ s[3] = "http_version_major_start" /\ s[4] = "none"
           /\ s[1] = "http_version_major_start" =>
                b = "digit" /\ s[3] = "http_version_major" /\ s[4] = "none"
           /\ s[1] = "http_version_major" =>
                /\ s[4] = "none"
                /\ \/ b = "dot" /\ s[3] = "http_version_minor_start"
                   \/ b = "digit" /\ s[3] = "http_version_major"
           /\ s[1] = "http_version_minor_start" =>
                b = "digit" /\ s[3] = "http_version_minor" /\ s[4] = "none"
           /\ s[1] = "http_version_minor" =>
                /\ s[4] = "none"
                /\ \/ b = "CR" /\ s[3] = "expecting_newline_1"
                   \/ b = "digit" /\ s[3] = "http_version_minor"
           /\ s[1] = "expecting_newline_1" =>
                b = "LF" /\ s[3] = "header_line_start" /\ s[4] = "none"
           /\ s[1] = "uri_start" => s[3] = "uri"
  BY ByteSets, SMTT(60) DEF Steps, RequestLineSteps, HeaderSteps, UriBytes

\* ... and the headers.
LEMMA HeaderTable ==
    ASSUME NEW s \in Steps, NEW b \in s[2]
    PROVE  /\ s[1] = "header_line_start" =>
                \/ b = "CR" /\ s[3] = "expecting_newline_3" /\ s[4] = "none"
                \/ b \in Blanks /\ s[3] = "header_lws" /\ s[4] = "none"
                \/ b \in NameBytes /\ s[3] = "header_name" /\ s[4] = "header"
           /\ s[1] = "header_lws" =>
                \/ b = "CR" /\ s[3] = "expecting_newline_2" /\ s[4] = "none"
                \/ b \in Blanks /\ s[3] = "header_lws" /\ s[4] = "none"
                \/ b \in ValueBytes \ Blanks /\ s[3] = "header_value" /\ s[4] = "value"
           /\ s[1] = "header_name" =>
                \/ b = "colon" /\ s[3] = "space_before_header_value" /\ s[4] = "none"
                \/ b \in NameBytes /\ s[3] = "header_name" /\ s[4] = "name"
           /\ s[1] = "space_before_header_value" =>
                b = "SP" /\ s[3] = "header_value" /\ s[4] = "none"
           /\ s[1] = "header_value" =>
                \/ b = "CR" /\ s[3] = "expecting_newline_2" /\ s[4] = "none"
                \/ b \in ValueBytes /\ s[3] = "header_value" /\ s[4] = "value"
           /\ s[1] = "expecting_newline_2" =>
                b = "LF" /\ s[3] = "header_line_start" /\ s[4] = "none"
           /\ s[1] # "expecting_newline_3"
           /\ s[1] \in FirstLine \union HeaderLine \union {"uri_start"}
  BY ByteSets, SMTT(60) DEF Steps, RequestLineSteps, HeaderSteps, FirstLine, HeaderLine

\* What the proofs need to know of the bytes.
LEMMA ByteClasses ==
    /\ NameBytes \subseteq UriBytes /\ UriBytes \subseteq ValueBytes /\ ValueBytes \subseteq Classes
    /\ "SP" \notin NameBytes /\ "colon" \notin NameBytes /\ "SP" \notin UriBytes
    /\ "CR" \notin ValueBytes /\ "LF" \notin ValueBytes /\ "HT" \notin ValueBytes
    /\ NameBytes \intersect Blanks = {} /\ Blanks = {"SP", "HT"} /\ "SP" \in ValueBytes
    /\ "CR" \notin NameBytes /\ "LF" \notin NameBytes
    /\ "CR" \notin UriBytes /\ "LF" \notin UriBytes
  BY DEF NameBytes, UriBytes, ValueBytes, Controls, Separators, Classes, Blanks, Literals

\* A range goes on with one byte more.
LEMMA OverMore ==
    ASSUME NEW t, NEW b, NEW r, Longer(t, b, r), NEW a \in Nat \ {0}, NEW B,
           Over(t, a, Len(t), B), b \in B
    PROVE  Over(r, a, Len(r), B)
  BY DEF Over, Longer, Agree

\* A line holds no part of an end of line.
LEMMA RequestLineIsOneLine ==
    ASSUME NEW t \in Seq(Classes), NEW z \in 0 .. Len(t), IsRequestLine(t, z)
    PROVE  z >= 1 /\ \A i \in 1 .. z : t[i] \notin {"CR", "LF"}
  <1>1. PICK u \in 1 .. z, d \in 1 .. z :
            /\ UriTo(t, u) /\ Protocol(t, u, 5)
            /\ u + 6 < d /\ Over(t, u + 6, d - 1, {"digit"})
            /\ t[d] = "dot"
            /\ d < z /\ Over(t, d + 1, z, {"digit"})
    BY DEF IsRequestLine
  <1>2. PICK m \in 2 .. u - 1 : MethodTo(t, m) /\ Over(t, m + 1, u - 1, UriBytes) /\ t[u] = "SP"
    BY <1>1 DEF UriTo
  <1>3. /\ \A i \in 1 .. m - 1 : t[i] \notin {"CR", "LF"}
        /\ \A i \in m + 1 .. u - 1 : t[i] \notin {"CR", "LF"}
        /\ t[m] = "SP"
    BY <1>2, ByteClasses DEF MethodTo, Over
  <1>4. /\ t[u + 1] = "H" /\ t[u + 2] = "T" /\ t[u + 3] = "T" /\ t[u + 4] = "P"
        /\ t[u + 5] = "slash"
    BY <1>1 DEF Protocol
  <1>5. \A i \in u + 6 .. z : t[i] \notin {"CR", "LF"}
    BY <1>1 DEF Over
  <1>6. ASSUME NEW i \in 1 .. z, t[i] \in {"CR", "LF"} PROVE FALSE
    <2>1. i # u + 1 /\ i # u + 2 /\ i # u + 3 /\ i # u + 4 /\ i # u + 5 /\ i # m /\ i # u
      BY <1>2, <1>3, <1>4, <1>6
    <2>2. i \notin 1 .. m - 1 /\ i \notin m + 1 .. u - 1 /\ i \notin u + 6 .. z
      BY <1>3, <1>5, <1>6
    <2> QED BY <2>1, <2>2
  <1> QED BY <1>6

LEMMA HeaderLineIsOneLine ==
    ASSUME NEW t \in Seq(Classes), NEW a \in Nat \ {0}, NEW z \in 0 .. Len(t),
           IsHeaderLine(t, a, z) \/ IsContinuation(t, a, z)
    PROVE  a <= z /\ \A i \in a .. z : t[i] \notin {"CR", "LF"}
  <1>1. CASE IsHeaderLine(t, a, z)
    BY <1>1, ByteClasses DEF IsHeaderLine, Over
  <1>2. CASE IsContinuation(t, a, z)
    BY <1>2, ByteClasses DEF IsContinuation, Over
  <1> QED BY <1>1, <1>2

\* The request line goes on as the state does.
LEMMA RequestLineStep ==
    ASSUME NEW s \in Steps, NEW b \in s[2], NEW t, NEW r, Longer(t, b, r),
           s[1] \in FirstLine, RequestLineSoFar(s[1], t), s[3] \in FirstLine
    PROVE  RequestLineSoFar(s[3], r)
  <1> DEFINE n == Len(t)
  <1>1. /\ t \in Seq(Classes) /\ r \in Seq(Classes) /\ n \in Nat /\ Len(r) = n + 1
        /\ r[n + 1] = b /\ \A i \in 1 .. n : t[i] = r[i]
        /\ Agree(t, r)
    BY DEF Longer, Agree
  <1> HIDE DEF n
  <1> USE DEF RequestLineSoFar
  <1>2. CASE s[1] \in {"method_start", "method"}
    <2>1. Over(t, 1, n, NameBytes)
      BY <1>1, <1>2 DEF Over, n
    <2>2. CASE s[3] = "method"
      <3>1. b \in NameBytes BY <1>2, <2>2, RequestLineTable
      <3> QED BY <1>1, <2>1, <2>2, <3>1, OverMore DEF n
    <2>3. CASE s[3] = "uri"
      <3>1. b = "SP" /\ n >= 1 BY <1>2, <2>3, RequestLineTable, ByteClasses DEF n
      <3>2. MethodTo(r, n + 1) BY <1>1, <2>1, <3>1, OverAgrees DEF MethodTo, n
      <3>3. Over(r, n + 2, n + 1, UriBytes) BY <1>1 DEF Over
      <3> QED BY <1>1, <2>3, <3>1, <3>2, <3>3
    <2> QED BY <1>2, <2>2, <2>3, RequestLineTable
  <1>3. CASE s[1] = "uri"
    <2>1. PICK m \in 2 .. n : MethodTo(t, m) /\ Over(t, m + 1, n, UriBytes)
      BY <1>3 DEF n
    <2>2. MethodTo(r, m) BY <1>1, <2>1, MethodAgrees DEF n
    <2>3. CASE s[3] = "uri"
      <3>1. b \in UriBytes BY <1>3, <2>3, RequestLineTable, ByteClasses
      <3>2. Over(r, m + 1, n + 1, UriBytes) BY <1>1, <2>1, <3>1, OverMore DEF n
      <3> QED BY <1>1, <2>2, <2>3, <3>2
    <2>4. CASE s[3] = "http_version_h"
      <3>1. b = "SP" BY <1>3, <2>4, RequestLineTable, ByteClasses
      <3>2. Over(r, m + 1, n, UriBytes) BY <1>1, <2>1, OverAgrees DEF n
      <3>3. UriTo(r, n + 1) BY <1>1, <2>2, <3>1, <3>2 DEF UriTo
      <3>4. InProtocol(r, 0) BY <1>1, <3>3 DEF InProtocol, Protocol
      <3> QED BY <2>4, <3>4
    <2> QED BY <1>3, <2>3, <2>4, RequestLineTable
  <1>4. ASSUME NEW k \in 0 .. 4, InProtocol(t, k), b = <<"H", "T", "T", "P", "slash">>[k + 1]
        PROVE  InProtocol(r, k + 1)
    <2>1. PICK u \in 1 .. n : UriTo(t, u) /\ Protocol(t, u, k) /\ n = u + k
      BY <1>4 DEF InProtocol, n
    <2>2. UriTo(r, u) BY <1>1, <2>1, UriAgrees DEF n
    <2>3. Protocol(r, u, k) BY <1>1, <2>1, ProtocolAgrees DEF n
    <2>4. Protocol(r, u, k + 1) BY <1>1, <1>4, <2>1, <2>3 DEF Protocol
    <2> QED BY <1>1, <2>1, <2>2, <2>4 DEF InProtocol
  <1>5. CASE s[1] \in {"http_version_h", "http_version_t_1", "http_version_t_2",
                       "http_version_p", "http_version_slash"}
    <2>1. CASE s[1] = "http_version_h"
      <3>1. b = "H" /\ s[3] = "http_version_t_1" BY <2>1, RequestLineTable
      <3>2. InProtocol(t, 0) BY <2>1
      <3>3. InProtocol(r, 0 + 1) BY <1>4, <3>1, <3>2
      <3> QED BY <3>1, <3>3
    <2>2. CASE s[1] = "http_version_t_1"
      <3>1. b = "T" /\ s[3] = "http_version_t_2" BY <2>2, RequestLineTable
      <3>2. InProtocol(t, 1) BY <2>2
      <3>3. InProtocol(r, 1 + 1) BY <1>4, <3>1, <3>2
      <3> QED BY <3>1, <3>3
    <2>3. CASE s[1] = "http_version_t_2"
      <3>1. b = "T" /\ s[3] = "http_version_p" BY <2>3, RequestLineTable
      <3>2. InProtocol(t, 2) BY <2>3
      <3>3. InProtocol(r, 2 + 1) BY <1>4, <3>1, <3>2
      <3> QED BY <3>1, <3>3
    <2>4. CASE s[1] = "http_version_p"
      <3>1. b = "P" /\ s[3] = "http_version_slash" BY <2>4, RequestLineTable
      <3>2. InProtocol(t, 3) BY <2>4
      <3>3. InProtocol(r, 3 + 1) BY <1>4, <3>1, <3>2
      <3> QED BY <3>1, <3>3
    <2>5. CASE s[1] = "http_version_slash"
      <3>1. b = "slash" /\ s[3] = "http_version_major_start" BY <2>5, RequestLineTable
      <3>2. InProtocol(t, 4) BY <2>5
      <3>3. InProtocol(r, 4 + 1) BY <1>4, <3>1, <3>2
      <3> QED BY <3>1, <3>3
    <2> QED BY <1>5, <2>1, <2>2, <2>3, <2>4, <2>5
  <1>6. CASE s[1] = "http_version_major_start"
    <2>1. PICK u \in 1 .. n : UriTo(t, u) /\ Protocol(t, u, 5) /\ n = u + 5
      BY <1>6 DEF InProtocol, n
    <2>2. UriTo(r, u) BY <1>1, <2>1, UriAgrees DEF n
    <2>3. Protocol(r, u, 5) BY <1>1, <2>1, ProtocolAgrees DEF n
    <2>4. b = "digit" /\ s[3] = "http_version_major" BY <1>6, RequestLineTable
    <2>5. Over(r, u + 6, n + 1, {"digit"}) BY <1>1, <2>1, <2>4 DEF Over
    <2> QED BY <1>1, <2>1, <2>2, <2>3, <2>4, <2>5
  <1>7. CASE s[1] = "http_version_major"
    <2>1. PICK u \in 1 .. n :
            UriTo(t, u) /\ Protocol(t, u, 5) /\ u + 6 <= n /\ Over(t, u + 6, n, {"digit"})
      BY <1>7 DEF n
    <2>2. UriTo(r, u) BY <1>1, <2>1, UriAgrees DEF n
    <2>3. Protocol(r, u, 5) BY <1>1, <2>1, ProtocolAgrees DEF n
    <2>4. CASE b = "dot" /\ s[3] = "http_version_minor_start"
      <3>1. Over(r, u + 6, n, {"digit"}) BY <1>1, <2>1, OverAgrees DEF n
      <3> QED BY <1>1, <2>1, <2>2, <2>3, <2>4, <3>1
    <2>5. CASE b = "digit" /\ s[3] = "http_version_major"
      <3>1. Over(r, u + 6, n + 1, {"digit"}) BY <1>1, <2>1, <2>5, OverMore DEF n
      <3> QED BY <1>1, <2>1, <2>2, <2>3, <2>5, <3>1
    <2> QED BY <1>7, <2>4, <2>5, RequestLineTable
  <1>8. CASE s[1] = "http_version_minor_start"
    <2>1. PICK u \in 1 .. n :
            /\ UriTo(t, u) /\ Protocol(t, u, 5)
            /\ u + 6 < n /\ Over(t, u + 6, n - 1, {"digit"}) /\ t[n] = "dot"
      BY <1>8 DEF n
    <2>2. UriTo(r, u) BY <1>1, <2>1, UriAgrees DEF n
    <2>3. Protocol(r, u, 5) BY <1>1, <2>1, ProtocolAgrees DEF n
    <2>4. b = "digit" /\ s[3] = "http_version_minor" BY <1>8, RequestLineTable
    <2>5. Over(r, u + 6, n - 1, {"digit"}) BY <1>1, <2>1, OverAgrees DEF n
    <2>6. Over(r, n + 1, n + 1, {"digit"}) BY <1>1, <2>4 DEF Over
    <2>7. IsRequestLine(r, n + 1) BY <1>1, <2>1, <2>2, <2>3, <2>5, <2>6 DEF IsRequestLine
    <2> QED BY <1>1, <2>4, <2>7
  <1>9. CASE s[1] = "http_version_minor"
    <2>1. IsRequestLine(t, n) BY <1>9 DEF n
    <2>2. CASE b = "CR" /\ s[3] = "expecting_newline_1"
      <3>1. IsRequestLine(r, n) BY <1>1, <2>1, RequestLineAgrees DEF n
      <3> QED BY <1>1, <2>2, <3>1
    <2>3. CASE b = "digit" /\ s[3] = "http_version_minor"
      <3>1. IsRequestLine(r, n) BY <1>1, <2>1, RequestLineAgrees DEF n
      <3>2. PICK u \in 1 .. n, d \in 1 .. n :
            /\ UriTo(r, u) /\ Protocol(r, u, 5)
            /\ u + 6 < d /\ Over(r, u + 6, d - 1, {"digit"})
            /\ r[d] = "dot"
            /\ d < n /\ Over(r, d + 1, n, {"digit"})
        BY <3>1 DEF IsRequestLine
      <3>3. r[n + 1] \in {"digit"} /\ d \in Nat BY <1>1, <2>3
      <3>4. Over(r, d + 1, n, {"digit"}) BY <3>2
      <3>5. Over(r, d + 1, n + 1, {"digit"})
        <4> SUFFICES ASSUME NEW i \in d + 1 .. n + 1 PROVE r[i] \in {"digit"}
          BY DEF Over
        <4>1. i = n + 1 \/ i \in d + 1 .. n BY <1>1, <3>3
        <4> QED BY <3>3, <3>4, <4>1 DEF Over
      <3>6. IsRequestLine(r, n + 1) BY <1>1, <3>2, <3>5 DEF IsRequestLine
      <3> QED BY <1>1, <2>3, <3>6
    <2> QED BY <1>9, <2>2, <2>3, RequestLineTable
  <1>10. s[1] = "expecting_newline_1" => s[3] = "header_line_start"
    BY RequestLineTable
  <1>11. "header_line_start" \notin FirstLine
    BY DEF FirstLine
  <1> QED BY <1>2, <1>3, <1>5, <1>6, <1>7, <1>8, <1>9, <1>10, <1>11 DEF FirstLine

\* The whole lines stay whole, and the one that ends joins them.
LEMMA LinesBeforeAgree ==
    ASSUME NEW t \in Seq(Classes), NEW r \in Seq(Classes), Agree(t, r),
           NEW a \in 2 .. Len(t) + 1, LinesBefore(t, a)
    PROVE  LinesBefore(r, a)
  <1> SUFFICES ASSUME NEW c \in LineStarts(r), c < a
               PROVE  \E z \in c .. a - 3 : r[z + 1] = "CR" /\ r[z + 2] = "LF" /\ GoodLine(r, c, z)
    BY DEF LinesBefore
  <1>1. c \in 1 .. Len(t) /\ c \in LineStarts(t)
    BY StartsAgree DEF LineStarts
  <1>2. PICK z \in c .. a - 3 : t[z + 1] = "CR" /\ t[z + 2] = "LF" /\ GoodLine(t, c, z)
    BY <1>1 DEF LinesBefore
  <1>3. GoodLine(r, c, z)
    BY <1>1, <1>2, GoodLineAgrees
  <1>4. z + 1 \in 1 .. Len(t) /\ z + 2 \in 1 .. Len(t)
    BY <1>1
  <1>5. r[z + 1] = "CR" /\ r[z + 2] = "LF"
    BY <1>2, <1>4 DEF Agree
  <1> QED BY <1>3, <1>5

\* A line feed ends the line it stands on, and a new one begins.
LEMMA LineEnds ==
    ASSUME NEW t, NEW r, Longer(t, "LF", r), NEW a \in 1 .. Len(t), StartsLine(t, a),
           a # 1 => LinesBefore(t, a),
           t[Len(t)] = "CR", GoodLine(t, a, Len(t) - 1), a <= Len(t) - 1,
           \A i \in a .. Len(t) - 1 : t[i] # "LF"
    PROVE  LinesBefore(r, Len(r) + 1) /\ StartsLine(r, Len(r) + 1)
  <1> DEFINE n == Len(t)
  <1>1. /\ t \in Seq(Classes) /\ r \in Seq(Classes) /\ n \in Nat /\ Len(r) = n + 1
        /\ r[n + 1] = "LF" /\ \A i \in 1 .. n : t[i] = r[i]
        /\ Agree(t, r)
    BY DEF Longer, Agree
  <1> HIDE DEF n
  <1>2. StartsLine(r, Len(r) + 1)
    BY <1>1 DEF StartsLine, n
  <1>3. ASSUME NEW c \in LineStarts(r)
        PROVE  \E z \in c .. n - 1 : r[z + 1] = "CR" /\ r[z + 2] = "LF" /\ GoodLine(r, c, z)
    <2>1. c \in 1 .. n + 1 /\ StartsLine(r, c)
      BY <1>1 DEF LineStarts
    <2>2. CASE c > a
      <3>1. c > 2 /\ r[c - 1] = "LF" BY <2>1, <2>2 DEF StartsLine
      <3>2. c - 1 = n
        BY <1>1, <2>1, <2>2, <3>1 DEF n
      <3> QED BY <1>1, <3>1, <3>2 DEF n
    <2>3. CASE c = a
      <3>1. GoodLine(r, a, n - 1) BY <1>1, GoodLineAgrees DEF n
      <3> QED BY <1>1, <2>3, <3>1 DEF n
    <2>4. CASE c < a
      <3>1. LinesBefore(r, a) BY <1>1, <2>1, <2>4, LinesBeforeAgree
      <3>2. \E z \in c .. a - 3 : r[z + 1] = "CR" /\ r[z + 2] = "LF" /\ GoodLine(r, c, z)
        BY <2>4, <3>1 DEF LinesBefore
      <3> QED BY <1>1, <3>2 DEF n
    <2> QED BY <2>1, <2>2, <2>3, <2>4
  <1> QED BY <1>1, <1>2, <1>3 DEF LinesBefore

\* A line behind the first goes on as the state does.
LEMMA HeaderLineStep ==
    ASSUME NEW s \in Steps, NEW b \in s[2], NEW t, NEW r, Longer(t, b, r),
           s[1] \in HeaderLine, s[1] # "expecting_newline_2",
           NEW a \in 2 .. Len(t) + 1, HeaderLineSoFar(s[1], t, a),
           s[1] = "header_line_start" /\ b \in Blanks => \E p \in HeaderStarts(t) : p < a
    PROVE  s[3] \in HeaderLine /\ HeaderLineSoFar(s[3], r, a)
  <1> DEFINE n == Len(t)
  <1>1. /\ t \in Seq(Classes) /\ r \in Seq(Classes) /\ n \in Nat /\ Len(r) = n + 1
        /\ r[n + 1] = b /\ \A i \in 1 .. n : t[i] = r[i]
        /\ Agree(t, r) /\ a \in 2 .. n + 1
    BY DEF Longer, Agree
  <1> HIDE DEF n
  <1>2. CASE s[1] = "header_line_start"
    <2>1. a = n + 1 BY <1>2 DEF HeaderLineSoFar, n
    <2>2. CASE b = "CR" /\ s[3] = "expecting_newline_3"
      BY <1>1, <2>1, <2>2 DEF HeaderLineSoFar, HeaderLine
    <2>3. CASE b \in Blanks /\ s[3] = "header_lws"
      <3>1. Over(r, a, n + 1, Blanks) BY <1>1, <2>1, <2>3 DEF Over
      <3>2. PICK p \in HeaderStarts(t) : p < a BY <1>2, <2>3
      <3>3. p \in HeaderStarts(r) BY <1>1, StartsAgree
      <3>4. Over(r, n + 2, n + 1, ValueBytes) BY <1>1 DEF Over
      <3>5. IsContinuation(r, a, n + 1) BY <1>1, <2>1, <3>1, <3>2, <3>3, <3>4 DEF IsContinuation
      <3> QED BY <1>1, <2>1, <2>3, <3>1, <3>5 DEF HeaderLineSoFar, HeaderLine
    <2>4. CASE b \in NameBytes /\ s[3] = "header_name"
      <3>1. Over(r, a, n + 1, NameBytes) BY <1>1, <2>1, <2>4 DEF Over
      <3> QED BY <1>1, <2>1, <2>4, <3>1 DEF HeaderLineSoFar, HeaderLine
    <2> QED BY <1>2, <2>2, <2>3, <2>4, HeaderTable
  <1>3. CASE s[1] = "header_lws"
    <2>1. a <= n /\ Over(t, a, n, Blanks) /\ IsContinuation(t, a, n)
      BY <1>3 DEF HeaderLineSoFar, n
    <2>2. IsContinuation(r, a, n) BY <1>1, <2>1, ContinuationAgrees DEF n
    <2>3. \E p \in HeaderStarts(r) : p < a BY <2>2 DEF IsContinuation
    <2>4. Over(r, a, n, Blanks) BY <1>1, <2>1, OverAgrees DEF n
    <2>5. CASE b = "CR" /\ s[3] = "expecting_newline_2"
      BY <1>1, <2>2, <2>5 DEF HeaderLineSoFar, HeaderLine
    <2>6. CASE b \in Blanks /\ s[3] = "header_lws"
      <3>1. Over(r, a, n + 1, Blanks) BY <1>1, <2>1, <2>6, OverMore DEF n
      <3>2. Over(r, n + 2, n + 1, ValueBytes) BY <1>1 DEF Over
      <3>3. n + 2 \in a + 1 .. n + 2 /\ n + 2 - 1 = n + 1 /\ ~(n + 2 <= n + 1) BY <1>1
      <3>4. IsContinuation(r, a, n + 1) BY <1>1, <2>3, <3>1, <3>2, <3>3 DEF IsContinuation
      <3> QED BY <1>1, <2>1, <2>6, <3>1, <3>4 DEF HeaderLineSoFar, HeaderLine
    <2>7. CASE b \in ValueBytes \ Blanks /\ s[3] = "header_value"
      <3>1. Over(r, n + 1, n + 1, ValueBytes) BY <1>1, <2>7 DEF Over
      <3>2. n + 1 \in a + 1 .. n + 2 /\ n + 1 - 1 = n BY <1>1, <2>1
      <3>3. IsContinuation(r, a, n + 1)
        BY <1>1, <2>3, <2>4, <2>7, <3>1, <3>2 DEF IsContinuation
      <3>4. \E i \in a .. n + 1 : r[i] \notin Blanks BY <1>1, <2>7
      <3> QED BY <1>1, <2>7, <3>3, <3>4 DEF HeaderLineSoFar, HeaderLine
    <2> QED BY <1>3, <2>5, <2>6, <2>7, HeaderTable
  <1>4. CASE s[1] = "header_name"
    <2>1. a <= n /\ Over(t, a, n, NameBytes) BY <1>4 DEF HeaderLineSoFar, n
    <2>2. CASE b = "colon" /\ s[3] = "space_before_header_value"
      <3>1. Over(r, a, n, NameBytes) BY <1>1, <2>1, OverAgrees DEF n
      <3> QED BY <1>1, <2>1, <2>2, <3>1 DEF HeaderLineSoFar, HeaderLine
    <2>3. CASE b \in NameBytes /\ s[3] = "header_name"
      <3>1. Over(r, a, n + 1, NameBytes) BY <1>1, <2>1, <2>3, OverMore DEF n
      <3> QED BY <1>1, <2>1, <2>3, <3>1 DEF HeaderLineSoFar, HeaderLine
    <2> QED BY <1>4, <2>2, <2>3, HeaderTable
  <1>5. CASE s[1] = "space_before_header_value"
    <2>1. a < n /\ Over(t, a, n - 1, NameBytes) /\ t[n] = "colon"
      BY <1>5 DEF HeaderLineSoFar, n
    <2>2. b = "SP" /\ s[3] = "header_value" BY <1>5, HeaderTable
    <2>3. Over(r, a, n - 1, NameBytes) BY <1>1, <2>1, OverAgrees DEF n
    <2>4. r[n] = "colon" /\ Over(r, n + 2, n + 1, ValueBytes) BY <1>1, <2>1 DEF Over
    <2>5. IsHeaderLine(r, a, n + 1) BY <1>1, <2>1, <2>2, <2>3, <2>4 DEF IsHeaderLine
    <2>6. r[a] \notin Blanks BY <1>1, <2>1, <2>3, ByteClasses DEF Over
    <2> QED BY <1>1, <2>1, <2>2, <2>5, <2>6 DEF HeaderLineSoFar, HeaderLine
  <1>6. CASE s[1] = "header_value"
    <2>1. IsHeaderLine(t, a, n) \/ IsContinuation(t, a, n)
      BY <1>6 DEF HeaderLineSoFar, n
    <2>2. PICK j \in a .. n : t[j] \notin Blanks
      BY <1>6 DEF HeaderLineSoFar, n
    <2>3. IsHeaderLine(r, a, n) \/ IsContinuation(r, a, n)
      BY <1>1, <2>1, HeaderLineAgrees, ContinuationAgrees DEF n
    <2>4. j \in a .. n + 1 /\ r[j] \notin Blanks BY <1>1, <2>2
    <2>5. CASE b = "CR" /\ s[3] = "expecting_newline_2"
      BY <1>1, <2>3, <2>5 DEF HeaderLineSoFar, HeaderLine
    <2>6. CASE b \in ValueBytes /\ s[3] = "header_value"
      <3>1. CASE IsHeaderLine(r, a, n)
        <4>1. PICK c \in a + 1 .. n - 1 :
                /\ Over(r, a, c - 1, NameBytes) /\ r[c] = "colon"
                /\ r[c + 1] = "SP" /\ Over(r, c + 2, n, ValueBytes)
          BY <3>1 DEF IsHeaderLine
        <4>2. Over(r, c + 2, n + 1, ValueBytes) BY <1>1, <2>6, <4>1 DEF Over
        <4>3. IsHeaderLine(r, a, n + 1) BY <1>1, <4>1, <4>2 DEF IsHeaderLine
        <4> QED BY <1>1, <2>4, <2>6, <4>3 DEF HeaderLineSoFar, HeaderLine
      <3>2. CASE IsContinuation(r, a, n)
        <4>1. PICK i \in a + 1 .. n + 1 :
                /\ Over(r, a, i - 1, Blanks) /\ Over(r, i, n, ValueBytes)
                /\ i <= n => r[i] \notin Blanks
          BY <3>2 DEF IsContinuation
        <4>2. i <= n BY <1>1, <2>2, <2>4, <4>1 DEF Over
        <4>3. Over(r, i, n + 1, ValueBytes) BY <1>1, <2>6, <4>1, <4>2 DEF Over
        <4>4. i \in a + 1 .. n + 2 BY <1>1, <4>1
        <4>5. IsContinuation(r, a, n + 1)
          BY <1>1, <3>2, <4>1, <4>2, <4>3, <4>4 DEF IsContinuation
        <4> QED BY <1>1, <2>4, <2>6, <4>5 DEF HeaderLineSoFar, HeaderLine
      <3> QED BY <2>3, <3>1, <3>2
    <2> QED BY <1>6, <2>5, <2>6, HeaderTable
  <1> QED BY <1>2, <1>3, <1>4, <1>5, <1>6, HeaderTable DEF HeaderLine

\* The shape is kept by every step; a blank at the beginning of a line needs a
\* header to continue.
LEMMA ShapeStep ==
    ASSUME NEW s \in Steps, NEW b \in s[2], NEW t, NEW r, Longer(t, b, r), Shape(s[1], t),
           s[1] = "header_line_start" /\ b \in Blanks => HeaderStarts(t) # {}
    PROVE  Shape(s[3], r)
  <1> DEFINE n == Len(t)
  <1>1. /\ t \in Seq(Classes) /\ r \in Seq(Classes) /\ n \in Nat /\ Len(r) = n + 1
        /\ Agree(t, r)
    BY DEF Longer
  <1> HIDE DEF n
  <1>2. ASSUME b = "LF", s[3] = "header_line_start",
               LinesBefore(r, Len(r) + 1), StartsLine(r, Len(r) + 1)
        PROVE  Shape(s[3], r)
    <2>1. Len(r) + 1 \in 2 .. Len(r) + 1 BY <1>1
    <2>2. HeaderLineSoFar(s[3], r, Len(r) + 1) BY <1>2 DEF HeaderLineSoFar
    <2> QED BY <1>2, <2>1, <2>2 DEF Shape, HeaderLine
  <1>3. CASE s[1] = "expecting_newline_1"
    <2>1. b = "LF" /\ s[3] = "header_line_start" BY <1>3, RequestLineTable
    <2>2. n >= 1 /\ t[n] = "CR" /\ IsRequestLine(t, n - 1)
      BY <1>3 DEF Shape, RequestLineSoFar, HeaderLine, n
    <2>3. n - 1 >= 1 /\ \A i \in 1 .. n - 1 : t[i] # "LF"
      BY <1>1, <2>2, RequestLineIsOneLine DEF n
    <2>4. StartsLine(t, 1) /\ GoodLine(t, 1, n - 1) /\ 1 \in 1 .. n
      BY <1>1, <2>2 DEF StartsLine, GoodLine
    <2>5. LinesBefore(r, Len(r) + 1) /\ StartsLine(r, Len(r) + 1)
      BY <2>1, <2>2, <2>3, <2>4, LineEnds DEF n
    <2> QED BY <1>2, <2>1, <2>5
  <1>4. CASE s[1] \in FirstLine /\ s[1] # "expecting_newline_1"
    <2>1. RequestLineSoFar(s[1], t) BY <1>4 DEF Shape, FirstLine, HeaderLine
    <2>2. s[3] \in FirstLine BY <1>4, RequestLineTable DEF FirstLine
    <2> QED BY <1>4, <2>1, <2>2, RequestLineStep DEF Shape
  <1>5. CASE s[1] \in HeaderLine
    <2>1. PICK a \in 2 .. n + 1 :
            StartsLine(t, a) /\ LinesBefore(t, a) /\ HeaderLineSoFar(s[1], t, a)
      BY <1>5 DEF Shape, FirstLine, HeaderLine, n
    <2>2. CASE s[1] = "expecting_newline_2"
      <3>1. b = "LF" /\ s[3] = "header_line_start" BY <2>2, HeaderTable
      <3>2. t[n] = "CR" /\ (IsHeaderLine(t, a, n - 1) \/ IsContinuation(t, a, n - 1))
        BY <2>1, <2>2 DEF HeaderLineSoFar, n
      <3>3. n - 1 \in 0 .. n /\ a \in Nat \ {0} BY <1>1, <2>1
      <3>4. a <= n - 1 /\ \A i \in a .. n - 1 : t[i] # "LF"
        BY <1>1, <3>2, <3>3, HeaderLineIsOneLine DEF n
      <3>5. GoodLine(t, a, n - 1) /\ a \in 1 .. n
        BY <2>1, <3>2, <3>4, <1>1 DEF GoodLine
      <3>6. LinesBefore(r, Len(r) + 1) /\ StartsLine(r, Len(r) + 1)
        BY <2>1, <3>1, <3>2, <3>4, <3>5, LineEnds DEF n
      <3> QED BY <1>2, <3>1, <3>6
    <2>3. CASE s[1] # "expecting_newline_2"
      <3>1. s[1] = "header_line_start" /\ b \in Blanks => \E p \in HeaderStarts(t) : p < a
        <4> SUFFICES ASSUME s[1] = "header_line_start", b \in Blanks
                     PROVE  \E p \in HeaderStarts(t) : p < a
          OBVIOUS
        <4>1. a = n + 1 BY <2>1 DEF HeaderLineSoFar, n
        <4>2. HeaderStarts(t) \subseteq 1 .. n BY DEF HeaderStarts, LineStarts, n
        <4>3. PICK p \in HeaderStarts(t) : TRUE OBVIOUS
        <4> QED BY <1>1, <4>1, <4>2, <4>3
      <3>2. s[3] \in HeaderLine /\ HeaderLineSoFar(s[3], r, a)
        BY <1>5, <2>1, <2>3, <3>1, HeaderLineStep DEF n
      <3>3. StartsLine(r, a) /\ LinesBefore(r, a)
        BY <1>1, <2>1, StartsAgree, LinesBeforeAgree DEF n
      <3>4. a \in 2 .. Len(r) + 1 BY <1>1, <2>1
      <3> QED BY <3>2, <3>3, <3>4 DEF Shape
    <2> QED BY <2>2, <2>3
  <1> QED BY <1>3, <1>4, <1>5 DEF Shape

\* The blank line ends a request.
LEMMA EmptyLineEnds ==
    ASSUME NEW t, NEW r, Longer(t, "LF", r), Shape("expecting_newline_3", t)
    PROVE  IsRequest(r)
  <1> DEFINE n == Len(t)
  <1>1. /\ t \in Seq(Classes) /\ r \in Seq(Classes) /\ n \in Nat /\ Len(r) = n + 1
        /\ r[n + 1] = "LF" /\ \A i \in 1 .. n : t[i] = r[i]
        /\ Agree(t, r)
    BY DEF Longer, Agree
  <1> HIDE DEF n
  <1>2. /\ n >= 2 /\ t[n] = "CR" /\ StartsLine(t, n) /\ LinesBefore(t, n)
    <2>1. PICK a \in 2 .. n + 1 :
            /\ StartsLine(t, a) /\ LinesBefore(t, a)
            /\ HeaderLineSoFar("expecting_newline_3", t, a)
      BY DEF Shape, FirstLine, n
    <2>2. a = n /\ t[n] = "CR" BY <2>1 DEF HeaderLineSoFar, n
    <2> QED BY <1>1, <2>1, <2>2
  <1>3. LinesBefore(r, n) BY <1>1, <1>2, LinesBeforeAgree DEF n
  <1>4. ASSUME NEW c \in LineStarts(r)
        PROVE  \E z \in c - 1 .. Len(r) - 2 :
                /\ r[z + 1] = "CR" /\ r[z + 2] = "LF"
                /\ \/ c = 1 /\ IsRequestLine(r, z) /\ z + 2 < Len(r)
                   \/ c # 1 /\ (IsHeaderLine(r, c, z) \/ IsContinuation(r, c, z)) /\ z + 2 < Len(r)
                   \/ c # 1 /\ z = c - 1 /\ z + 2 = Len(r)
    <2>1. c \in 1 .. n + 1 /\ StartsLine(r, c) BY <1>1 DEF LineStarts
    <2>2. c # n + 1 BY <1>1, <1>2, <2>1 DEF StartsLine
    <2>3. CASE c = n
      <3>1. n - 1 \in c - 1 .. Len(r) - 2 BY <1>1, <2>3
      <3>2. r[n - 1 + 1] = "CR" /\ r[n - 1 + 2] = "LF" BY <1>1, <1>2
      <3> QED BY <1>1, <1>2, <2>3, <3>1, <3>2
    <2>4. CASE c < n
      <3>1. PICK z \in c .. n - 3 : r[z + 1] = "CR" /\ r[z + 2] = "LF" /\ GoodLine(r, c, z)
        BY <1>3, <2>4 DEF LinesBefore
      <3>2. z \in c - 1 .. Len(r) - 2 /\ z + 2 < Len(r) BY <1>1, <2>1, <3>1
      <3> QED BY <3>1, <3>2 DEF GoodLine
    <2> QED BY <1>1, <2>1, <2>2, <2>3, <2>4
  <1>5. r # <<>> BY <1>1
  <1> QED BY <1>4, <1>5 DEF IsRequest

-----------------------------------------------------------------------------
(* No byte a request goes on with is refused                                 *)

Offers(st, b) == \E s \in Steps : s[1] = st /\ b \in s[2]

\* An entry of the table offers its bytes.
LEMMA Offered ==
    ASSUME NEW st, NEW B, NEW to, NEW part, <<st, B, to, part>> \in Steps, NEW b \in B
    PROVE  Offers(st, b)
  <1> DEFINE s == <<st, B, to, part>>
  <1>1. s[1] = st /\ b \in s[2] OBVIOUS
  <1> QED BY <1>1 DEF Offers

\* The table read the other way: the bytes a state has an entry for.
LEMMA RequestLineOffers ==
    ASSUME NEW b
    PROVE  /\ b \in NameBytes => Offers("method_start", b) /\ Offers("method", b)
           /\ b = "SP" => Offers("method", b) /\ Offers("uri", b)
           /\ b \in UriBytes => Offers("uri", b)
           /\ b = "H" => Offers("http_version_h", b)
           /\ b = "T" => Offers("http_version_t_1", b) /\ Offers("http_version_t_2", b)
           /\ b = "P" => Offers("http_version_p", b)
           /\ b = "slash" => Offers("http_version_slash", b)
           /\ b = "digit" => Offers("http_version_major_start", b) /\ Offers("http_version_major", b)
           /\ b = "dot" => Offers("http_version_major", b)
           /\ b = "digit" => Offers("http_version_minor_start", b) /\ Offers("http_version_minor", b)
           /\ b = "CR" => Offers("http_version_minor", b)
  <1>1. /\ <<"method_start", NameBytes, "method", "method">> \in Steps
        /\ <<"method", {"SP"}, "uri", "none">> \in Steps
        /\ <<"method", NameBytes, "method", "method">> \in Steps
        /\ <<"uri", {"SP"}, "http_version_h", "none">> \in Steps
        /\ <<"uri", ValueBytes \ {"SP"}, "uri", "uri">> \in Steps
        /\ <<"http_version_h", {"H"}, "http_version_t_1", "none">> \in Steps
        /\ <<"http_version_t_1", {"T"}, "http_version_t_2", "none">> \in Steps
        /\ <<"http_version_t_2", {"T"}, "http_version_p", "none">> \in Steps
        /\ <<"http_version_p", {"P"}, "http_version_slash", "none">> \in Steps
        /\ <<"http_version_slash", {"slash"}, "http_version_major_start", "none">> \in Steps
        /\ <<"http_version_major_start", {"digit"}, "http_version_major", "none">> \in Steps
        /\ <<"http_version_major", {"dot"}, "http_version_minor_start", "none">> \in Steps
        /\ <<"http_version_major", {"digit"}, "http_version_major", "none">> \in Steps
        /\ <<"http_version_minor_start", {"digit"}, "http_version_minor", "none">> \in Steps
        /\ <<"http_version_minor", {"CR"}, "expecting_newline_1", "none">> \in Steps
        /\ <<"http_version_minor", {"digit"}, "http_version_minor", "none">> \in Steps
    BY ByteSets DEF Steps, RequestLineSteps
  <1> QED BY <1>1, Offered DEF UriBytes

LEMMA HeaderOffers ==
    ASSUME NEW b
    PROVE  /\ b = "LF" => Offers("expecting_newline_1", b)
           /\ b = "CR" \/ b \in Blanks \/ b \in NameBytes => Offers("header_line_start", b)
           /\ b = "CR" \/ b \in Blanks \/ b \in ValueBytes => Offers("header_lws", b)
           /\ b = "colon" \/ b \in NameBytes => Offers("header_name", b)
           /\ b = "SP" => Offers("space_before_header_value", b)
           /\ b = "CR" \/ b \in ValueBytes => Offers("header_value", b)
           /\ b = "LF" => Offers("expecting_newline_2", b)
  <1>1. /\ <<"expecting_newline_1", {"LF"}, "header_line_start", "none">> \in Steps
        /\ <<"header_line_start", {"CR"}, "expecting_newline_3", "none">> \in Steps
        /\ <<"header_line_start", Blanks, "header_lws", "none">> \in Steps
        /\ <<"header_line_start", NameBytes, "header_name", "header">> \in Steps
        /\ <<"header_lws", {"CR"}, "expecting_newline_2", "none">> \in Steps
        /\ <<"header_lws", Blanks, "header_lws", "none">> \in Steps
        /\ <<"header_lws", ValueBytes \ Blanks, "header_value", "value">> \in Steps
        /\ <<"header_name", {"colon"}, "space_before_header_value", "none">> \in Steps
        /\ <<"header_name", NameBytes, "header_name", "name">> \in Steps
        /\ <<"space_before_header_value", {"SP"}, "header_value", "none">> \in Steps
        /\ <<"header_value", {"CR"}, "expecting_newline_2", "none">> \in Steps
        /\ <<"header_value", ValueBytes, "header_value", "value">> \in Steps
        /\ <<"expecting_newline_2", {"LF"}, "header_line_start", "none">> \in Steps
    BY ByteSets DEF Steps, HeaderSteps
  <1>2. \A c \in ValueBytes : c \in Blanks \/ c \in ValueBytes \ Blanks OBVIOUS
  <1> QED BY <1>1, <1>2, Offered

\* A text has one request line.
LEMMA OneUri ==
    ASSUME NEW q \in Seq(Classes), NEW u \in Nat, NEW v \in Nat, UriTo(q, u), UriTo(q, v)
    PROVE  u = v
  <1>1. PICK m \in 2 .. u - 1 : MethodTo(q, m) /\ Over(q, m + 1, u - 1, UriBytes) /\ q[u] = "SP"
    BY DEF UriTo
  <1>2. PICK k \in 2 .. v - 1 : MethodTo(q, k) /\ Over(q, k + 1, v - 1, UriBytes) /\ q[v] = "SP"
    BY DEF UriTo
  <1>3. m = k
    BY <1>1, <1>2, ByteClasses DEF MethodTo, Over
  <1> QED BY <1>1, <1>2, <1>3, ByteClasses DEF Over

\* ... one method and one uri in it.
LEMMA OneMethod ==
    ASSUME NEW q \in Seq(Classes), NEW m \in Nat, NEW k \in Nat, MethodTo(q, m), MethodTo(q, k)
    PROVE  m = k
  BY ByteClasses DEF MethodTo, Over

\* The request line of q goes on where its beginning t stops.
LEMMA RequestLineGoesOn ==
    ASSUME NEW t \in Seq(Classes), NEW q \in Seq(Classes), Agree(t, q), Len(t) < Len(q),
           NEW z \in 1 .. Len(q) - 2, IsRequestLine(q, z), q[z + 1] = "CR", q[z + 2] = "LF",
           NEW st \in FirstLine, RequestLineSoFar(st, t)
    PROVE  Offers(st, q[Len(t) + 1])
  <1> DEFINE n == Len(t)
             b == q[n + 1]
  <1>1. n \in Nat /\ n + 1 \in 1 .. Len(q) /\ (\A i \in 1 .. n : t[i] = q[i])
    BY DEF Agree
  <1>2. PICK u \in 1 .. z, d \in 1 .. z :
            /\ UriTo(q, u) /\ Protocol(q, u, 5)
            /\ u + 6 < d /\ Over(q, u + 6, d - 1, {"digit"})
            /\ q[d] = "dot"
            /\ d < z /\ Over(q, d + 1, z, {"digit"})
    BY DEF IsRequestLine
  <1>3. PICK m \in 2 .. u - 1 : MethodTo(q, m) /\ Over(q, m + 1, u - 1, UriBytes) /\ q[u] = "SP"
    BY <1>2 DEF UriTo
  <1>4. q[m] = "SP" /\ Over(q, 1, m - 1, NameBytes)
    BY <1>3 DEF MethodTo
  <1> SUFFICES Offers(st, b)
    OBVIOUS
  <1> HIDE DEF n, b
  <1>5. CASE st = "method_start"
    <2>1. n = 0 BY <1>5 DEF RequestLineSoFar, n
    <2>2. b \in NameBytes BY <1>3, <1>4, <2>1 DEF Over, b
    <2> QED BY <1>5, <2>2, RequestLineOffers
  <1>6. CASE st = "method"
    <2>1. Over(q, 1, n, NameBytes) BY <1>1, <1>6, OverAgrees DEF RequestLineSoFar, n
    <2>2. n < m BY <1>1, <1>3, <1>4, <2>1, ByteClasses DEF Over
    <2>3. b = "SP" \/ b \in NameBytes BY <1>1, <1>3, <1>4, <2>2 DEF Over, b
    <2> QED BY <1>6, <2>3, RequestLineOffers
  <1>7. CASE st = "uri"
    <2>1. PICK k \in 2 .. n : MethodTo(t, k) /\ Over(t, k + 1, n, UriBytes)
      BY <1>7 DEF RequestLineSoFar, n
    <2>2. k = m BY <1>1, <1>3, <2>1, MethodAgrees, OneMethod DEF n
    <2>3. Over(q, m + 1, n, UriBytes) BY <1>1, <2>1, <2>2, OverAgrees DEF n
    <2>4. n < u BY <1>1, <1>3, <2>3, ByteClasses DEF Over
    <2>5. b = "SP" \/ b \in UriBytes BY <1>1, <1>3, <2>1, <2>2, <2>4 DEF Over, b
    <2> QED BY <1>7, <2>5, RequestLineOffers
  <1>8. ASSUME NEW k \in 0 .. 5, InProtocol(t, k)
        PROVE  n = u + k
    <2>1. PICK v \in 1 .. n : UriTo(t, v) /\ n = v + k BY <1>8 DEF InProtocol, n
    <2>2. v = u BY <1>1, <1>2, <2>1, UriAgrees, OneUri DEF n
    <2> QED BY <2>1, <2>2
  <1>9. /\ q[u + 1] = "H" /\ q[u + 2] = "T" /\ q[u + 3] = "T" /\ q[u + 4] = "P"
        /\ q[u + 5] = "slash" /\ q[u + 6] = "digit"
    BY <1>2 DEF Protocol, Over
  <1>10. CASE st \in {"http_version_h", "http_version_t_1", "http_version_t_2",
                     "http_version_p", "http_version_slash", "http_version_major_start"}
    <2>1. st = "http_version_h" => b = "H" BY <1>1, <1>8, <1>9 DEF RequestLineSoFar, b
    <2>2. st = "http_version_t_1" => b = "T" BY <1>1, <1>8, <1>9 DEF RequestLineSoFar, b
    <2>3. st = "http_version_t_2" => b = "T" BY <1>1, <1>8, <1>9 DEF RequestLineSoFar, b
    <2>4. st = "http_version_p" => b = "P" BY <1>1, <1>8, <1>9 DEF RequestLineSoFar, b
    <2>5. st = "http_version_slash" => b = "slash" BY <1>1, <1>8, <1>9 DEF RequestLineSoFar, b
    <2>6. st = "http_version_major_start" => b = "digit"
      BY <1>1, <1>8, <1>9 DEF RequestLineSoFar, b
    <2> QED BY <1>10, <2>1, <2>2, <2>3, <2>4, <2>5, <2>6, RequestLineOffers
  <1>11. CASE st = "http_version_major"
    <2>1. PICK v \in 1 .. n : UriTo(t, v) /\ v + 6 <= n /\ Over(t, v + 6, n, {"digit"})
      BY <1>11 DEF RequestLineSoFar, n
    <2>2. v = u BY <1>1, <1>2, <2>1, UriAgrees, OneUri DEF n
    <2>3. Over(q, u + 6, n, {"digit"}) BY <1>1, <2>1, <2>2, OverAgrees DEF n
    <2>4. n < d BY <1>1, <1>2, <2>3 DEF Over
    <2>5. b = "digit" \/ b = "dot" BY <1>1, <1>2, <2>1, <2>2, <2>4 DEF Over, b
    <2> QED BY <1>11, <2>5, RequestLineOffers
  <1>12. CASE st = "http_version_minor_start"
    <2>1. PICK v \in 1 .. n :
            UriTo(t, v) /\ v + 6 < n /\ Over(t, v + 6, n - 1, {"digit"}) /\ t[n] = "dot"
      BY <1>12 DEF RequestLineSoFar, n
    <2>2. v = u BY <1>1, <1>2, <2>1, UriAgrees, OneUri DEF n
    <2>3. Over(q, u + 6, n - 1, {"digit"}) /\ q[n] = "dot"
      BY <1>1, <2>1, <2>2, OverAgrees DEF n
    <2>4. n = d BY <1>1, <1>2, <2>1, <2>2, <2>3 DEF Over
    <2>5. b = "digit" BY <1>1, <1>2, <2>4 DEF Over, b
    <2> QED BY <1>12, <2>5, RequestLineOffers
  <1>13. CASE st = "http_version_minor"
    <2>1. IsRequestLine(q, n) BY <1>1, <1>13, RequestLineAgrees DEF RequestLineSoFar, n
    <2>2. n < z + 1 BY <1>1, <2>1, RequestLineIsOneLine
    <2>3. PICK v \in 1 .. n, e \in 1 .. n :
            /\ UriTo(q, v) /\ v + 6 < e /\ Over(q, v + 6, e - 1, {"digit"})
            /\ q[e] = "dot" /\ e < n
      BY <2>1 DEF IsRequestLine
    <2>4. v = u BY <1>2, <2>3, OneUri
    <2>5. e = d BY <1>1, <1>2, <2>3, <2>4 DEF Over
    <2>6. CASE n = z
      <3>1. b = "CR" BY <2>6 DEF b
      <3> QED BY <1>13, <3>1, RequestLineOffers
    <2>7. CASE n < z
      <3>1. n + 1 \in d + 1 .. z BY <1>1, <2>3, <2>5, <2>7
      <3>2. b = "digit" BY <1>2, <3>1 DEF Over, b
      <3> QED BY <1>13, <3>2, RequestLineOffers
    <2> QED BY <1>1, <2>2, <2>6, <2>7
  <1>14. CASE st = "expecting_newline_1"
    <2>1. n >= 1 /\ t[n] = "CR" /\ IsRequestLine(t, n - 1) BY <1>14 DEF RequestLineSoFar, n
    <2>2. IsRequestLine(q, n - 1) /\ q[n] = "CR" BY <1>1, <2>1, RequestLineAgrees DEF n
    <2>3. \A i \in 1 .. n - 1 : q[i] \notin {"CR", "LF"}
      <3>1. n - 1 \in 0 .. Len(q) BY <1>1, <2>1
      <3> QED BY <2>2, <3>1, RequestLineIsOneLine
    <2>4. \A i \in 1 .. z : q[i] \notin {"CR", "LF"} BY RequestLineIsOneLine
    <2>5. z + 1 = n BY <1>1, <2>1, <2>2, <2>3, <2>4
    <2>6. b = "LF" BY <2>5 DEF b
    <2> QED BY <1>14, <2>6, HeaderOffers
  <1> QED BY <1>5, <1>6, <1>7, <1>10, <1>11, <1>12, <1>13, <1>14 DEF FirstLine

\* What a line behind the first one begins with, and where its colon is.
LEMMA LineBegins ==
    ASSUME NEW q \in Seq(Classes), NEW a \in Nat \ {0}, NEW z \in 0 .. Len(q)
    PROVE  /\ IsHeaderLine(q, a, z) => a <= z /\ q[a] \in NameBytes
           /\ IsContinuation(q, a, z) => a <= z /\ q[a] \in Blanks
  BY DEF IsHeaderLine, IsContinuation, Over

\* A line behind the first one of q goes on where its beginning t stops.
LEMMA HeaderLineGoesOn ==
    ASSUME NEW t \in Seq(Classes), NEW q \in Seq(Classes), Agree(t, q), Len(t) < Len(q),
           NEW a \in 2 .. Len(t) + 1, NEW z \in a - 1 .. Len(q) - 2,
           q[z + 1] = "CR", q[z + 2] = "LF",
           \/ IsHeaderLine(q, a, z) \/ IsContinuation(q, a, z)
           \/ z = a - 1,
           NEW st \in HeaderLine, HeaderLineSoFar(st, t, a)
    PROVE  \/ st = "expecting_newline_3" /\ q[Len(t) + 1] = "LF"
           \/ /\ Offers(st, q[Len(t) + 1])
              /\ st = "header_line_start" /\ q[Len(t) + 1] \in Blanks => HeaderStarts(t) # {}
  <1> DEFINE n == Len(t)
             b == q[n + 1]
  <1>1. /\ n \in Nat /\ n + 1 \in 1 .. Len(q) /\ (\A i \in 1 .. n : t[i] = q[i])
        /\ a \in 2 .. n + 1 /\ a \in 1 .. Len(t) + 1 /\ z \in 0 .. Len(q) /\ a \in Nat \ {0} /\ z \in Nat
    BY DEF Agree
  <1>2. /\ IsHeaderLine(q, a, z) => a <= z /\ q[a] \in NameBytes
        /\ IsContinuation(q, a, z) => a <= z /\ q[a] \in Blanks
        /\ z = a - 1 => q[a] = "CR"
    BY <1>1, LineBegins
  <1>3. IsHeaderLine(q, a, z) \/ IsContinuation(q, a, z) =>
            \A i \in a .. z : q[i] \notin {"CR", "LF"}
    BY <1>1, HeaderLineIsOneLine
  <1> SUFFICES \/ st = "expecting_newline_3" /\ b = "LF"
               \/ /\ Offers(st, b)
                  /\ st = "header_line_start" /\ b \in Blanks => HeaderStarts(t) # {}
    OBVIOUS
  <1> HIDE DEF n, b
  <1>4. CASE st = "header_line_start"
    <2>1. a = n + 1 /\ b = q[a] BY <1>4 DEF HeaderLineSoFar, n, b
    <2>2. b = "CR" \/ b \in Blanks \/ b \in NameBytes BY <1>2, <2>1
    <2>3. b \in Blanks => HeaderStarts(t) # {}
      <3> SUFFICES ASSUME b \in Blanks PROVE HeaderStarts(t) # {}
        OBVIOUS
      <3>1. IsContinuation(q, a, z) BY <1>2, <2>1, ByteClasses
      <3>2. PICK p \in HeaderStarts(q) : p < a BY <3>1 DEF IsContinuation
      <3>3. p \in 1 .. Len(t) BY <1>1, <2>1, <3>2 DEF HeaderStarts, LineStarts, n
      <3> QED BY <3>2, <3>3, StartsAgree
    <2> QED BY <1>4, <2>2, <2>3, HeaderOffers
  <1>5. CASE st = "header_lws"
    <2>1. a <= n /\ Over(q, a, n, Blanks)
      BY <1>1, <1>5, OverAgrees DEF HeaderLineSoFar, n
    <2>2. q[a] \in Blanks BY <1>1, <2>1 DEF Over
    <2>3. IsContinuation(q, a, z) BY <1>2, <2>2, ByteClasses
    <2>4. n < z + 1 BY <1>1, <1>2, <2>1, <2>3, ByteClasses DEF Over
    <2>5. PICK i \in a + 1 .. z + 1 : Over(q, a, i - 1, Blanks) /\ Over(q, i, z, ValueBytes)
      BY <2>3 DEF IsContinuation
    <2>6. b = "CR" \/ b \in Blanks \/ b \in ValueBytes
      <3>1. n = z \/ n + 1 \in a .. i - 1 \/ n + 1 \in i .. z BY <1>1, <2>1, <2>4, <2>5
      <3> QED BY <2>5, <3>1 DEF Over, b
    <2> QED BY <1>5, <2>6, HeaderOffers
  <1>6. CASE st = "header_name"
    <2>1. a <= n /\ Over(q, a, n, NameBytes)
      BY <1>1, <1>6, OverAgrees DEF HeaderLineSoFar, n
    <2>2. q[a] \in NameBytes BY <1>1, <2>1 DEF Over
    <2>3. IsHeaderLine(q, a, z) BY <1>2, <2>2, ByteClasses
    <2>4. PICK c \in a + 1 .. z - 1 : Over(q, a, c - 1, NameBytes) /\ q[c] = "colon"
      BY <2>3 DEF IsHeaderLine
    <2>5. n < c BY <1>1, <2>1, <2>4, ByteClasses DEF Over
    <2>6. b = "colon" \/ b \in NameBytes
      <3>1. n + 1 = c \/ n + 1 \in a .. c - 1 BY <1>1, <2>1, <2>5
      <3> QED BY <2>4, <3>1 DEF Over, b
    <2> QED BY <1>6, <2>6, HeaderOffers
  <1>7. CASE st = "space_before_header_value"
    <2>1. a < n /\ Over(q, a, n - 1, NameBytes) /\ q[n] = "colon"
      BY <1>1, <1>7, OverAgrees DEF HeaderLineSoFar, n
    <2>2. q[a] \in NameBytes BY <1>1, <2>1 DEF Over
    <2>3. IsHeaderLine(q, a, z) BY <1>2, <2>2, ByteClasses
    <2>4. PICK c \in a + 1 .. z - 1 :
            Over(q, a, c - 1, NameBytes) /\ q[c] = "colon" /\ q[c + 1] = "SP"
      BY <2>3 DEF IsHeaderLine
    <2>5. c = n BY <1>1, <2>1, <2>4, ByteClasses DEF Over
    <2>6. b = "SP" BY <2>4, <2>5 DEF b
    <2> QED BY <1>7, <2>6, HeaderOffers
  <1>8. CASE st = "header_value"
    <2>1. IsHeaderLine(q, a, n) \/ IsContinuation(q, a, n)
      BY <1>1, <1>8, HeaderLineAgrees, ContinuationAgrees DEF HeaderLineSoFar, n
    <2>2. PICK j \in a .. n : q[j] \notin Blanks
      BY <1>1, <1>8 DEF HeaderLineSoFar, n
    <2>3. n \in 0 .. Len(q) BY <1>1
    <2>4. a <= n /\ \A i \in a .. n : q[i] \notin {"CR", "LF"}
      BY <1>1, <2>1, <2>3, HeaderLineIsOneLine
    <2>5. n < z + 1 /\ z # a - 1 BY <1>1, <1>2, <2>4
    <2>6. CASE n = z
      <3>1. b = "CR" BY <2>6 DEF b
      <3> QED BY <1>8, <3>1, HeaderOffers
    <2>7. CASE n < z /\ IsHeaderLine(q, a, n)
      <3>1. PICK c \in a + 1 .. n - 1 : Over(q, a, c - 1, NameBytes) /\ q[c] = "colon"
        BY <2>7 DEF IsHeaderLine
      <3>2. q[a] \in NameBytes BY <1>1, <3>1 DEF Over
      <3>3. IsHeaderLine(q, a, z) BY <1>2, <3>2, ByteClasses
      <3>4. PICK d \in a + 1 .. z - 1 :
              /\ Over(q, a, d - 1, NameBytes) /\ q[d] = "colon" /\ Over(q, d + 2, z, ValueBytes)
        BY <3>3 DEF IsHeaderLine
      <3>5. c = d BY <3>1, <3>4, ByteClasses DEF Over
      <3>6. n + 1 \in d + 2 .. z BY <1>1, <2>7, <3>1, <3>5
      <3>7. b \in ValueBytes BY <3>4, <3>6 DEF Over, b
      <3> QED BY <1>8, <3>7, HeaderOffers
    <2>8. CASE n < z /\ IsContinuation(q, a, n)
      <3>1. q[a] \in Blanks BY <1>1, <2>3, <2>8, LineBegins
      <3>2. IsContinuation(q, a, z) BY <1>2, <3>1, ByteClasses
      <3>3. PICK i \in a + 1 .. z + 1 : Over(q, a, i - 1, Blanks) /\ Over(q, i, z, ValueBytes)
        BY <3>2 DEF IsContinuation
      <3>4. i <= j BY <2>2, <3>3 DEF Over
      <3>5. n + 1 \in i .. z BY <1>1, <2>8, <3>3, <3>4
      <3>6. b \in ValueBytes BY <3>3, <3>5 DEF Over, b
      <3> QED BY <1>8, <3>6, HeaderOffers
    <2> QED BY <1>1, <2>1, <2>5, <2>6, <2>7, <2>8
  <1>9. CASE st = "expecting_newline_2"
    <2>1. t[n] = "CR" /\ (IsHeaderLine(t, a, n - 1) \/ IsContinuation(t, a, n - 1))
      BY <1>9 DEF HeaderLineSoFar, n
    <2>2. n - 1 \in 0 .. Len(t) BY <1>1 DEF n
    <2>3. a <= n - 1 /\ \A i \in a .. n - 1 : t[i] \notin {"CR", "LF"}
      BY <1>1, <2>1, <2>2, HeaderLineIsOneLine
    <2>4. q[n] = "CR" /\ \A i \in a .. n - 1 : q[i] \notin {"CR", "LF"} BY <1>1, <2>1, <2>3
    <2>5. z # a - 1 BY <1>1, <1>2, <2>3, <2>4
    <2>6. z + 1 = n BY <1>1, <1>2, <1>3, <2>3, <2>4, <2>5
    <2>7. b = "LF" BY <2>6 DEF b
    <2> QED BY <1>9, <2>7, HeaderOffers
  <1>10. CASE st = "expecting_newline_3"
    <2>1. a = n /\ q[a] = "CR" BY <1>1, <1>10 DEF HeaderLineSoFar, n
    <2>2. z = a - 1 BY <1>2, <2>1, ByteClasses
    <2>3. b = "LF" BY <1>1, <2>1, <2>2 DEF b
    <2> QED BY <1>10, <2>3
  <1> QED BY <1>4, <1>5, <1>6, <1>7, <1>8, <1>9, <1>10 DEF HeaderLine

\* Where a request stops, the parser goes on.
LEMMA RequestGoesOn ==
    ASSUME NEW t \in Seq(Classes), NEW q \in Seq(Classes), Agree(t, q), Len(t) < Len(q),
           IsRequest(q), NEW st, Shape(st, t)
    PROVE  \/ st = "expecting_newline_3" /\ q[Len(t) + 1] = "LF"
           \/ /\ Offers(st, q[Len(t) + 1])
              /\ st = "header_line_start" /\ q[Len(t) + 1] \in Blanks => HeaderStarts(t) # {}
  <1>1. Len(t) \in Nat /\ Len(q) \in Nat /\ 1 \in 1 .. Len(q)
    OBVIOUS
  <1>2. CASE st \in FirstLine
    <2>1. 1 \in LineStarts(q) BY <1>1 DEF LineStarts, StartsLine
    <2>2. PICK z \in 0 .. Len(q) - 2 : q[z + 1] = "CR" /\ q[z + 2] = "LF" /\ IsRequestLine(q, z)
      BY <2>1 DEF IsRequest
    <2>3. z \in 0 .. Len(q) BY <1>1
    <2>4. z \in 1 .. Len(q) - 2 BY <1>1, <2>2, <2>3, RequestLineIsOneLine
    <2>5. RequestLineSoFar(st, t) BY <1>2 DEF Shape, FirstLine, HeaderLine
    <2>6. st # "header_line_start" BY <1>2 DEF FirstLine
    <2> QED BY <1>2, <2>2, <2>4, <2>5, <2>6, RequestLineGoesOn
  <1>3. CASE st \in HeaderLine
    <2>1. PICK a \in 2 .. Len(t) + 1 : StartsLine(t, a) /\ HeaderLineSoFar(st, t, a)
      BY <1>3 DEF Shape, FirstLine, HeaderLine
    <2>2. a \in LineStarts(q) /\ a # 1
      <3>1. StartsLine(q, a) BY <2>1, StartsAgree
      <3> QED BY <1>1, <3>1 DEF LineStarts
    <2>3. PICK z \in a - 1 .. Len(q) - 2 :
            /\ q[z + 1] = "CR" /\ q[z + 2] = "LF"
            /\ \/ IsHeaderLine(q, a, z) \/ IsContinuation(q, a, z)
               \/ z = a - 1
      BY <2>2 DEF IsRequest
    <2> QED BY <1>3, <2>1, <2>3, HeaderLineGoesOn
  <1> QED BY <1>2, <1>3 DEF Shape

-----------------------------------------------------------------------------
(* Ranks, and what is spelt at a set of positions when the text grows        *)

\* A rank is one of 1 .. Cardinality, the last one that of the greatest.
LEMMA Ranks ==
    ASSUME NEW n \in Nat, NEW P \in SUBSET (1 .. n)
    PROVE  /\ IsFiniteSet(P) /\ Cardinality(P) \in Nat
           /\ \A i \in P : Rank(P, i) \in 1 .. Cardinality(P)
           /\ \A i \in P : Rank(P, i) = Cardinality(P) <=> \A j \in P : j <= i
  <1>1. IsFiniteSet(P)
    <2>1. IsFiniteSet(1 .. n) BY FS_Interval
    <2> QED BY <2>1, FS_Subset
  <1>2. Cardinality(P) \in Nat BY <1>1, FS_CardinalityType
  <1>3. ASSUME NEW i \in P
        PROVE  /\ Rank(P, i) \in 1 .. Cardinality(P)
               /\ Rank(P, i) = Cardinality(P) <=> \A j \in P : j <= i
    <2> DEFINE T == {j \in P : j <= i}
    <2>1. T \in SUBSET P /\ i \in T OBVIOUS
    <2>2. /\ IsFiniteSet(T) /\ Cardinality(T) <= Cardinality(P)
          /\ Cardinality(P) = Cardinality(T) => P = T
      BY <1>1, <2>1, FS_Subset
    <2>3. Cardinality(T) \in Nat /\ Cardinality(T) # 0
      BY <2>1, <2>2, FS_CardinalityType, FS_EmptySet
    <2>4. P = T <=> \A j \in P : j <= i OBVIOUS
    <2>5. Rank(P, i) = Cardinality(T) BY DEF Rank
    <2> HIDE DEF T
    <2> QED BY <1>2, <2>2, <2>3, <2>4, <2>5
  <1> QED BY <1>1, <1>2, <1>3

\* P without what is behind n.
LEMMA RanksGrow ==
    ASSUME NEW n \in Nat, NEW P \in SUBSET (1 .. n), NEW R \in SUBSET (1 .. n + 1),
           \A i \in 1 .. n : i \in P <=> i \in R
    PROVE  /\ \A i \in P : Rank(R, i) = Rank(P, i)
           /\ n + 1 \in R => /\ R = P \union {n + 1} /\ Cardinality(R) = Cardinality(P) + 1
                             /\ Rank(R, n + 1) = Cardinality(P) + 1
           /\ n + 1 \notin R => R = P
  <1>1. /\ \A j : j \in P => j \in 1 .. n
        /\ \A j : j \in R => j \in 1 .. n \/ j = n + 1
        /\ \A j \in 1 .. n : j \in Nat /\ j < n + 1 /\ ~(n + 1 <= j)
    <2>1. \A j \in 1 .. n + 1 : j \in 1 .. n \/ j = n + 1 OBVIOUS
    <2>2. \A j \in 1 .. n : j \in Nat /\ j < n + 1 /\ ~(n + 1 <= j) OBVIOUS
    <2>3. \A j : j \in R => j \in 1 .. n + 1 OBVIOUS
    <2>4. \A j : j \in P => j \in 1 .. n OBVIOUS
    <2> QED BY <2>1, <2>2, <2>3, <2>4
  <1>2. ASSUME NEW i \in P PROVE Rank(R, i) = Rank(P, i)
    <2>1. i \in 1 .. n /\ ~(n + 1 <= i) BY <1>1
    <2>2. ASSUME NEW j PROVE (j \in R /\ j <= i) <=> (j \in P /\ j <= i)
      <3>1. j \in P => j \in R BY <1>1
      <3>2. j \in R /\ j <= i => j \in P BY <1>1, <2>1
      <3> QED BY <3>1, <3>2
    <2>3. {j \in R : j <= i} = {j \in P : j <= i} BY <2>2
    <2> QED BY <2>3 DEF Rank
  <1>3. ASSUME n + 1 \in R
        PROVE  /\ R = P \union {n + 1} /\ Cardinality(R) = Cardinality(P) + 1
               /\ Rank(R, n + 1) = Cardinality(P) + 1
    <2>1. n + 1 \notin 1 .. n OBVIOUS
    <2>2. \A j : j \in R <=> j \in P \/ j = n + 1 BY <1>1, <1>3
    <2>3. R = P \union {n + 1} /\ n + 1 \notin P BY <1>1, <2>1, <2>2
    <2>4. Cardinality(R) = Cardinality(P) + 1 BY <2>3, Ranks, FS_AddElement
    <2>5. \A j \in R : j <= n + 1 BY <1>1
    <2>6. {j \in R : j <= n + 1} = R BY <2>5
    <2> QED BY <2>3, <2>4, <2>6 DEF Rank
  <1>4. n + 1 \notin R => R = P
    <2> SUFFICES ASSUME n + 1 \notin R PROVE R = P
      OBVIOUS
    <2>1. \A j : j \in R <=> j \in P BY <1>1
    <2> QED BY <2>1
  <1> QED BY <1>2, <1>3, <1>4

\* One position more, one byte more.
LEMMA SpellsOn ==
    ASSUME NEW t, NEW b, NEW r, Longer(t, b, r), NEW w \in Seq(Classes),
           NEW P \in SUBSET (1 .. Len(t)), NEW R \in SUBSET (1 .. Len(t) + 1),
           \A i \in 1 .. Len(t) : i \in P <=> i \in R,
           Spells(w, t, P)
    PROVE  IF Len(t) + 1 \in R THEN Spells(Append(w, b), r, R) ELSE Spells(w, r, R)
  <1>1. /\ t \in Seq(Classes) /\ b \in Classes /\ Len(t) \in Nat /\ r[Len(t) + 1] = b
        /\ \A i \in 1 .. Len(t) : t[i] = r[i]
    BY DEF Longer, Agree
  <1>2. Len(w) = Cardinality(P) /\ \A i \in P : w[Rank(P, i)] = t[i]
    BY DEF Spells
  <1>3. \A i \in P : Rank(R, i) = Rank(P, i) /\ Rank(P, i) \in 1 .. Cardinality(P)
    <2>1. \A i \in P : Rank(P, i) \in 1 .. Cardinality(P) BY <1>1, Ranks
    <2>2. \A i \in P : Rank(R, i) = Rank(P, i) BY <1>1, RanksGrow
    <2> QED BY <2>1, <2>2
  <1>4. ASSUME Len(t) + 1 \in R PROVE Spells(Append(w, b), r, R)
    <2>1. /\ R = P \union {Len(t) + 1} /\ Cardinality(R) = Cardinality(P) + 1
          /\ Rank(R, Len(t) + 1) = Cardinality(P) + 1
      BY <1>1, <1>4, RanksGrow
    <2> DEFINE v == Append(w, b)
    <2>2. /\ Len(v) = Len(w) + 1 /\ v[Len(w) + 1] = b
          /\ \A k \in 1 .. Len(w) : v[k] = w[k]
      BY <1>1
    <2> HIDE DEF v
    <2>3. \A i \in P : v[Rank(R, i)] = r[i] BY <1>1, <1>2, <1>3, <2>2
    <2>4. v[Rank(R, Len(t) + 1)] = r[Len(t) + 1] BY <1>1, <1>2, <2>1, <2>2
    <2>5. Spells(v, r, R) BY <1>2, <2>1, <2>2, <2>3, <2>4 DEF Spells
    <2> QED BY <2>5 DEF v
  <1>5. ASSUME Len(t) + 1 \notin R PROVE Spells(w, r, R)
    <2>1. R = P BY <1>1, <1>5, RanksGrow
    <2> QED BY <1>1, <1>2, <2>1 DEF Spells
  <1> QED BY <1>4, <1>5

LEMMA SpellsNothing == \A t : Spells(<<>>, t, {})
  BY FS_EmptySet DEF Spells

\* One byte alone.
LEMMA SpellsOne ==
    ASSUME NEW r, NEW k \in Nat, NEW b, r[k] = b
    PROVE  Spells(<<b>>, r, {k})
  <1>1. Cardinality({k}) = 1 BY FS_Singleton
  <1>2. {j \in {k} : j <= k} = {k} OBVIOUS
  <1> QED BY <1>1, <1>2 DEF Spells, Rank

-----------------------------------------------------------------------------
(* What is read at the new byte's position                                   *)

\* What was read at a position is read there still.
LEMMA PositionsAgree ==
    ASSUME NEW t \in Seq(Classes), NEW r \in Seq(Classes), Agree(t, r)
    PROVE  /\ MethodAt(t) \subseteq 1 .. Len(t)
           /\ UriAt(t) \subseteq 1 .. Len(t)
           /\ HeaderStarts(t) \subseteq 1 .. Len(t)
           /\ \A i \in 1 .. Len(t) : i \in MethodAt(t) <=> i \in MethodAt(r)
           /\ \A i \in 1 .. Len(t) : i \in UriAt(t) <=> i \in UriAt(r)
           /\ \A i \in 1 .. Len(t) : i \in HeaderStarts(t) <=> i \in HeaderStarts(r)
           /\ \A i \in 1 .. Len(t) : i \in Indentation(t) <=> i \in Indentation(r)
  <1>1. /\ DOMAIN t = 1 .. Len(t) /\ DOMAIN r = 1 .. Len(r) /\ Len(t) \in Nat /\ Len(r) \in Nat
        /\ Len(t) <= Len(r) /\ \A i \in 1 .. Len(t) : t[i] = r[i]
    BY DEF Agree
  <1>2. MethodAt(t) \subseteq 1 .. Len(t) BY <1>1 DEF MethodAt
  <1>3. UriAt(t) \subseteq 1 .. Len(t) BY <1>1 DEF UriAt
  <1>4. HeaderStarts(t) \subseteq 1 .. Len(t) BY DEF HeaderStarts, LineStarts
  <1>5. ASSUME NEW i \in 1 .. Len(t)
        PROVE  /\ i \in MethodAt(t) <=> i \in MethodAt(r)
               /\ i \in UriAt(t) <=> i \in UriAt(r)
    <2>1. i \in DOMAIN t /\ i \in DOMAIN r /\ \A j \in 1 .. i : t[j] = r[j] BY <1>1
    <2>2. i \in MethodAt(t) <=> i \in MethodAt(r) BY <2>1 DEF MethodAt
    <2>3. \A j \in 1 .. i - 1 : t[j] = r[j] BY <2>1
    <2>4. t[i] = r[i] BY <1>1
    <2>5. i \in UriAt(t) <=> i \in UriAt(r) BY <2>1, <2>3, <2>4 DEF UriAt
    <2> QED BY <2>2, <2>5
  <1>6. ASSUME NEW i \in 1 .. Len(t)
        PROVE  i \in Indentation(t) <=> i \in Indentation(r)
    <2>1. i \in DOMAIN t /\ i \in DOMAIN r BY <1>1
    <2>2. \A a \in 1 .. i : /\ a \in LineStarts(t) <=> a \in LineStarts(r)
                            /\ Over(t, a, i, Blanks) <=> Over(r, a, i, Blanks)
      BY <1>1, StartsAgree, OverAgrees
    <2>3. LineStarts(t) \subseteq Nat \ {0} /\ LineStarts(r) \subseteq Nat \ {0}
      BY DEF LineStarts
    <2>4. \A a : a \in Nat \ {0} /\ a <= i => a \in 1 .. i OBVIOUS
    <2> QED BY <2>1, <2>2, <2>3, <2>4 DEF Indentation
  <1> QED BY <1>2, <1>3, <1>4, <1>5, <1>6, StartsAgree

\* The same of the name and the value of a header that has begun.
LEMMA HeaderPositionsAgree ==
    ASSUME NEW t, NEW b, NEW r, Longer(t, b, r), NEW p \in HeaderStarts(t)
    PROVE  /\ NameAt(t, p) \subseteq 1 .. Len(t) /\ NameAt(r, p) \subseteq 1 .. Len(t) + 1
           /\ ValueAt(t, p) \subseteq 1 .. Len(t) /\ ValueAt(r, p) \subseteq 1 .. Len(t) + 1
           /\ \A i \in 1 .. Len(t) : i \in NameAt(t, p) <=> i \in NameAt(r, p)
           /\ \A i \in 1 .. Len(t) : i \in ValueAt(t, p) <=> i \in ValueAt(r, p)
  <1>1. /\ t \in Seq(Classes) /\ r \in Seq(Classes) /\ Len(t) \in Nat /\ Len(r) = Len(t) + 1
        /\ Agree(t, r) /\ \A i \in 1 .. Len(t) : t[i] = r[i]
    BY DEF Longer, Agree
  <1>2. p \in 1 .. Len(t) BY <1>1, PositionsAgree
  <1>3. /\ NameAt(t, p) \subseteq 1 .. Len(t) /\ NameAt(r, p) \subseteq 1 .. Len(t) + 1
        /\ ValueAt(t, p) \subseteq 1 .. Len(t) /\ ValueAt(r, p) \subseteq 1 .. Len(t) + 1
    BY <1>1, <1>2 DEF NameAt, ValueAt
  <1>4. ASSUME NEW i \in 1 .. Len(t)
        PROVE  /\ i \in NameAt(t, p) <=> i \in NameAt(r, p)
               /\ i \in ValueAt(t, p) <=> i \in ValueAt(r, p)
    <2>1. i \in p .. Len(t) <=> i \in p .. Len(r) BY <1>1, <1>2
    <2>2. \A j \in p .. i : t[j] = r[j] BY <1>1, <1>2
    <2>3. i \in NameAt(t, p) <=> i \in NameAt(r, p) BY <2>1, <2>2 DEF NameAt
    <2>4. (\A q \in HeaderStarts(t) : q <= p \/ i < q) <=> (\A q \in HeaderStarts(r) : q <= p \/ i < q)
      <3>1. \A q \in HeaderStarts(r) : q \in HeaderStarts(t) \/ i < q
        <4>1. \A q \in HeaderStarts(r) : q \in 1 .. Len(t) \/ i < q
          BY <1>1 DEF HeaderStarts, LineStarts
        <4> QED BY <1>1, <4>1, PositionsAgree
      <3> QED BY <1>1, <3>1, StartsAgree
    <2>5. (\E c \in p .. i - 2 : t[c] = "colon") <=> (\E c \in p .. i - 2 : r[c] = "colon")
      <3>1. \A c \in p .. i - 2 : t[c] = r[c] BY <1>1, <1>2
      <3> QED BY <3>1
    <2>6. t[i] = r[i] /\ (i \in Indentation(t) <=> i \in Indentation(r))
      BY <1>1, PositionsAgree
    <2>7. i \in ValueAt(t, p) <=> i \in ValueAt(r, p)
      BY <2>1, <2>4, <2>5, <2>6 DEF ValueAt
    <2> QED BY <2>3, <2>7
  <1> QED BY <1>3, <1>4

\* What the byte is pushed to.
LEMMA PartTable ==
    ASSUME NEW s \in Steps
    PROVE  /\ s[4] = "method" => s[1] \in {"method_start", "method"}
           /\ s[4] = "uri" => s[1] \in {"uri_start", "uri"}
           /\ s[4] = "header" => s[1] = "header_line_start" /\ s[3] = "header_name"
           /\ s[4] = "name" => s[1] = "header_name"
           /\ s[4] = "value" => s[1] \in {"header_lws", "header_value"}
           /\ s[4] \in {"none", "method", "uri", "header", "name", "value"}
           /\ s[3] \in InHeader => s[1] \in InHeader \union {"header_line_start"}
           /\ s[1] \in InHeader => s[1] \in HeaderLine
  BY SMTT(60) DEF Steps, RequestLineSteps, HeaderSteps, InHeader, HeaderLine

\* The spaces of the request line, with one byte more.
LEMMA SpacesStep ==
    ASSUME NEW s \in Steps, NEW b \in s[2], NEW t, NEW r, Longer(t, b, r),
           Shape(s[1], t), Spaces(s[1], t)
    PROVE  Spaces(s[3], r)
  <1>1. /\ Len(t) \in Nat /\ Len(r) = Len(t) + 1 /\ r[Len(t) + 1] = b
        /\ \A i \in 1 .. Len(t) : t[i] = r[i]
    BY DEF Longer, Agree
  <1>2. s[1] \in FirstLine \union HeaderLine BY DEF Shape
  <1>3. CASE s[1] \in {"method_start", "method"}
    <2>1. \A i \in 1 .. Len(t) : r[i] # "SP" BY <1>1, <1>3 DEF Spaces
    <2>2. CASE s[3] = "method" /\ b # "SP"
      <3>1. \A i \in 1 .. Len(r) : r[i] # "SP" BY <1>1, <2>1, <2>2
      <3> QED BY <2>2, <3>1 DEF Spaces
    <2>3. CASE s[3] = "uri" /\ b = "SP"
      <3>1. Len(t) + 1 \in 1 .. Len(r) /\ r[Len(t) + 1] = "SP" BY <1>1, <2>3
      <3>2. \A i \in 1 .. Len(r) : r[i] = "SP" => i = Len(t) + 1 BY <1>1, <2>1
      <3> QED BY <2>3, <3>1, <3>2 DEF Spaces
    <2> QED BY <1>3, <2>2, <2>3, RequestLineTable, ByteClasses
  <1>4. CASE s[1] = "uri"
    <2>1. PICK m \in 1 .. Len(t) : t[m] = "SP" /\ \A i \in 1 .. Len(t) : t[i] = "SP" => i = m
      BY <1>4 DEF Spaces
    <2>2. m \in 1 .. Len(r) /\ r[m] = "SP" BY <1>1, <2>1
    <2>3. CASE s[3] = "uri" /\ b # "SP"
      <3>1. \A i \in 1 .. Len(r) : r[i] = "SP" => i = m BY <1>1, <2>1, <2>3
      <3> QED BY <2>2, <2>3, <3>1 DEF Spaces
    <2>4. CASE s[3] = "http_version_h" /\ b = "SP"
      <3>1. Len(t) + 1 \in 1 .. Len(r) /\ m < Len(t) + 1 /\ r[Len(t) + 1] = "SP"
        BY <1>1, <2>1, <2>4
      <3> QED BY <2>2, <2>4, <3>1 DEF Spaces
    <2> QED BY <1>4, <2>3, <2>4, RequestLineTable, ByteClasses
  <1>5. CASE s[1] \notin {"method_start", "method", "uri"}
    <2>1. PICK m, u \in 1 .. Len(t) : m < u /\ t[m] = "SP" /\ t[u] = "SP"
      BY <1>5 DEF Spaces
    <2>2. m \in 1 .. Len(r) /\ u \in 1 .. Len(r) /\ r[m] = "SP" /\ r[u] = "SP" BY <1>1, <2>1
    <2>3. s[3] \notin {"method_start", "method", "uri"}
      BY <1>2, <1>5, RequestLineTable, HeaderTable DEF FirstLine, HeaderLine
    <2> QED BY <2>1, <2>2, <2>3 DEF Spaces
  <1> QED BY <1>3, <1>4, <1>5

\* The bytes of the method and of the uri are those pushed to them.
LEMMA RequestLinePositions ==
    ASSUME NEW s \in Steps, NEW b \in s[2], NEW t, NEW r, Longer(t, b, r),
           Shape(s[1], t), Spaces(s[1], t)
    PROVE  /\ Len(t) + 1 \in MethodAt(r) <=> s[4] = "method"
           /\ Len(t) + 1 \in UriAt(r) <=> s[4] = "uri"
  <1> DEFINE n == Len(t)
  <1>1. /\ n \in Nat /\ r[n + 1] = b /\ (\A i \in 1 .. n : t[i] = r[i])
        /\ n + 1 \in DOMAIN r /\ n + 1 - 1 = n
        /\ \A i \in 1 .. n + 1 : i = n + 1 \/ i \in 1 .. n
        /\ \A i \in 1 .. n : i \in 1 .. n + 1
    BY DEF Longer, Agree
  <1>2. s[1] \in FirstLine \union HeaderLine BY DEF Shape
  <1>3. /\ n + 1 \in MethodAt(r) <=> (\A j \in 1 .. n : r[j] # "SP") /\ b # "SP"
        /\ n + 1 \in UriAt(r) <=>
                b # "SP" /\ \E m \in 1 .. n : r[m] = "SP" /\ \A j \in 1 .. n : r[j] = "SP" => j = m
    <2>1. n + 1 \in MethodAt(r) <=> (\A j \in 1 .. n : r[j] # "SP") /\ b # "SP"
      BY <1>1 DEF MethodAt
    <2>2. n + 1 \in UriAt(r) <=>
            b # "SP" /\ \E m \in 1 .. n : r[m] = "SP" /\ \A j \in 1 .. n : r[j] = "SP" => j = m
      BY <1>1 DEF UriAt
    <2> QED BY <2>1, <2>2
  <1> HIDE DEF n
  <1>4. CASE s[1] \in {"method_start", "method"}
    <2>1. \A j \in 1 .. n : r[j] # "SP" BY <1>1, <1>4 DEF Spaces, n
    <2>2. s[4] = "method" <=> b # "SP" BY <1>4, RequestLineTable, ByteClasses
    <2>3. s[4] # "uri" BY <1>4, PartTable
    <2> QED BY <1>3, <2>1, <2>2, <2>3 DEF n
  <1>5. CASE s[1] = "uri"
    <2>1. \E m \in 1 .. n : r[m] = "SP" /\ \A j \in 1 .. n : r[j] = "SP" => j = m
      BY <1>1, <1>5 DEF Spaces, n
    <2>2. s[4] = "uri" <=> b # "SP" BY <1>5, RequestLineTable, ByteClasses
    <2>3. s[4] # "method" BY <1>5, PartTable
    <2> QED BY <1>3, <2>1, <2>2, <2>3 DEF n
  <1>6. CASE s[1] \notin {"method_start", "method", "uri"}
    <2>1. \E m, u \in 1 .. n : m < u /\ r[m] = "SP" /\ r[u] = "SP"
      BY <1>1, <1>6 DEF Spaces, n
    <2>2. s[4] # "method" /\ s[4] # "uri"
      BY <1>2, <1>6, PartTable DEF FirstLine, HeaderLine
    <2>3. ~(\A j \in 1 .. n : r[j] # "SP") BY <2>1
    <2>4. ~(\E m \in 1 .. n : r[m] = "SP" /\ \A j \in 1 .. n : r[j] = "SP" => j = m)
      BY <1>1, <2>1
    <2> QED BY <1>3, <2>2, <2>3, <2>4 DEF n
  <1> QED BY <1>4, <1>5, <1>6

\* The headers that begin in a text, with one byte more.
LEMMA HeadersGrow ==
    ASSUME NEW t, NEW b, NEW r, Longer(t, b, r), NEW begins \in BOOLEAN,
           Len(t) + 1 \in HeaderStarts(r) <=> begins
    PROVE  /\ HeaderStarts(t) \subseteq 1 .. Len(t) /\ HeaderStarts(r) \subseteq 1 .. Len(t) + 1
           /\ \A i \in 1 .. Len(t) : i \in HeaderStarts(t) <=> i \in HeaderStarts(r)
           /\ ~begins => HeaderStarts(r) = HeaderStarts(t)
           /\ begins => HeaderStarts(r) = HeaderStarts(t) \union {Len(t) + 1}
  <1> DEFINE n == Len(t)
  <1>1. /\ t \in Seq(Classes) /\ r \in Seq(Classes) /\ n \in Nat /\ Len(r) = n + 1 /\ Agree(t, r)
    BY DEF Longer
  <1>2. /\ HeaderStarts(t) \subseteq 1 .. n /\ HeaderStarts(r) \subseteq 1 .. n + 1
        /\ \A i \in 1 .. n : i \in HeaderStarts(t) <=> i \in HeaderStarts(r)
    BY <1>1, PositionsAgree DEF HeaderStarts, LineStarts
  <1>3. \A i \in 1 .. n + 1 : i = n + 1 \/ i \in 1 .. n BY <1>1
  <1> HIDE DEF n
  <1>4. ~begins => HeaderStarts(r) = HeaderStarts(t)
    <2> SUFFICES ASSUME ~begins, NEW i PROVE i \in HeaderStarts(r) <=> i \in HeaderStarts(t)
      OBVIOUS
    <2> QED BY <1>2, <1>3 DEF n
  <1>5. begins => HeaderStarts(r) = HeaderStarts(t) \union {n + 1}
    <2> SUFFICES ASSUME begins, NEW i
                 PROVE  i \in HeaderStarts(r) <=> i \in HeaderStarts(t) \/ i = n + 1
      OBVIOUS
    <2> QED BY <1>2, <1>3 DEF n
  <1> QED BY <1>2, <1>4, <1>5 DEF n

\* A header begins where one is pushed.
LEMMA HeaderBegins ==
    ASSUME NEW s \in Steps, NEW b \in s[2], NEW t, NEW r, Longer(t, b, r),
           Shape(s[1], t), Ending(s[1], t)
    PROVE  /\ Len(t) + 1 \in HeaderStarts(r) <=> s[4] = "header"
           /\ s[1] = "header_line_start" => Len(t) + 1 \in LineStarts(r)
           /\ s[4] = "header" => b \in NameBytes
           /\ HeaderStarts(t) \subseteq 1 .. Len(t) /\ HeaderStarts(r) \subseteq 1 .. Len(t) + 1
           /\ \A i \in 1 .. Len(t) : i \in HeaderStarts(t) <=> i \in HeaderStarts(r)
           /\ s[4] # "header" => HeaderStarts(r) = HeaderStarts(t)
           /\ s[4] = "header" => HeaderStarts(r) = HeaderStarts(t) \union {Len(t) + 1}
  <1> DEFINE n == Len(t)
  <1>1. /\ t \in Seq(Classes) /\ r \in Seq(Classes)
        /\ n \in Nat /\ r[n + 1] = b /\ (\A i \in 1 .. n : t[i] = r[i])
        /\ Len(r) = n + 1 /\ n + 1 \in 1 .. Len(r) /\ Agree(t, r)
    BY DEF Longer, Agree
  <1>2. s[1] \in FirstLine \union HeaderLine /\ s[1] # "expecting_newline_3"
    BY HeaderTable DEF Shape
  <1>3. /\ HeaderStarts(t) \subseteq 1 .. n /\ HeaderStarts(r) \subseteq 1 .. n + 1
        /\ \A i \in 1 .. n : i \in HeaderStarts(t) <=> i \in HeaderStarts(r)
    BY <1>1, PositionsAgree DEF HeaderStarts, LineStarts
  <1> HIDE DEF n
  <1>4. ASSUME s[1] = "header_line_start"
        PROVE  /\ n + 1 \in HeaderStarts(r) <=> s[4] = "header"
               /\ s[1] = "header_line_start" => n + 1 \in LineStarts(r)
               /\ s[4] = "header" => b \in NameBytes
    <2>1. n >= 2 /\ r[n - 1] = "CR" /\ r[n] = "LF" BY <1>1, <1>4 DEF Ending, n
    <2>2. n + 1 \in LineStarts(r)
      BY <1>1, <2>1 DEF LineStarts, StartsLine
    <2>3. n + 1 \in HeaderStarts(r) <=> b \notin Blanks \union {"CR"}
      BY <1>1, <2>1, <2>2 DEF HeaderStarts
    <2>4. s[4] = "header" <=> b \notin Blanks \union {"CR"}
      BY <1>4, HeaderTable, ByteClasses
    <2>5. s[4] = "header" => b \in NameBytes BY <1>4, HeaderTable
    <2> QED BY <1>4, <2>2, <2>3, <2>4, <2>5
  <1>5. ASSUME s[1] # "header_line_start"
        PROVE  /\ n + 1 \in HeaderStarts(r) <=> s[4] = "header"
               /\ s[1] = "header_line_start" => n + 1 \in LineStarts(r)
               /\ s[4] = "header" => b \in NameBytes
    <2>1. n = 0 \/ t[n] # "LF"
      BY <1>1, <1>2, <1>5 DEF Ending, LineStates, AfterCR, n
    <2>2. n + 1 \notin HeaderStarts(r)
      BY <1>1, <2>1 DEF HeaderStarts, LineStarts, StartsLine
    <2>3. s[4] # "header" BY <1>5, PartTable
    <2> QED BY <1>5, <2>2, <2>3
  <1>6. n + 1 \in HeaderStarts(r) <=> s[4] = "header" BY <1>4, <1>5
  <1>7. (s[4] = "header") \in BOOLEAN OBVIOUS
  <1>8. /\ s[4] # "header" => HeaderStarts(r) = HeaderStarts(t)
        /\ s[4] = "header" => HeaderStarts(r) = HeaderStarts(t) \union {n + 1}
    BY <1>6, <1>7, HeadersGrow DEF n
  <1> QED BY <1>3, <1>4, <1>5, <1>8 DEF n

\* A colon stays, and a new byte may be one.
LEMMA ColonAgrees ==
    ASSUME NEW t, NEW b, NEW r, Longer(t, b, r), NEW p \in Nat \ {0}, NEW z \in Int, z <= Len(t)
    PROVE  /\ Colon(t, p, z) <=> Colon(r, p, z)
           /\ p <= Len(t) + 1 => (Colon(r, p, Len(t) + 1) <=> Colon(t, p, Len(t)) \/ b = "colon")
  <1>1. /\ Len(t) \in Nat /\ r[Len(t) + 1] = b /\ \A i \in 1 .. Len(t) : t[i] = r[i]
    BY DEF Longer, Agree
  <1>2. Colon(t, p, z) <=> Colon(r, p, z) BY <1>1 DEF Colon
  <1>3. ASSUME p <= Len(t) + 1
        PROVE  Colon(r, p, Len(t) + 1) <=> Colon(t, p, Len(t)) \/ b = "colon"
    <2>1. \A c \in p .. Len(t) + 1 : c = Len(t) + 1 \/ c \in p .. Len(t) BY <1>1
    <2>2. \A c \in p .. Len(t) : c \in p .. Len(t) + 1 /\ t[c] = r[c] BY <1>1
    <2>3. Len(t) + 1 \in p .. Len(t) + 1 BY <1>1, <1>3
    <2> QED BY <1>1, <2>1, <2>2, <2>3 DEF Colon
  <1> QED BY <1>2, <1>3

\* The headers' colons, with one byte more.
LEMMA ColonsStep ==
    ASSUME NEW s \in Steps, NEW b \in s[2], NEW t, NEW r, Longer(t, b, r),
           Shape(s[1], t), Ending(s[1], t), Colons(s[1], t),
           s[1] = "header_line_start" /\ b \in Blanks => HeaderStarts(t) # {}
    PROVE  Colons(s[3], r)
  <1> DEFINE n == Len(t)
  <1>1. /\ n \in Nat /\ Len(r) = n + 1 /\ r[n + 1] = b /\ \A i \in 1 .. n : t[i] = r[i]
    BY DEF Longer, Agree
  <1>2. /\ s[4] = "header" => b \in NameBytes /\ HeaderStarts(r) = HeaderStarts(t) \union {n + 1}
                                /\ s[1] = "header_line_start" /\ s[3] = "header_name"
        /\ s[4] # "header" => HeaderStarts(r) = HeaderStarts(t)
        /\ HeaderStarts(t) \subseteq 1 .. n
    BY HeaderBegins, PartTable
  <1> HIDE DEF n
  <1>3. CASE HeaderStarts(t) = {} /\ s[1] \notin InHeader
    <2>1. CASE s[4] = "header"
      <3>1. HeaderStarts(r) = {n + 1} BY <1>2, <1>3, <2>1
      <3>2. ~Colon(r, n + 1, n + 1)
        <4>1. \A c \in n + 1 .. n + 1 : r[c] = b BY <1>1
        <4> QED BY <1>2, <2>1, <4>1, ByteClasses DEF Colon
      <3>3. LastHeader(s[3], r, n + 1)
        BY <1>1, <1>2, <2>1, <3>1, <3>2 DEF LastHeader, HeaderLine
      <3> QED BY <3>1, <3>3 DEF Colons
    <2>2. CASE s[4] # "header"
      <3>1. HeaderStarts(r) = {} BY <1>2, <1>3, <2>2
      <3>2. s[3] \notin InHeader
        <4> SUFFICES ASSUME s[3] \in InHeader PROVE FALSE
          OBVIOUS
        <4>1. s[1] = "header_line_start" BY <1>3, PartTable
        <4>2. s[3] # "expecting_newline_3" BY DEF InHeader
        <4> QED BY <1>3, <2>2, <4>1, <4>2, HeaderTable
      <3> QED BY <3>1, <3>2 DEF Colons
    <2> QED BY <2>1, <2>2
  <1>4. CASE \E l \in HeaderStarts(t) : LastHeader(s[1], t, l)
    <2>1. PICK l \in HeaderStarts(t) : LastHeader(s[1], t, l) BY <1>4
    <2>2. /\ \A q \in HeaderStarts(t) : q <= l /\ (q # l => Colon(t, q, l - 1))
          /\ s[1] \in HeaderLine
      BY <2>1 DEF LastHeader
    <2>3. l \in 1 .. n /\ \A q \in HeaderStarts(t) : q \in 1 .. n BY <1>2
    <2>4. CASE s[4] = "header"
      <3>1. Colon(t, l, n - 1) BY <1>2, <2>1, <2>4 DEF LastHeader, n
      <3>2. ~Colon(r, n + 1, n + 1)
        <4>1. \A c \in n + 1 .. n + 1 : r[c] = b BY <1>1
        <4> QED BY <1>2, <2>4, <4>1, ByteClasses DEF Colon
      <3>3. ASSUME NEW q \in HeaderStarts(r)
            PROVE  q <= n + 1 /\ (q # n + 1 => Colon(r, q, n + 1 - 1))
        <4>1. q = n + 1 \/ q \in HeaderStarts(t) BY <1>2, <2>4
        <4>2. ASSUME q \in HeaderStarts(t) PROVE q <= n + 1 /\ Colon(r, q, n)
          <5>1. q \in 1 .. n BY <2>3, <4>2
          <5>2. Colon(t, q, n) BY <1>1, <2>2, <2>3, <3>1, <4>2, <5>1 DEF Colon
          <5> QED BY <1>1, <5>1, <5>2, ColonAgrees DEF n
        <4> QED BY <1>1, <4>1, <4>2
      <3>4. LastHeader(s[3], r, n + 1)
        BY <1>1, <1>2, <2>4, <3>2, <3>3 DEF LastHeader, HeaderLine
      <3>5. n + 1 \in HeaderStarts(r) BY <1>2, <2>4
      <3> QED BY <3>4, <3>5 DEF Colons
    <2>5. CASE s[4] # "header"
      <3>1. HeaderStarts(r) = HeaderStarts(t) BY <1>2, <2>5
      <3>2. ASSUME NEW q \in HeaderStarts(r) PROVE q <= l /\ (q # l => Colon(r, q, l - 1))
        <4>1. q \in 1 .. n /\ l - 1 \in Int /\ l - 1 <= Len(t) BY <1>1, <2>3, <3>1 DEF n
        <4>2. q \in Nat \ {0} BY <4>1
        <4>3. Colon(t, q, l - 1) <=> Colon(r, q, l - 1) BY <4>1, <4>2, ColonAgrees
        <4> QED BY <2>2, <3>1, <4>3
      <3>3. l \in Nat \ {0} /\ n - 1 \in Int /\ n - 1 <= Len(t) /\ l <= Len(t) + 1 /\ n \in Int
            /\ n <= Len(t)
        BY <1>1, <2>3 DEF n
      <3>4. /\ Colon(t, l, n - 1) <=> Colon(r, l, n - 1)
            /\ Colon(t, l, n) <=> Colon(r, l, n)
            /\ Colon(r, l, n + 1) <=> Colon(t, l, n) \/ b = "colon"
        <4>1. Colon(t, l, n - 1) <=> Colon(r, l, n - 1) BY <3>3, ColonAgrees
        <4>2. Colon(t, l, n) <=> Colon(r, l, n) BY <3>3, ColonAgrees
        <4>3. Colon(r, l, n + 1) <=> Colon(t, l, n) \/ b = "colon" BY <3>3, ColonAgrees DEF n
        <4> QED BY <4>1, <4>2, <4>3
      <3>5. s[3] \in HeaderLine BY <2>2, HeaderTable DEF HeaderLine
      <3>6. CASE s[1] = "header_name"
        <4>1. ~Colon(t, l, n) BY <2>1, <3>6 DEF LastHeader, n
        <4>2. CASE b = "colon" /\ s[3] = "space_before_header_value"
          <5>1. l < n + 1 /\ r[n + 1] = "colon" /\ ~Colon(r, l, n + 1 - 1)
            BY <1>1, <2>3, <3>4, <4>1, <4>2
          <5>2. LastHeader(s[3], r, l) BY <1>1, <3>2, <3>5, <4>2, <5>1 DEF LastHeader
          <5> QED BY <3>1, <5>2 DEF Colons
        <4>3. CASE b # "colon" /\ s[3] = "header_name"
          <5>1. ~Colon(r, l, n + 1) BY <3>4, <4>1, <4>3
          <5>2. LastHeader(s[3], r, l) BY <1>1, <3>2, <3>5, <4>3, <5>1 DEF LastHeader
          <5> QED BY <3>1, <5>2 DEF Colons
        <4> QED BY <3>6, <4>2, <4>3, HeaderTable, ByteClasses
      <3>7. CASE s[1] # "header_name"
        <4>1. Colon(t, l, n)
          <5>1. CASE s[1] = "space_before_header_value"
            <6>1. l < n /\ t[n] = "colon" BY <2>1, <5>1 DEF LastHeader, n
            <6> QED BY <1>1, <2>3, <6>1 DEF Colon
          <5>2. CASE s[1] # "space_before_header_value"
            <6>1. Colon(t, l, n - 1) BY <2>1, <3>7, <5>2 DEF LastHeader, n
            <6> QED BY <1>1, <2>3, <6>1 DEF Colon
          <5> QED BY <5>1, <5>2
        <4>2. s[3] # "header_name" /\ s[3] # "space_before_header_value"
          BY <2>2, <2>5, <3>7, HeaderTable DEF HeaderLine
        <4>3. Colon(r, l, n + 1 - 1) BY <1>1, <3>4, <4>1
        <4>4. LastHeader(s[3], r, l) BY <1>1, <3>2, <3>5, <4>2, <4>3 DEF LastHeader
        <4> QED BY <3>1, <4>4 DEF Colons
      <3> QED BY <3>6, <3>7
    <2> QED BY <2>4, <2>5
  <1> QED BY <1>3, <1>4 DEF Colons

\* The new byte belongs to the name or the value of the last header if it is
\* pushed to them.
LEMMA HeaderPositions ==
    ASSUME NEW s \in Steps, NEW b \in s[2], NEW t, NEW r, Longer(t, b, r),
           Shape(s[1], t), Ending(s[1], t), Colons(s[1], t),
           NEW p \in HeaderStarts(t)
    PROVE  /\ Len(t) + 1 \in NameAt(r, p) <=> s[4] = "name" /\ \A q \in HeaderStarts(t) : q <= p
           /\ Len(t) + 1 \in ValueAt(r, p) <=> s[4] = "value" /\ \A q \in HeaderStarts(t) : q <= p
  <1> DEFINE n == Len(t)
  <1>1. /\ t \in Seq(Classes) /\ r \in Seq(Classes) /\ Agree(t, r)
        /\ n \in Nat /\ Len(r) = n + 1 /\ r[n + 1] = b /\ \A i \in 1 .. n : t[i] = r[i]
    BY DEF Longer, Agree
  <1>2. /\ n + 1 \in HeaderStarts(r) <=> s[4] = "header"
        /\ s[1] = "header_line_start" => n + 1 \in LineStarts(r)
        /\ HeaderStarts(t) \subseteq 1 .. n /\ HeaderStarts(r) \subseteq 1 .. n + 1
        /\ \A i \in 1 .. n : i \in HeaderStarts(t) <=> i \in HeaderStarts(r)
    BY HeaderBegins
  <1>3. PICK l \in HeaderStarts(t) : LastHeader(s[1], t, l)
    BY DEF Colons
  <1>4. /\ \A q \in HeaderStarts(t) : q <= l /\ (q # l => Colon(t, q, l - 1))
        /\ s[1] \in HeaderLine
    BY <1>3 DEF LastHeader
  <1>5. p \in 1 .. n /\ l \in 1 .. n /\ p <= l BY <1>2, <1>4
  <1> HIDE DEF n
  <1>6. (\A q \in HeaderStarts(t) : q <= p) <=> p = l BY <1>1, <1>4, <1>5
  <1>7. n + 1 \in NameAt(r, p) <=> ~Colon(r, p, n + 1)
    <2>1. n + 1 \in p .. Len(r) BY <1>1, <1>5
    <2>2. n + 1 \in NameAt(r, p) <=> \A j \in p .. n + 1 : r[j] # "colon" BY <2>1 DEF NameAt
    <2> QED BY <2>2 DEF Colon
  <1>8. n + 1 \in ValueAt(r, p) <=>
            /\ \A q \in HeaderStarts(r) : q <= p \/ n + 1 < q
            /\ Colon(r, p, n - 1) /\ b \notin {"CR", "LF"} /\ n + 1 \notin Indentation(r)
    <2>1. n + 1 \in p .. Len(r) /\ n + 1 - 2 = n - 1 BY <1>1, <1>5
    <2> QED BY <1>1, <2>1 DEF ValueAt, Colon
  <1>9. CASE p # l
    <2>1. Colon(r, p, n + 1)
      <3>1. Colon(t, p, l - 1) BY <1>4, <1>9
      <3> QED BY <1>1, <1>5, <3>1 DEF Colon
    <2>2. ~(\A q \in HeaderStarts(r) : q <= p \/ n + 1 < q)
      <3>1. l \in HeaderStarts(r) /\ ~(l <= p) /\ ~(n + 1 < l) BY <1>1, <1>2, <1>5, <1>9
      <3> QED BY <3>1
    <2> QED BY <1>6, <1>7, <1>8, <1>9, <2>1, <2>2 DEF n
  <1>10. CASE p = l
    <2>1. (\A q \in HeaderStarts(r) : q <= p \/ n + 1 < q) <=> s[4] # "header"
      <3>1. \A q \in HeaderStarts(r) : q = n + 1 \/ q \in HeaderStarts(t)
        <4>1. \A q \in 1 .. n + 1 : q = n + 1 \/ q \in 1 .. n BY <1>1
        <4> QED BY <1>2, <4>1
      <3> QED BY <1>1, <1>2, <1>4, <1>5, <1>10, <3>1
    <2>2. /\ Colon(t, l, n - 1) <=> Colon(r, l, n - 1)
          /\ Colon(r, l, n + 1) <=> Colon(t, l, n) \/ b = "colon"
          /\ Colon(t, l, n) <=> Colon(t, l, n - 1) \/ t[n] = "colon"
      <3>1. l \in Nat \ {0} /\ n - 1 \in Int /\ n - 1 <= Len(t) /\ l <= Len(t) + 1 /\ n \in Int
            /\ n <= Len(t)
        BY <1>1, <1>5 DEF n
      <3>2. Colon(t, l, n - 1) <=> Colon(r, l, n - 1) BY <3>1, ColonAgrees
      <3>3. Colon(r, l, n + 1) <=> Colon(t, l, n) \/ b = "colon" BY <3>1, ColonAgrees DEF n
      <3>4. Colon(t, l, n) <=> Colon(t, l, n - 1) \/ t[n] = "colon"
        <4>1. \A c \in l .. n : c = n \/ c \in l .. n - 1 BY <1>1, <1>5
        <4>2. \A c \in l .. n - 1 : c \in l .. n BY <1>1, <1>5
        <4>3. n \in l .. n BY <1>1, <1>5
        <4> QED BY <4>1, <4>2, <4>3 DEF Colon
      <3> QED BY <3>2, <3>3, <3>4
    <2>3. CASE s[1] = "header_name"
      <3>1. ~Colon(t, l, n) BY <1>3, <2>3 DEF LastHeader, n
      <3>2. ~Colon(r, l, n - 1) BY <2>2, <3>1
      <3>3. s[4] = "name" <=> b # "colon" BY <2>3, HeaderTable, ByteClasses
      <3>4. s[4] # "value" BY <2>3, PartTable
      <3> QED BY <1>6, <1>7, <1>8, <1>10, <2>2, <3>1, <3>2, <3>3, <3>4 DEF n
    <2>4. CASE s[1] = "space_before_header_value"
      <3>1. t[n] = "colon" /\ ~Colon(t, l, n - 1) BY <1>3, <2>4 DEF LastHeader, n
      <3>2. Colon(r, l, n + 1) /\ ~Colon(r, l, n - 1) BY <2>2, <3>1
      <3>3. s[4] # "name" /\ s[4] # "value" BY <2>4, PartTable
      <3> QED BY <1>6, <1>7, <1>8, <1>10, <3>2, <3>3 DEF n
    <2>5. CASE s[1] \notin {"header_name", "space_before_header_value"}
      <3>1. Colon(t, l, n - 1) BY <1>3, <2>5 DEF LastHeader, n
      <3>2. Colon(r, l, n + 1) /\ Colon(r, l, n - 1) BY <2>2, <3>1
      <3>3. s[4] # "name" BY <2>5, PartTable
      <3>4. s[4] # "header" /\ b \notin {"CR", "LF"} /\ n + 1 \notin Indentation(r) <=> s[4] = "value"
        <4>1. CASE s[1] = "header_line_start"
          <5>1. s[4] # "value" BY <4>1, PartTable
          <5>2. b \in Blanks => n + 1 \in Indentation(r)
            <6> SUFFICES ASSUME b \in Blanks PROVE n + 1 \in Indentation(r)
              OBVIOUS
            <6>1. Over(r, n + 1, n + 1, Blanks) BY <1>1 DEF Over
            <6>2. n + 1 \in LineStarts(r) /\ n + 1 \in DOMAIN r BY <1>1, <1>2, <4>1
            <6> QED BY <1>1, <6>1, <6>2 DEF Indentation
          <5> QED BY <4>1, <5>1, <5>2, HeaderTable
        <4>2. CASE s[1] = "header_lws"
          <5>1. PICK a \in 2 .. n + 1 : StartsLine(t, a) /\ a <= n /\ Over(t, a, n, Blanks)
            BY <4>2 DEF Shape, FirstLine, HeaderLineSoFar, n
          <5>2. b \in Blanks => n + 1 \in Indentation(r)
            <6> SUFFICES ASSUME b \in Blanks PROVE n + 1 \in Indentation(r)
              OBVIOUS
            <6>1. Over(r, a, n + 1, Blanks) BY <1>1, <5>1, OverMore DEF n
            <6>2. a \in LineStarts(r)
              <7>1. StartsLine(r, a) BY <1>1, <5>1, StartsAgree DEF n
              <7> QED BY <1>1, <5>1, <7>1 DEF LineStarts
            <6>3. n + 1 \in DOMAIN r /\ a <= n + 1 BY <1>1, <5>1
            <6> QED BY <6>1, <6>2, <6>3 DEF Indentation
          <5>3. b \notin Blanks => n + 1 \notin Indentation(r)
            <6>1. \A c \in LineStarts(r) : c \in Nat BY DEF LineStarts
            <6> QED BY <1>1, <6>1 DEF Indentation, Over
          <5> QED BY <4>2, <5>2, <5>3, HeaderTable, ByteClasses
        <4>3. CASE s[1] = "header_value"
          <5>1. PICK a \in 2 .. n + 1 :
                  /\ StartsLine(t, a) /\ (IsHeaderLine(t, a, n) \/ IsContinuation(t, a, n))
                  /\ \E i \in a .. n : t[i] \notin Blanks
            BY <4>3 DEF Shape, FirstLine, HeaderLineSoFar, n
          <5>2. PICK j \in a .. n : t[j] \notin Blanks BY <5>1
          <5>3. a \in Nat \ {0} /\ n \in 0 .. Len(t) BY <1>1, <5>1 DEF n
          <5>4. \A i \in a .. n : t[i] \notin {"CR", "LF"}
            BY <1>1, <5>1, <5>3, HeaderLineIsOneLine
          <5>5. ASSUME n + 1 \in Indentation(r) PROVE FALSE
            <6>1. PICK c \in LineStarts(r) : c <= n + 1 /\ Over(r, c, n + 1, Blanks)
              BY <5>5 DEF Indentation
            <6>2. c \in 1 .. n + 1 /\ StartsLine(r, c) BY <1>1, <6>1 DEF LineStarts
            <6>3. CASE c <= a
              <7>1. j \in c .. n + 1 /\ r[j] \notin Blanks BY <1>1, <5>2, <6>2, <6>3
              <7> QED BY <6>1, <7>1 DEF Over
            <6>4. CASE c > a
              <7>1. r[c - 1] = "LF" BY <1>1, <5>3, <6>2, <6>4 DEF StartsLine
              <7>2. c - 1 \in a .. n BY <1>1, <5>3, <6>2, <6>4
              <7>3. t[c - 1] = "LF" BY <1>1, <5>3, <7>1, <7>2
              <7> QED BY <5>4, <7>2, <7>3
            <6> QED BY <5>3, <6>2, <6>3, <6>4
          <5> QED BY <4>3, <5>5, HeaderTable, ByteClasses
        <4>4. CASE s[1] = "expecting_newline_2"
          <5>1. b = "LF" /\ s[4] = "none" BY <4>4, HeaderTable
          <5> QED BY <5>1
        <4> QED BY <1>4, <2>5, <4>1, <4>2, <4>3, <4>4, HeaderTable DEF HeaderLine
      <3> QED BY <1>6, <1>7, <1>8, <1>10, <2>1, <3>2, <3>3, <3>4 DEF n
    <2> QED BY <2>3, <2>4, <2>5
  <1> QED BY <1>9, <1>10

-----------------------------------------------------------------------------
(* The request means what was sent                                           *)

\* What each kind of push changes in the request.
LEMMA PushFields ==
    ASSUME TypeOK, NEW part \in Parts, NEW b \in Classes, part \in {"name", "value"} => req.headers # <<>>
    PROVE  LET rq == Push(part, b)
               hs == req.headers
               n == Len(hs)
           IN  /\ rq.method = IF part = "method" THEN Append(req.method, b) ELSE req.method
               /\ rq.uri = IF part = "uri" THEN Append(req.uri, b) ELSE req.uri
               /\ part = "header" => rq.headers = Append(hs, NewHeader(b))
               /\ part \notin {"header", "name", "value"} => rq.headers = hs
               /\ part \in {"name", "value"} =>
                    /\ Len(rq.headers) = n /\ n >= 1
                    /\ \A k \in 1 .. n : k # n => rq.headers[k] = hs[k]
               /\ part = "name" =>
                    rq.headers[n].name = Append(hs[n].name, b) /\ rq.headers[n].value = hs[n].value
               /\ part = "value" =>
                    rq.headers[n].value = Append(hs[n].value, b) /\ rq.headers[n].name = hs[n].name
  <1> DEFINE hs == req.headers
             n == Len(hs)
  <1>1. /\ req \in [method : Seq(Classes), uri : Seq(Classes), headers : Seq(Headers)]
        /\ hs \in Seq(Headers) /\ n \in Nat
    BY DEF TypeOK
  <1>2. CASE part = "none" BY <1>1, <1>2 DEF Push
  <1>3. CASE part = "method"
    <2>1. Push(part, b) = [req EXCEPT !.method = Append(req.method, b)] BY <1>3 DEF Push
    <2> QED BY <1>1, <1>3, <2>1
  <1>4. CASE part = "uri"
    <2>1. Push(part, b) = [req EXCEPT !.uri = Append(req.uri, b)] BY <1>4 DEF Push
    <2> QED BY <1>1, <1>4, <2>1
  <1>5. CASE part = "header"
    <2>1. Push(part, b) = [req EXCEPT !.headers = Append(hs, NewHeader(b))] BY <1>5 DEF Push
    <2> QED BY <1>1, <1>5, <2>1
  <1>6. CASE part = "name"
    <2> DEFINE h == [hs[n] EXCEPT !.name = Append(hs[n].name, b)]
    <2>1. Push(part, b) = [req EXCEPT !.headers = [hs EXCEPT ![n] = h]] BY <1>1, <1>6 DEF Push
    <2>2. n \in 1 .. n /\ hs[n] \in Headers BY <1>1, <1>6
    <2>3. h.name = Append(hs[n].name, b) /\ h.value = hs[n].value BY <2>2 DEF Headers
    <2> HIDE DEF h
    <2>4. Push(part, b).headers = [hs EXCEPT ![n] = h] BY <1>1, <2>1
    <2>5. Push(part, b).method = req.method /\ Push(part, b).uri = req.uri BY <1>1, <2>1
    <2>6. /\ Len([hs EXCEPT ![n] = h]) = n /\ [hs EXCEPT ![n] = h][n] = h
          /\ \A k \in 1 .. n : k # n => [hs EXCEPT ![n] = h][k] = hs[k]
      BY <1>1, <2>2
    <2> QED BY <1>6, <2>2, <2>3, <2>4, <2>5, <2>6
  <1>7. CASE part = "value"
    <2> DEFINE h == [hs[n] EXCEPT !.value = Append(hs[n].value, b)]
    <2>1. Push(part, b) = [req EXCEPT !.headers = [hs EXCEPT ![n] = h]] BY <1>1, <1>7 DEF Push
    <2>2. n \in 1 .. n /\ hs[n] \in Headers BY <1>1, <1>7
    <2>3. h.value = Append(hs[n].value, b) /\ h.name = hs[n].name BY <2>2 DEF Headers
    <2> HIDE DEF h
    <2>4. Push(part, b).headers = [hs EXCEPT ![n] = h] BY <1>1, <2>1
    <2>5. Push(part, b).method = req.method /\ Push(part, b).uri = req.uri BY <1>1, <2>1
    <2>6. /\ Len([hs EXCEPT ![n] = h]) = n /\ [hs EXCEPT ![n] = h][n] = h
          /\ \A k \in 1 .. n : k # n => [hs EXCEPT ![n] = h][k] = hs[k]
      BY <1>1, <2>2
    <2> QED BY <1>7, <2>2, <2>3, <2>4, <2>5, <2>6
  <1> QED BY <1>2, <1>3, <1>4, <1>5, <1>6, <1>7 DEF Parts

\* A list of headers has one for every header of the text.
LEMMA ListsLength ==
    ASSUME NEW t \in Seq(Classes), NEW hs \in Seq(Headers), Lists(hs, t)
    PROVE  hs = <<>> <=> HeaderStarts(t) = {}
  <1>1. HeaderStarts(t) \in SUBSET (1 .. Len(t)) /\ Len(t) \in Nat
    BY DEF HeaderStarts, LineStarts
  <1>2. IsFiniteSet(HeaderStarts(t)) BY <1>1, Ranks
  <1>3. Len(hs) = Cardinality(HeaderStarts(t)) BY DEF Lists
  <1>4. Cardinality(HeaderStarts(t)) = 0 <=> HeaderStarts(t) = {} BY <1>2, FS_EmptySet
  <1> QED BY <1>3, <1>4

\* A byte pushed where it belongs keeps the meaning.
LEMMA MeansOn ==
    ASSUME TypeOK, NEW part \in Parts, NEW t, NEW b, NEW r, Longer(t, b, r), Means(t, req),
           Len(t) + 1 \in MethodAt(r) <=> part = "method",
           Len(t) + 1 \in UriAt(r) <=> part = "uri",
           Len(t) + 1 \in HeaderStarts(r) <=> part = "header",
           part = "header" => b # "colon",
           part \in {"name", "value"} => HeaderStarts(t) # {},
           \A p \in HeaderStarts(t) :
              /\ Len(t) + 1 \in NameAt(r, p) <=> part = "name" /\ \A q \in HeaderStarts(t) : q <= p
              /\ Len(t) + 1 \in ValueAt(r, p) <=> part = "value" /\ \A q \in HeaderStarts(t) : q <= p
    PROVE  Means(r, Push(part, b))
  <1> DEFINE n == Len(t)
             rq == Push(part, b)
             hs == req.headers
             H == HeaderStarts(t)
             c == Len(hs)
  <1>1. /\ t \in Seq(Classes) /\ r \in Seq(Classes) /\ Agree(t, r) /\ b \in Classes
        /\ n \in Nat /\ Len(r) = n + 1 /\ r[n + 1] = b /\ DOMAIN r = 1 .. n + 1
    BY DEF Longer
  <1>2. /\ req.method \in Seq(Classes) /\ req.uri \in Seq(Classes) /\ hs \in Seq(Headers)
        /\ c \in Nat
    BY DEF TypeOK
  <1>3. /\ Spells(req.method, t, MethodAt(t)) /\ Spells(req.uri, t, UriAt(t)) /\ Lists(hs, t)
    BY DEF Means
  <1>4. /\ H \subseteq 1 .. n /\ HeaderStarts(r) \subseteq 1 .. n + 1
        /\ \A i \in 1 .. n : i \in H <=> i \in HeaderStarts(r)
        /\ part # "header" => HeaderStarts(r) = H
        /\ part = "header" => HeaderStarts(r) = H \union {n + 1}
    BY HeadersGrow
  <1>5. part \in {"name", "value"} => req.headers # <<>>
    BY <1>1, <1>2, <1>3, ListsLength
  <1>6. /\ rq.method = IF part = "method" THEN Append(req.method, b) ELSE req.method
        /\ rq.uri = IF part = "uri" THEN Append(req.uri, b) ELSE req.uri
        /\ part = "header" => rq.headers = Append(hs, NewHeader(b))
        /\ part \notin {"header", "name", "value"} => rq.headers = hs
        /\ part \in {"name", "value"} =>
                /\ Len(rq.headers) = c /\ c >= 1
                /\ \A k \in 1 .. c : k # c => rq.headers[k] = hs[k]
        /\ part = "name" =>
                rq.headers[c].name = Append(hs[c].name, b) /\ rq.headers[c].value = hs[c].value
        /\ part = "value" =>
                rq.headers[c].value = Append(hs[c].value, b) /\ rq.headers[c].name = hs[c].name
    BY <1>1, <1>5, PushFields
  <1> HIDE DEF n, rq, hs, c, H
  <1>7. Spells(rq.method, r, MethodAt(r))
    <2>1. MethodAt(t) \in SUBSET (1 .. n) /\ MethodAt(r) \in SUBSET (1 .. n + 1)
          /\ \A i \in 1 .. n : i \in MethodAt(t) <=> i \in MethodAt(r)
      <3>1. MethodAt(r) \subseteq 1 .. n + 1 BY <1>1 DEF MethodAt
      <3> QED BY <1>1, <3>1, PositionsAgree DEF n
    <2>2. IF n + 1 \in MethodAt(r) THEN Spells(Append(req.method, b), r, MethodAt(r))
          ELSE Spells(req.method, r, MethodAt(r))
      BY <1>2, <1>3, <2>1, SpellsOn DEF n
    <2>3. n + 1 \in MethodAt(r) <=> part = "method" BY DEF n
    <2> QED BY <1>6, <2>2, <2>3
  <1>8. Spells(rq.uri, r, UriAt(r))
    <2>1. UriAt(t) \in SUBSET (1 .. n) /\ UriAt(r) \in SUBSET (1 .. n + 1)
          /\ \A i \in 1 .. n : i \in UriAt(t) <=> i \in UriAt(r)
      <3>1. UriAt(r) \subseteq 1 .. n + 1 BY <1>1 DEF UriAt
      <3> QED BY <1>1, <3>1, PositionsAgree DEF n
    <2>2. IF n + 1 \in UriAt(r) THEN Spells(Append(req.uri, b), r, UriAt(r))
          ELSE Spells(req.uri, r, UriAt(r))
      BY <1>2, <1>3, <2>1, SpellsOn DEF n
    <2>3. n + 1 \in UriAt(r) <=> part = "uri" BY DEF n
    <2> QED BY <1>6, <2>2, <2>3
  <1>9. /\ c = Cardinality(H) /\ H \in SUBSET (1 .. n)
        /\ \A p \in H : Rank(H, p) \in 1 .. c /\ (Rank(H, p) = c <=> \A q \in H : q <= p)
    <2>1. c = Cardinality(H) BY <1>3 DEF Lists, c, H
    <2> QED BY <1>1, <1>4, <2>1, Ranks
  <1>10. ASSUME NEW p \in H
        PROVE  LET k == Rank(H, p)
                   h == hs[k]
               IN  /\ Spells(IF part = "name" /\ k = c THEN Append(h.name, b) ELSE h.name,
                             r, NameAt(r, p))
                   /\ Spells(IF part = "value" /\ k = c THEN Append(h.value, b) ELSE h.value,
                             r, ValueAt(r, p))
    <2> DEFINE k == Rank(H, p)
               h == hs[k]
    <2>1. k \in 1 .. c /\ (k = c <=> \A q \in H : q <= p) BY <1>9
    <2>2. h \in Headers BY <1>2, <2>1 DEF c
    <2>3. h.name \in Seq(Classes) /\ h.value \in Seq(Classes) BY <2>2 DEF Headers
    <2>4. Spells(h.name, t, NameAt(t, p)) /\ Spells(h.value, t, ValueAt(t, p))
      BY <1>3 DEF Lists, H
    <2> HIDE DEF h, k
    <2>5. /\ NameAt(t, p) \subseteq 1 .. n /\ NameAt(r, p) \subseteq 1 .. n + 1
          /\ ValueAt(t, p) \subseteq 1 .. n /\ ValueAt(r, p) \subseteq 1 .. n + 1
          /\ \A i \in 1 .. n : i \in NameAt(t, p) <=> i \in NameAt(r, p)
          /\ \A i \in 1 .. n : i \in ValueAt(t, p) <=> i \in ValueAt(r, p)
      BY HeaderPositionsAgree DEF H, n
    <2>6. /\ n + 1 \in NameAt(r, p) <=> part = "name" /\ k = c
          /\ n + 1 \in ValueAt(r, p) <=> part = "value" /\ k = c
      <3>1. /\ n + 1 \in NameAt(r, p) <=> part = "name" /\ \A q \in H : q <= p
            /\ n + 1 \in ValueAt(r, p) <=> part = "value" /\ \A q \in H : q <= p
        BY DEF H, n
      <3> QED BY <2>1, <3>1
    <2>7. IF n + 1 \in NameAt(r, p) THEN Spells(Append(h.name, b), r, NameAt(r, p))
          ELSE Spells(h.name, r, NameAt(r, p))
      BY <2>3, <2>4, <2>5, SpellsOn DEF n
    <2>8. IF n + 1 \in ValueAt(r, p) THEN Spells(Append(h.value, b), r, ValueAt(r, p))
          ELSE Spells(h.value, r, ValueAt(r, p))
      BY <2>3, <2>4, <2>5, SpellsOn DEF n
    <2>9. /\ Spells(IF part = "name" /\ k = c THEN Append(h.name, b) ELSE h.name, r, NameAt(r, p))
          /\ Spells(IF part = "value" /\ k = c THEN Append(h.value, b) ELSE h.value, r, ValueAt(r, p))
      BY <2>6, <2>7, <2>8
    <2> QED BY <2>9 DEF h, k
  <1>11. Lists(rq.headers, r)
    <2>1. CASE part = "header"
      <3>1. rq.headers = Append(hs, NewHeader(b)) BY <1>6, <2>1
      <3>2. /\ \A p \in H : Rank(HeaderStarts(r), p) = Rank(H, p)
            /\ Cardinality(HeaderStarts(r)) = c + 1 /\ Rank(HeaderStarts(r), n + 1) = c + 1
            /\ HeaderStarts(r) = H \union {n + 1}
        <4>1. H \in SUBSET (1 .. n) /\ HeaderStarts(r) \in SUBSET (1 .. n + 1) BY <1>4
        <4>2. n + 1 \in HeaderStarts(r) BY <1>4, <2>1
        <4>3. Cardinality(HeaderStarts(r)) = Cardinality(H) + 1
              /\ Rank(HeaderStarts(r), n + 1) = Cardinality(H) + 1
          BY <1>1, <1>4, <4>1, <4>2, RanksGrow
        <4>4. \A i \in 1 .. n : i \in H <=> i \in HeaderStarts(r) BY <1>4
        <4>5. \A p \in H : Rank(HeaderStarts(r), p) = Rank(H, p) BY ONLY <1>1, <4>1, <4>4, RanksGrow
        <4> QED BY <1>4, <1>9, <2>1, <4>3, <4>5
      <3>3. /\ Len(rq.headers) = c + 1 /\ rq.headers[c + 1] = NewHeader(b)
            /\ \A k \in 1 .. c : rq.headers[k] = hs[k]
        BY <1>2, <3>1 DEF c
      <3>4. ASSUME NEW p \in H
            PROVE  LET h == rq.headers[Rank(HeaderStarts(r), p)]
                   IN  Spells(h.name, r, NameAt(r, p)) /\ Spells(h.value, r, ValueAt(r, p))
        <4>1. Rank(H, p) \in 1 .. c /\ Rank(HeaderStarts(r), p) = Rank(H, p) BY <1>9, <3>2
        <4>2. rq.headers[Rank(HeaderStarts(r), p)] = hs[Rank(H, p)] BY <3>3, <4>1
        <4> QED BY <1>10, <2>1, <4>2
      <3>5. Spells(NewHeader(b).name, r, NameAt(r, n + 1)) /\ Spells(NewHeader(b).value, r, ValueAt(r, n + 1))
        <4>1. NameAt(r, n + 1) = {n + 1}
          <5>1. \A i \in n + 1 .. Len(r) : i = n + 1 BY <1>1
          <5>2. \A i \in n + 1 .. n + 1 : i = n + 1 BY <1>1
          <5>3. r[n + 1] # "colon" BY <1>1, <2>1
          <5>4. n + 1 \in n + 1 .. Len(r) BY <1>1
          <5>5. n + 1 \in NameAt(r, n + 1) BY <5>2, <5>3, <5>4 DEF NameAt
          <5>6. NameAt(r, n + 1) \subseteq {n + 1} BY <5>1 DEF NameAt
          <5> QED BY <5>5, <5>6
        <4>2. ValueAt(r, n + 1) = {}
          <5>1. \A i \in n + 1 .. Len(r) : n + 1 .. i - 2 = {} BY <1>1
          <5> QED BY <5>1 DEF ValueAt
        <4>3. NewHeader(b).name = <<b>> /\ NewHeader(b).value = <<>> BY DEF NewHeader
        <4>4. Spells(<<b>>, r, {n + 1})
          <5>1. n + 1 \in Nat BY <1>1
          <5> QED BY <1>1, <5>1, SpellsOne
        <4>5. Spells(<<>>, r, {}) BY SpellsNothing
        <4> QED BY <4>1, <4>2, <4>3, <4>4, <4>5
      <3> QED BY <3>2, <3>3, <3>4, <3>5 DEF Lists
    <2>2. CASE part # "header"
      <3>1. HeaderStarts(r) = H BY <1>4, <2>2
      <3>2. Len(rq.headers) = c BY <1>6, <2>2 DEF c
      <3>3. ASSUME NEW p \in H
            PROVE  LET h == rq.headers[Rank(H, p)]
                   IN  Spells(h.name, r, NameAt(r, p)) /\ Spells(h.value, r, ValueAt(r, p))
        <4> DEFINE k == Rank(H, p)
        <4>1. k \in 1 .. c BY <1>9
        <4>2. /\ rq.headers[k].name = IF part = "name" /\ k = c THEN Append(hs[k].name, b) ELSE hs[k].name
              /\ rq.headers[k].value = IF part = "value" /\ k = c THEN Append(hs[k].value, b) ELSE hs[k].value
          <5>1. c \in Nat /\ k \in 1 .. c BY <1>2, <4>1
          <5> HIDE DEF k
          <5>2. CASE part = "name" BY <1>6, <5>1, <5>2
          <5>3. CASE part = "value" BY <1>6, <5>1, <5>3
          <5>4. CASE part \notin {"name", "value"} BY <1>6, <2>2, <5>4
          <5> QED BY <5>2, <5>3, <5>4
        <4> QED BY <1>10, <4>2
      <3> QED BY <1>9, <3>1, <3>2, <3>3 DEF Lists
    <2> QED BY <2>1, <2>2
  <1> QED BY <1>7, <1>8, <1>11 DEF Means, rq

\* A step of consume() keeps the meaning.
LEMMA MeansStep ==
    ASSUME TypeOK, NEW s \in Steps, NEW b \in s[2], NEW t, NEW r, Longer(t, b, r),
           Shape(s[1], t), Ending(s[1], t), Spaces(s[1], t), Colons(s[1], t), Means(t, req)
    PROVE  Means(r, Push(s[4], b))
  <1>1. s[4] \in Parts BY PartTable DEF Parts
  <1>2. s[4] \in {"name", "value"} => HeaderStarts(t) # {}
    BY PartTable DEF Colons, InHeader
  <1>3. /\ Len(t) + 1 \in MethodAt(r) <=> s[4] = "method"
        /\ Len(t) + 1 \in UriAt(r) <=> s[4] = "uri"
    BY RequestLinePositions
  <1>4. /\ Len(t) + 1 \in HeaderStarts(r) <=> s[4] = "header"
        /\ s[4] = "header" => b # "colon"
    BY HeaderBegins, ByteClasses
  <1>5. \A p \in HeaderStarts(t) :
          /\ Len(t) + 1 \in NameAt(r, p) <=> s[4] = "name" /\ \A q \in HeaderStarts(t) : q <= p
          /\ Len(t) + 1 \in ValueAt(r, p) <=> s[4] = "value" /\ \A q \in HeaderStarts(t) : q <= p
    BY HeaderPositions
  <1> QED BY <1>1, <1>2, <1>3, <1>4, <1>5, MeansOn

\* The last line feed adds nothing.
LEMMA MeansAccepted ==
    ASSUME TypeOK, NEW t, NEW r, Longer(t, "LF", r), Means(t, req),
           Shape("expecting_newline_3", t), Spaces("expecting_newline_3", t),
           Colons("expecting_newline_3", t)
    PROVE  Means(r, req)
  <1> DEFINE n == Len(t)
  <1>1. /\ t \in Seq(Classes) /\ r \in Seq(Classes) /\ Agree(t, r)
        /\ n \in Nat /\ Len(r) = n + 1 /\ r[n + 1] = "LF" /\ \A i \in 1 .. n : t[i] = r[i]
    BY DEF Longer, Agree
  <1>2. PICK m, u \in 1 .. n : m < u /\ t[m] = "SP" /\ t[u] = "SP"
    BY DEF Spaces
  <1>3. /\ m \in 1 .. n + 1 /\ m \in 1 .. n + 1 - 1 /\ u \in 1 .. n + 1 - 1 /\ m # u
        /\ r[m] = "SP" /\ r[u] = "SP"
    BY <1>1, <1>2
  <1>4. n >= 1 /\ t[n] = "CR"
    BY <1>1 DEF Shape, FirstLine, HeaderLineSoFar
  <1>5. n + 1 \notin MethodAt(r) /\ n + 1 \notin UriAt(r)
    BY <1>3 DEF MethodAt, UriAt
  <1>6. n + 1 \notin HeaderStarts(r)
    BY <1>1, <1>4 DEF HeaderStarts, LineStarts, StartsLine
  <1>7. ASSUME NEW p \in HeaderStarts(t)
        PROVE  n + 1 \notin NameAt(r, p) /\ n + 1 \notin ValueAt(r, p)
    <2>1. PICK l \in HeaderStarts(t) : LastHeader("expecting_newline_3", t, l)
      BY DEF Colons
    <2>2. p \in 1 .. n /\ l \in 1 .. n BY DEF HeaderStarts, LineStarts
    <2>3. PICK c \in p .. n : t[c] = "colon"
      <3>1. CASE p = l
        <4>1. Colon(t, p, n - 1) BY <2>1, <3>1 DEF LastHeader
        <4> QED BY <1>1, <2>2, <4>1 DEF Colon
      <3>2. CASE p # l
        <4>1. Colon(t, p, l - 1) BY <2>1, <3>2 DEF LastHeader
        <4> QED BY <1>1, <2>2, <4>1 DEF Colon
      <3> QED BY <3>1, <3>2
    <2>4. c \in p .. n + 1 /\ r[c] = "colon" BY <1>1, <2>2, <2>3
    <2> QED BY <1>1, <2>4 DEF NameAt, ValueAt
  <1>8. Push("none", "LF") = req
    BY DEF Push
  <1>9. "none" \in Parts
    BY DEF Parts
  <1> QED BY <1>5, <1>6, <1>7, <1>8, <1>9, MeansOn

-----------------------------------------------------------------------------
(* The invariant                                                             *)

\* On the first call of parse(), what was consumed has the shape the state
\* says and the meaning req has.
GInv ==
    /\ reads = 1 /\ verdict # "true" => Shape(state, text) /\ Spaces(state, text) /\ Colons(state, text)
    /\ reads = 1 => Means(text, req)
    /\ reads = 1 /\ verdict = "true" => IsRequest(text)

LEMMA InitGInv == Init => GInv
  <1> SUFFICES ASSUME Init PROVE GInv
    OBVIOUS
  <1>1. state = "method_start" /\ text = <<>> /\ req = Empty /\ verdict = "more"
    BY DEF Init
  <1>2. Shape(state, text) /\ Spaces(state, text)
    BY <1>1 DEF Shape, FirstLine, RequestLineSoFar, Spaces
  <1>3. HeaderStarts(<<>>) = {} /\ MethodAt(<<>>) = {} /\ UriAt(<<>>) = {}
    BY DEF HeaderStarts, LineStarts, MethodAt, UriAt
  <1>4. Colons(state, text)
    BY <1>1, <1>3 DEF Colons, InHeader
  <1>5. Means(text, req)
    <2>1. Spells(<<>>, <<>>, {}) BY SpellsNothing
    <2>2. Lists(<<>>, <<>>) BY <1>3, FS_EmptySet DEF Lists
    <2> QED BY <1>1, <1>3, <2>1, <2>2 DEF Means, Empty
  <1> QED BY <1>1, <1>2, <1>4, <1>5 DEF GInv

LEMMA TakeGInv ==
    ASSUME IInv, GInv, NEW s \in Steps, NEW b \in Classes, Take(s, b)
    PROVE  GInv'
  <1>1. TypeOK /\ Endings /\ Resting
    BY DEF IInv
  <1>2. /\ verdict = "more" /\ verdict' = "more" /\ s[1] = state /\ b \in s[2] /\ state' = s[3]
        /\ req' = Push(s[4], b) /\ text' = Append(text, b) /\ reads' = reads
        /\ (s[1] = "header_line_start" /\ b \in Blanks => req.headers # <<>>)
    BY DEF Take, MayTake
  <1>3. reads = 1
    BY <1>1, <1>2, StepShape DEF Resting, TypeOK
  <1>4. /\ Shape(s[1], text) /\ Spaces(s[1], text) /\ Colons(s[1], text) /\ Means(text, req)
        /\ Ending(s[1], text)
    BY <1>1, <1>2, <1>3 DEF GInv, Endings
  <1>5. Longer(text, b, text')
    BY <1>1, <1>2, AppendIsLonger DEF TypeOK
  <1>6. s[1] = "header_line_start" /\ b \in Blanks => HeaderStarts(text) # {}
    <2>1. req.headers \in Seq(Headers) /\ text \in Seq(Classes) BY <1>1 DEF TypeOK
    <2> QED BY <1>2, <1>4, <2>1, ListsLength DEF Means
  <1>7. Shape(s[3], text') BY <1>2, <1>4, <1>5, <1>6, ShapeStep
  <1>8. Spaces(s[3], text') BY <1>2, <1>4, <1>5, SpacesStep
  <1>9. Colons(s[3], text') BY <1>2, <1>4, <1>5, <1>6, ColonsStep
  <1>10. Means(text', req') BY <1>1, <1>2, <1>4, <1>5, MeansStep
  <1> QED BY <1>2, <1>7, <1>8, <1>9, <1>10 DEF GInv

LEMMA AcceptGInv ==
    ASSUME IInv, GInv, NEW b \in Classes, Accept(b)
    PROVE  GInv'
  <1>1. /\ verdict = "more" /\ verdict' = "true" /\ b = "LF" /\ state = "expecting_newline_3"
        /\ req' = req /\ reads' = reads /\ text' = Append(text, b)
    BY DEF Accept
  <1> SUFFICES ASSUME reads = 1 PROVE IsRequest(text') /\ Means(text', req)
    BY <1>1 DEF GInv
  <1>2. TypeOK BY DEF IInv
  <1>3. Longer(text, "LF", text')
    BY <1>1, <1>2, AppendIsLonger DEF TypeOK
  <1>4. /\ Shape("expecting_newline_3", text) /\ Spaces("expecting_newline_3", text)
        /\ Colons("expecting_newline_3", text) /\ Means(text, req)
    BY <1>1 DEF GInv
  <1> QED BY <1>2, <1>3, <1>4, EmptyLineEnds, MeansAccepted

LEMMA NextGInv == IInv /\ GInv /\ [Next]_pvars => GInv'
  <1> SUFFICES ASSUME IInv, GInv, [Next]_pvars PROVE GInv'
    OBVIOUS
  <1>1. Arriving \subseteq Classes
    BY ParserAssumption DEF Arriving, Classes
  <1>2. ASSUME NEW b \in Arriving, NEW s \in Steps, Take(s, b) PROVE GInv'
    BY <1>1, <1>2, TakeGInv
  <1>3. ASSUME NEW b \in Arriving, Accept(b) PROVE GInv'
    BY <1>1, <1>3, AcceptGInv
  <1>4. ASSUME NEW b \in Arriving, Reject(b) PROVE GInv'
    BY <1>4 DEF GInv, Reject
  <1>5. CASE ParseAgain
    <2>1. reads' # 1 BY <1>5 DEF IInv, ParseAgain, TypeOK
    <2> QED BY <2>1 DEF GInv
  <1>6. CASE UNCHANGED pvars
    BY <1>6 DEF pvars, GInv
  <1> QED
    BY <1>2, <1>3, <1>4, <1>5, <1>6 DEF Next, Finished

LEMMA GrammarInvariance == Spec => [](IInv /\ GInv)
  BY InitIInv, NextIInv, InitGInv, NextGInv, PTL DEF Spec

-----------------------------------------------------------------------------
\* Whatever bytes arrive in whatever number, what the parser accepts is a
\* request by the grammar, and its method, uri and list of headers, names and
\* values, are those the text spells.
THEOREM ParserReadsTheRequest == Spec => []ReadsTheRequest
  <1>1. IInv /\ GInv => ReadsTheRequest
    BY DEF GInv, ReadsTheRequest
  <1> QED BY <1>1, GrammarInvariance, PTL

\* Whatever request has begun, the parser does not refuse the byte it goes on
\* with: every request of the grammar gets through, however long.
THEOREM ParserRefusesNoRequest == Spec => []RefusesNoRequest
  <1>1. IInv /\ GInv => RefusesNoRequest
    <2> SUFFICES ASSUME IInv, GInv, verdict = "more", reads = 1, NEW b \in Bytes,
                        Refused(b), ~(state = "expecting_newline_3" /\ b = "LF"),
                        Append(text, b) \in Beginnings
                 PROVE  FALSE
      BY DEF RefusesNoRequest
    <2>1. TypeOK /\ text \in Seq(Classes) /\ req.headers \in Seq(Headers) /\ b \in Classes
      BY ParserAssumption DEF IInv, TypeOK
    <2>2. PICK q \in Requests : \E k \in 1 .. Len(q) : Append(text, b) = SubSeq(q, 1, k)
      BY DEF Beginnings
    <2>3. PICK k \in 1 .. Len(q) : Append(text, b) = SubSeq(q, 1, k)
      BY <2>2
    <2>4. q \in Seq(Classes) /\ IsRequest(q)
      BY GrammarAssumption
    <2>5. Len(text) + 1 = k /\ q[Len(text) + 1] = b /\ \A i \in 1 .. Len(text) : q[i] = text[i]
      <3>1. /\ Len(Append(text, b)) = Len(text) + 1 /\ Append(text, b)[Len(text) + 1] = b
            /\ \A i \in 1 .. Len(text) : Append(text, b)[i] = text[i]
        BY <2>1
      <3>2. Len(SubSeq(q, 1, k)) = k /\ \A i \in 1 .. k : SubSeq(q, 1, k)[i] = q[i]
        BY <2>4
      <3> QED BY <2>1, <2>3, <3>1, <3>2
    <2>6. Agree(text, q) /\ Len(text) < Len(q)
      BY <2>1, <2>4, <2>5 DEF Agree
    <2>7. Shape(state, text) /\ Means(text, req)
      BY DEF GInv
    <2>8. /\ Offers(state, b)
          /\ state = "header_line_start" /\ b \in Blanks => HeaderStarts(text) # {}
      BY <2>1, <2>4, <2>5, <2>6, <2>7, RequestGoesOn
    <2>9. state = "header_line_start" /\ b \in Blanks => req.headers # <<>>
      BY <2>1, <2>7, <2>8, ListsLength DEF Means
    <2>10. PICK s \in Steps : s[1] = state /\ b \in s[2]
      BY <2>8 DEF Offers
    <2>11. MayTake(s, b)
      BY <2>9, <2>10 DEF MayTake
    <2> QED BY <2>11 DEF Refused
  <1> QED BY <1>1, GrammarInvariance, PTL
=============================================================================
