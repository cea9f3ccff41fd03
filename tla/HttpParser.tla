----------------------------- MODULE HttpParser -----------------------------
(***************************************************************************)
(* request_parser (src/include/http_helper.hpp) as http_connection uses    *)
(* it: async_read_until delivers bytes up to the first CR LF CR LF, parse() *)
(* consumes them, and with a 0 after them if they do not decide.  A byte   *)
(* is one of the classes the parser tells apart.  The version numbers,     *)
(* which nothing reads, are left out.                                      *)
(***************************************************************************)
EXTENDS Naturals, Sequences

CONSTANTS
    Bytes,      \* the classes of bytes that arrive
    MaxBudget,  \* bound: repetitions and header lines in one read
    MaxReads    \* bound: reads of one connection

Literals == {"H", "T", "P", "slash", "dot"}
Classes == Literals \union {"CR", "LF", "SP", "HT", "colon", "digit", "letter", "special", "nul", "high"}

ASSUME ParserAssumption ==
    Bytes \subseteq Classes /\ MaxBudget \in Nat /\ MaxReads \in Nat \ {0}

\* Mutant: no digit or dot in a method or a header's name.
TokenBytesLetters == {"H", "T", "P", "letter"}

\* is_char and neither is_ctl nor is_tspecial; and what is not is_ctl. A byte
\* from 128 on is negative, so neither a character nor a control.
TokenBytes == {"H", "T", "P", "dot", "digit", "letter"}
TextBytes == Classes \ {"CR", "LF", "HT", "nul"}
Blanks == {"SP", "HT"}

States == {"method_start", "method", "uri_start", "uri", "http_version_h", "http_version_t_1",
           "http_version_t_2", "http_version_p", "http_version_slash",
           "http_version_major_start", "http_version_major", "http_version_minor_start",
           "http_version_minor", "expecting_newline_1", "header_line_start", "header_lws",
           "header_name", "space_before_header_value", "header_value",
           "expecting_newline_2", "expecting_newline_3"}

\* The states in which a byte may be pushed to the last header.
InHeader == {"header_lws", "header_name", "space_before_header_value", "header_value"}

VARIABLES
    state,    \* state_
    req,      \* method, uri and headers of the request
    verdict,  \* what parse() returns: "more" is indeterminate
    text,     \* history: the bytes consumed since parse() was called
    reads,    \* history: calls of parse()
    budget    \* bound's counter

pvars == <<state, req, verdict, text, reads, budget>>

Empty == [method |-> <<>>, uri |-> <<>>, headers |-> <<>>]
Headers == [name : Seq(Classes) \ {<<>>}, value : Seq(Classes)]

Init ==
    /\ state = "method_start" /\ req = Empty
    /\ verdict = "more" /\ text = <<>> /\ reads = 1 /\ budget = MaxBudget

\* The steps of consume(): in a state, on these bytes, to a state; the byte is
\* dropped or pushed to a part of the request. First the request line.
RequestLineSteps == {
    <<"method_start", TokenBytes, "method", "method">>,
    <<"method", {"SP"}, "uri", "none">>,
    <<"method", TokenBytes, "method", "method">>,
    <<"uri_start", TextBytes, "uri", "uri">>,
    <<"uri", {"SP"}, "http_version_h", "none">>,
    <<"uri", TextBytes \ {"SP"}, "uri", "uri">>,
    <<"http_version_h", {"H"}, "http_version_t_1", "none">>,
    <<"http_version_t_1", {"T"}, "http_version_t_2", "none">>,
    <<"http_version_t_2", {"T"}, "http_version_p", "none">>,
    <<"http_version_p", {"P"}, "http_version_slash", "none">>,
    <<"http_version_slash", {"slash"}, "http_version_major_start", "none">>,
    <<"http_version_major_start", {"digit"}, "http_version_major", "none">>,
    <<"http_version_major", {"dot"}, "http_version_minor_start", "none">>,
    <<"http_version_major", {"digit"}, "http_version_major", "none">>,
    <<"http_version_minor_start", {"digit"}, "http_version_minor", "none">>,
    <<"http_version_minor", {"CR"}, "expecting_newline_1", "none">>,
    <<"http_version_minor", {"digit"}, "http_version_minor", "none">> }

\* The headers, and the empty line up to its line feed.
HeaderSteps == {
    <<"expecting_newline_1", {"LF"}, "header_line_start", "none">>,
    <<"header_line_start", {"CR"}, "expecting_newline_3", "none">>,
    <<"header_line_start", Blanks, "header_lws", "none">>,
    <<"header_line_start", TokenBytes, "header_name", "header">>,
    <<"header_lws", {"CR"}, "expecting_newline_2", "none">>,
    <<"header_lws", Blanks, "header_lws", "none">>,
    <<"header_lws", TextBytes \ Blanks, "header_value", "value">>,
    <<"header_name", {"colon"}, "space_before_header_value", "none">>,
    <<"header_name", TokenBytes, "header_name", "name">>,
    <<"space_before_header_value", {"SP"}, "header_value", "none">>,
    <<"header_value", {"CR"}, "expecting_newline_2", "none">>,
    <<"header_value", TextBytes, "header_value", "value">>,
    <<"expecting_newline_2", {"LF"}, "header_line_start", "none">> }

Steps == RequestLineSteps \union HeaderSteps

\* Mutant: a line may begin with a blank before there is a header to continue.
MayTakeAny(s, b) == s[1] = state /\ b \in s[2]

\* A blank continues the last header, if there is one.
MayTake(s, b) ==
    /\ s[1] = state /\ b \in s[2]
    /\ s[1] = "header_line_start" /\ b \in Blanks => req.headers # <<>>

Refused(b) == \A s \in Steps : ~MayTake(s, b)

\* Mutant: the name of a header is begun by its second byte.
NewHeaderNoName(b) == [name |-> <<>>, value |-> <<>>]

NewHeader(b) == [name |-> <<b>>, value |-> <<>>]

\* push_back to the method, the uri, a new header's name, or to the name or
\* the value of headers.back().
Push(part, b) ==
    CASE part = "header" -> [req EXCEPT !.headers = Append(@, NewHeader(b))]
      [] part = "name" -> [req EXCEPT !.headers[Len(req.headers)].name = Append(@, b)]
      [] part = "value" -> [req EXCEPT !.headers[Len(req.headers)].value = Append(@, b)]
      [] part = "method" -> [req EXCEPT !.method = Append(@, b)]
      [] part = "uri" -> [req EXCEPT !.uri = Append(@, b)]
      [] part = "none" -> req

\* Where async_read_until stops.
AtBlankLine(t) ==
    /\ Len(t) >= 4
    /\ t[Len(t) - 3] = "CR" /\ t[Len(t) - 2] = "LF" /\ t[Len(t) - 1] = "CR" /\ t[Len(t)] = "LF"

Arriving == IF AtBlankLine(text) THEN {"nul"} ELSE Bytes

\* A repetition, or a line after the first, is taken from the bound.
Cost(s) == IF s[1] = s[3] \/ (s[1] = "header_line_start" /\ s[3] # "expecting_newline_3") THEN 1 ELSE 0

\* consume() returns indeterminate.
Take(s, b) ==
    /\ verdict = "more" /\ MayTake(s, b) /\ Cost(s) <= budget
    /\ state' = s[3]
    /\ req' = Push(s[4], b)
    /\ text' = Append(text, b)
    /\ budget' = budget - Cost(s)
    /\ UNCHANGED <<verdict, reads>>

\* Mutant: the line feed after the last carriage return is not looked at.
AcceptAny(b) ==
    /\ verdict = "more" /\ state = "expecting_newline_3"
    /\ verdict' = "true"
    /\ text' = Append(text, b)
    /\ UNCHANGED <<state, req, reads, budget>>

\* consume() returns true; state_ stays as it is.
Accept(b) ==
    /\ verdict = "more" /\ state = "expecting_newline_3" /\ b = "LF"
    /\ verdict' = "true"
    /\ text' = Append(text, b)
    /\ UNCHANGED <<state, req, reads, budget>>

\* consume() returns false; the connection is stopped.
Reject(b) ==
    /\ verdict = "more" /\ Refused(b) /\ (state = "expecting_newline_3" => b # "LF")
    /\ verdict' = "false"
    /\ UNCHANGED <<state, req, text, reads, budget>>

\* The connection is kept, and parse() is called for what comes next.
ParseAgain ==
    /\ verdict = "true" /\ reads < MaxReads
    /\ verdict' = "more" /\ text' = <<>> /\ reads' = reads + 1
    /\ UNCHANGED <<state, req, budget>>

Finished == (verdict = "false" \/ (verdict = "true" /\ reads = MaxReads)) /\ UNCHANGED pvars

Next ==
    \/ ParseAgain \/ Finished
    \/ \E b \in Arriving : Accept(b) \/ Reject(b) \/ \E s \in Steps : Take(s, b)

Spec == Init /\ [][Next]_pvars

-----------------------------------------------------------------------------
\* The type invariant; no header is without a name.
TypeOK ==
    /\ state \in States
    /\ req \in [method : Seq(Classes), uri : Seq(Classes), headers : Seq(Headers)]
    /\ verdict \in {"more", "true", "false"}
    /\ text \in Seq(Classes)
    /\ reads \in 1 .. MaxReads
    /\ budget \in Nat

\* headers.back() is never taken of an empty vector, which would be undefined,
\* whatever bytes arrive.
BackIsThere == state \in InHeader => req.headers # <<>>

\* The parser and async_read_until agree where a request ends: parse() never
\* runs out of bytes at the blank line, so the branch for indeterminate in
\* handle_read_headers is dead, and it accepts nothing before the blank line,
\* so no bytes it was given are lost.
EndsAtBlankLine ==
    reads = 1 => (verdict = "true" <=> AtBlankLine(text))
=============================================================================
