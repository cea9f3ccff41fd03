---------------------------- MODULE HttpGrammar ----------------------------
(***************************************************************************)
(* What a request is and means, and HttpParser checked against it.  The    *)
(* reference keeps no state: it speaks of the positions of a whole text,   *)
(* where its lines begin, how each line is made up, and which positions    *)
(* hold the method, the uri, and the name and value of each header.        *)
(***************************************************************************)
EXTENDS HttpParser, FiniteSets

Over(t, a, z, bytes) == \A i \in a .. z : t[i] \in bytes

\* A line begins at the first byte and behind every end of line.
StartsLine(t, a) == a = 1 \/ (a > 2 /\ t[a - 2] = "CR" /\ t[a - 1] = "LF")
LineStarts(t) == {a \in 1 .. Len(t) : StartsLine(t, a)}

\* A header begins on any line but the first, a line that begins with a blank,
\* and the empty one.
HeaderStarts(t) == {p \in LineStarts(t) : p # 1 /\ t[p] \notin Blanks \union {"CR"}}

-----------------------------------------------------------------------------
(* Lines: from a to z, without the carriage return and line feed at the end  *)

\* Names are made of what is neither a control character nor a separator,
\* values of what is no control character, a uri of that but for the space.
Controls == {"CR", "LF", "HT", "nul"}
Separators == {"SP", "HT", "slash", "colon", "special"}
NameBytes == Classes \ (Controls \union Separators \union {"high"})
ValueBytes == Classes \ Controls
UriBytes == ValueBytes \ {"SP"}

\* The method ends at the space at m, the uri at the space at u.
MethodTo(t, m) == t[m] = "SP" /\ m > 1 /\ Over(t, 1, m - 1, NameBytes)
UriTo(t, u) ==
    \E m \in 2 .. u - 1 : MethodTo(t, m) /\ Over(t, m + 1, u - 1, UriBytes) /\ t[u] = "SP"

\* k bytes of "HTTP/" behind u.
Protocol(t, u, k) ==
    /\ k >= 1 => t[u + 1] = "H"
    /\ k >= 2 => t[u + 2] = "T"
    /\ k >= 3 => t[u + 3] = "T"
    /\ k >= 4 => t[u + 4] = "P"
    /\ k >= 5 => t[u + 5] = "slash"

\* method SP uri SP HTTP/digits.digits
IsRequestLine(t, z) ==
    \E u, d \in 1 .. z :
        /\ UriTo(t, u) /\ Protocol(t, u, 5)
        /\ u + 6 < d /\ Over(t, u + 6, d - 1, {"digit"})
        /\ t[d] = "dot"
        /\ d < z /\ Over(t, d + 1, z, {"digit"})

\* name: SP value
IsHeaderLine(t, a, z) ==
    \E c \in a + 1 .. z - 1 :
        /\ Over(t, a, c - 1, NameBytes) /\ t[c] = "colon"
        /\ t[c + 1] = "SP" /\ Over(t, c + 2, z, ValueBytes)

\* blanks, and more of the last header's value
IsContinuation(t, a, z) ==
    /\ \E p \in HeaderStarts(t) : p < a
    /\ \E i \in a + 1 .. z + 1 :
        /\ Over(t, a, i - 1, Blanks) /\ Over(t, i, z, ValueBytes)
        /\ i <= z => t[i] \notin Blanks

\* A request: a request line, headers and continuations, an empty line at the
\* end.
IsRequest(t) ==
    /\ t # <<>>
    /\ \A a \in LineStarts(t) : \E z \in a - 1 .. Len(t) - 2 :
        /\ t[z + 1] = "CR" /\ t[z + 2] = "LF"
        /\ \/ a = 1 /\ IsRequestLine(t, z) /\ z + 2 < Len(t)
           \/ a # 1 /\ (IsHeaderLine(t, a, z) \/ IsContinuation(t, a, z)) /\ z + 2 < Len(t)
           \/ a # 1 /\ z = a - 1 /\ z + 2 = Len(t)

-----------------------------------------------------------------------------
(* What a request says                                                       *)

\* Before the first space, and before the second.
MethodAt(t) == {i \in DOMAIN t : \A j \in 1 .. i : t[j] # "SP"}
UriAt(t) ==
    {i \in DOMAIN t : t[i] # "SP" /\ \E m \in 1 .. i - 1 :
        t[m] = "SP" /\ \A j \in 1 .. i - 1 : t[j] = "SP" => j = m}

\* The blanks a line begins with.
Indentation(t) == {i \in DOMAIN t : \E a \in LineStarts(t) : a <= i /\ Over(t, a, i, Blanks)}

\* Of the header that begins at p: what is before its colon, and what is behind
\* the space after it, up to the next header, less ends of lines and
\* indentations.
NameAt(t, p) == {i \in p .. Len(t) : \A j \in p .. i : t[j] # "colon"}
ValueAt(t, p) ==
    {i \in p .. Len(t) :
        /\ \A q \in HeaderStarts(t) : q <= p \/ i < q
        /\ \E c \in p .. i - 2 : t[c] = "colon"
        /\ t[i] \notin {"CR", "LF"} /\ i \notin Indentation(t)}

\* s is what stands in t at the positions P, in order.
Rank(P, i) == Cardinality({j \in P : j <= i})
Spells(s, t, P) ==
    /\ Len(s) = Cardinality(P)
    /\ \A i \in P : s[Rank(P, i)] = t[i]

Lists(headers, t) ==
    /\ Len(headers) = Cardinality(HeaderStarts(t))
    /\ \A p \in HeaderStarts(t) :
        LET h == headers[Rank(HeaderStarts(t), p)]
        IN  Spells(h.name, t, NameAt(t, p)) /\ Spells(h.value, t, ValueAt(t, p))

Means(t, r) ==
    Spells(r.method, t, MethodAt(t)) /\ Spells(r.uri, t, UriAt(t)) /\ Lists(r.headers, t)

-----------------------------------------------------------------------------
(* Some requests, to know which texts begin one                              *)

CONSTANT Requests

ASSUME GrammarAssumption == \A t \in Requests : t \in Seq(Classes) /\ IsRequest(t)

Beginnings == UNION {{SubSeq(t, 1, n) : n \in 1 .. Len(t)} : t \in Requests}

-----------------------------------------------------------------------------
\* What is accepted is a request, and it is read as what was sent: method, uri
\* and every header with its value, lines that continue it included.
ReadsTheRequest ==
    verdict = "true" /\ reads = 1 => IsRequest(text) /\ Means(text, req)

\* No byte is refused that a request can go on with.
RefusesNoRequest ==
    verdict = "more" /\ reads = 1 =>
        \A b \in Bytes :
            Refused(b) /\ ~(state = "expecting_newline_3" /\ b = "LF")
                => Append(text, b) \notin Beginnings

\* "Continue to read the next request": on a connection that is kept, nor is a
\* byte refused that the request after an accepted one can go on with. The
\* parser is not reset, so already the first byte of that request is.
ReadsTheNextRequest ==
    verdict = "more" /\ reads > 1 =>
        \A b \in Bytes :
            Refused(b) /\ ~(state = "expecting_newline_3" /\ b = "LF")
                => Append(text, b) \notin Beginnings
=============================================================================
