------------------------------ MODULE MCParser ------------------------------
(* One byte of each class is enough but for those no rule sets apart: a      *)
(* letter is read like H, a special character like a slash outside the       *)
(* version, the nul like a line feed outside a line's end.  The requests     *)
(* have no header, or one, a continuation of it, or a second one.            *)
EXTENDS HttpGrammar
MCBytes == {"CR", "LF", "SP", "HT", "colon", "slash", "H", "T", "P", "dot", "digit", "high"}

Methods == {<<"H">>, <<"P", "dot">>}
Uris == {<<>>, <<"slash">>, <<"high", "colon">>}
Numbers == {<<"digit">>, <<"digit", "digit">>}
Names == {<<"T">>, <<"digit", "P">>}
Values == {<<>>, <<"colon">>, <<"SP", "high">>}
Continuations == {<<"HT">>, <<"SP", "slash">>, <<"SP", "HT", "H">>}

NewLine == <<"CR", "LF">>
RequestLines ==
    {m \o <<"SP">> \o u \o <<"SP", "H", "T", "T", "P", "slash">> \o j \o <<"dot">> \o n \o NewLine :
        m \in Methods, u \in Uris, j \in Numbers, n \in Numbers}
HeaderLines == {n \o <<"colon", "SP">> \o v \o NewLine : n \in Names, v \in Values}
HeaderBlocks ==
    {<<>>} \union HeaderLines
        \union {h \o c \o NewLine : h \in HeaderLines, c \in Continuations}
        \union {h \o g : h \in HeaderLines, g \in HeaderLines}
MCRequests == {l \o h \o NewLine : l \in RequestLines, h \in HeaderBlocks}
=============================================================================
