--------------------------- MODULE MCHttpExchange ---------------------------
(* Requests for the runs of HttpExchange.                                  *)
EXTENDS HttpExchange

E(is, text) == [is |-> is, text |-> text]

\* Two headers of the same name, and one without a value between them.
Header == <<E("url",   <<"u1", "u2">>),
            E("field", <<"a", "b">>), E("value", <<"x", "y">>),
            E("field", <<"c">>),      E("value", <<>>),
            E("field", <<"a", "b">>), E("value", <<"z">>),
            E("end",   <<>>)>>
Short  == <<E("url",   <<"u1">>), E("field", <<"a">>), E("value", <<"x">>),
            E("end", <<>>)>>
Body   == <<E("body", <<"p", "q", "r">>)>>

MCByte == {"u1", "u2", "a", "b", "c", "x", "y", "z", "p", "q", "r"}

\* Requests with and without a body, and requests that stop half-way.
MCRequests ==
  [method : Methods, hangsUp : BOOLEAN,
   elements : {Header, Short \o Body, <<>>, SubSeq(Header, 1, 1),
               SubSeq(Header, 1, 4)}]

=============================================================================
