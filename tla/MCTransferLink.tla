---------------------------- MODULE MCTransferLink ----------------------------
(***************************************************************************)
(* An instance of TransferLink for TLC: two names, one of them deleted     *)
(* from urls, and requests whose uris, sizes and headers differ in what    *)
(* the code looks at.                                                      *)
(***************************************************************************)
EXTENDS TransferLink

\* "nx" begins with the name "n"; "nx" without it is "x".
MCRest(w, n) ==
    CASE w = n -> ""
      [] w = "nx" /\ n = "n" -> "x"
      [] OTHER -> "no match"

Http11 == Text("HTTP/1.1", 1)
Short == Text("GET", 3)
Long == Text("LONG", 4)
Timeouts == [server |-> 2, client |-> 2]

Entry(k, v) == [name |-> k, value |-> v]
Addresses == [n |-> "192.168.1.2:8080", m |-> "192.168.1.3:8080"]
Asked == <<Entry("host", "s.example")>>
Get(p, uri) == [path |-> p, uri |-> uri, method |-> Short, heads |-> Asked, body |-> Null]

ByUri == {Get("", u) : u \in {<<"n">>, <<"n", "a">>, <<"n", "">>, <<"n", "nx">>, <<"m", "n">>}}
ByHeader == {Get("n", <<"a">>),
             [Get("n", <<"n", "a">>) EXCEPT !.heads = <<Entry("Host", "s.example"), Entry("k", "1")>>]}
Unroutable == {Get("", u) : u \in {<<"">>, <<"nx">>, <<"", "">>}}
Posts == {[Get("", <<"n">>) EXCEPT !.heads = <<Entry("k", "1"), Entry(h, "2")>>, !.body = Text("b", n)] :
            h \in {"k", "l"}, n \in {4, 10}}
LongMethod == {[Get("", <<"m">>) EXCEPT !.method = Long]}

Requests == ByUri \cup ByHeader \cup Unroutable \cup Posts \cup LongMethod
===============================================================================
