------------------------------- MODULE UrlRoute -------------------------------
(***************************************************************************)
(* How the default port finds the client of a request (HttpServerHandler)  *)
(* and which url the local service gets (ClientMessageHandler.handlerHttp).*)
(*                                                                         *)
(* A uri that begins with a slash is the sequence of the words behind its  *)
(* slashes: "/" is <<Empty>>, "/n/a?q" is <<n, a?q>>.                      *)
(***************************************************************************)
EXTENDS Sequences, Naturals, FiniteSets

CONSTANTS
    Empty,      \* the empty word
    NoMatch,    \* not a word
    Rest(_, _)  \* what word w has after n, or NoMatch if n does not begin it

\* The request has no routing path.
NoPath(uri) == uri = <<Empty>>

\* split("/") drops trailing empty words; its second element is the path.
HasPath(uri) == \E i \in DOMAIN uri : uri[i] # Empty
split1(uri) == uri[1]

\* A piece of a url: a word, with or without a slash before it.
Piece(s, w) == [slash |-> s, word |-> w]

\* The text of pieces: those of no character are not there.
Joined(ps) ==
    LET there == {i \in DOMAIN ps : ps[i].slash \/ ps[i].word # Empty}
        nth(k) == CHOOSE i \in there : Cardinality({j \in there : j <= i}) = k
    IN [k \in 1..Cardinality(there) |-> ps[nth(k)]]

Plain(uri) == Joined([i \in DOMAIN uri |-> Piece(TRUE, uri[i])])

\* Mutant: url.replaceAll(n, "")
replaceWord(uri, n) ==
    Joined([i \in DOMAIN uri |->
              Piece(TRUE, IF Rest(uri[i], n) = NoMatch THEN uri[i] ELSE Rest(uri[i], n))])

\* url.replaceAll("/" + n, "")
replaceAll(uri, n) ==
    Joined([i \in DOMAIN uri |->
              IF Rest(uri[i], n) = NoMatch THEN Piece(TRUE, uri[i])
              ELSE Piece(FALSE, Rest(uri[i], n))])
===============================================================================
