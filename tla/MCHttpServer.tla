---------------------------- MODULE MCHttpServer ----------------------------
(***************************************************************************)
(* Model values for the run of HttpServer: three connections, two workers, *)
(* pages that do in one or two calls what a page can do to its response    *)
(* and to its own outcome.                                                 *)
(***************************************************************************)
EXTENDS HttpServer

CONSTANTS c1, c2, c3, w1, w2

\* one connection sends two requests, one comes and goes; and one accept fails
TwoNoneNone == [c \in Client |-> IF c = c1 THEN 2 ELSE 0]

\* pages that go well, that fail before and after their head is out
SomePages == {<< >>, <<"FLUSH", "throw">>, <<"raise">>, <<"FLUSH", "raise">>}
=============================================================================
