--------------------------- MODULE MCPolicyEngine ---------------------------
(* TLC instance of PolicyEngine: a route with two plugins, of which one may see
   the authorization header, and a route with one. *)
EXTENDS PolicyEngine, TLC

CONSTANTS r1, r2

MCRequests == {r1, r2}
MCShown == "bytes" :> "<non-utf8>"

\* Deeds of the guests: nothing; copy a secret to another header and to an
\* event; use headers that the gateway owns; remove and set the same header.
Nothing == [sets |-> <<>>, removes |-> {}, events |-> {}]
Copy == [sets |-> <<<<"x-tag", "authorization">>>>, removes |-> {"authorization"},
         events |-> {"authorization"}]
Meddle == [sets |-> <<<<"host", "own">>, <<"connection", "own">>, <<"x-request-id", "own">>>>,
           removes |-> {"x-tag"}, events |-> {}]
Tag == [sets |-> <<<<"x-tag", "x-note">>, <<"x-tag", "own">>>>, removes |-> {"host"}, events |-> {"own"}]

Guard == [raw_headers |-> {"authorization"}, body_preview_bytes |-> 1, guest |-> {Nothing, Copy, Tag}]
Normalizer == [raw_headers |-> {}, body_preview_bytes |-> 3, guest |-> {Nothing, Copy, Meddle, Tag}]
Plain == [raw_headers |-> {}, body_preview_bytes |-> 0, guest |-> {Nothing}]

MCPlugins == {Guard, Normalizer, Plain}
MCChain == [r \in Requests |-> IF r = r1 THEN <<Guard, Normalizer>> ELSE <<Plain>>]

MCClient ==
  [r \in Requests |->
     IF r = r1
     THEN [headers |-> <<<<"host", "api">>, <<"authorization", "secret">>, <<"x-tag", "a">>, <<"x-tag", "b">>,
                         <<"x-note", "bytes">>, <<"connection", "close">>, <<"x-request-id", "uuid">>,
                         <<"x-forwarded-for", "else">>, <<"traceparent", "client">>>>,
           query |-> {<<<<"token", "t0k3n">>, <<"page", "1">>>>}, body |-> 2]
     ELSE [headers |-> <<<<"x-request-id", "odd">>, <<"x-forwarded-host", "else">>>>,
           query |-> {<<<<"token", "t0k3n">>>>}, body |-> 0]]
MCReplies == {<<>>, <<<<"authorization", "new">>, <<"x-request-id", "theirs">>>>}
=============================================================================
