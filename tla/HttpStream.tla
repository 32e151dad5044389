----------------------------- MODULE HttpStream -----------------------------
(***************************************************************************)
(* A connection's bytes on their way through http_parser_execute.  A read  *)
(* ends wherever the socket's data ends, so one message comes in pieces:   *)
(* `p' gets it as the reads cut it.  `q' is the same parser given the same *)
(* bytes in one piece, to compare with.                                    *)
(***************************************************************************)
EXTENDS HttpParser

CONSTANTS Alphabet     \* the tokens that arrive

ASSUME AlphabetAssumption == Alphabet \subseteq Tokens

VARIABLES
  p, q,
  data,    \* the kinds of data that the last token was part of, for p and for q
  stage,   \* the last callback before those of p.calls
  open     \* the end of the connection has not been read

streamVars == <<p, q, data, stage, open>>

StreamInit ==
  /\ \E type \in Types : p = Parser(type) /\ q = p
  /\ data = [cut |-> {}, whole |-> {}] /\ stage = "none" /\ open = TRUE

Staged == stage' = IF p.calls = <<>> THEN stage ELSE p.calls[Len(p.calls)]

\* The data callback that the last byte of a body of known length is part of
\* comes in the same turn of the loop.
PartOf(parser) ==
  parser.marks \cup {k \in {"body"} : \E i \in DOMAIN parser.calls : parser.calls[i] = k /\
                                       parser.http_errno = "PAUSED"}

\* What on_headers_complete returns matters only where the headers may end.
Returns(s) ==
  IF s \in {"s_headers_almost_done", "s_header_field_start", "s_header_value_lws",
            "s_header_value_discard_lws"} THEN HeadersCompleteRet ELSE {0}

\* One turn of the loop.
Feed(t) ==
  /\ p.http_errno = "OK" /\ open
  /\ \E ret \in Returns(p.state) : p' = Step(p, t, ret) /\ q' = Step(q, t, ret)
  /\ data' = [cut |-> PartOf(p'), whole |-> PartOf(q')]
  /\ Staged /\ UNCHANGED open

\* The piece is used up: what is marked is handed over as it is, and the next
\* call goes on where this one stopped.
EndPiece ==
  /\ p.http_errno = "OK" /\ open /\ p # NextPiece(p, <<>>)
  /\ \E calls \in {<<>>} \cup {<<k>> : k \in p.marks} :
       /\ (calls = <<>>) <=> (p.marks = {})
       /\ p' = NextPiece(p, calls)
  /\ Staged /\ UNCHANGED <<q, data, open>>

\* More than HTTP_MAX_HEADER_SIZE bytes since a message or a chunk began.
HeaderOverflow ==
  /\ p.http_errno = "OK" /\ open /\ p.state \in HeaderStates /\ p.nread = 2
  /\ p' = [Err(p, "HEADER_OVERFLOW") EXCEPT !.calls = <<>>] /\ q' = Err(q, "HEADER_OVERFLOW")
  /\ Staged /\ UNCHANGED <<data, open>>

AtEof(parser) ==
  CASE parser.state = "s_body_identity_eof" ->
         [Call(parser, "message_complete") EXCEPT !.http_errno = "PAUSED"]
    [] parser.state \in {"s_dead", "s_start_req_or_res", "s_start_res", "s_start_req"} -> parser
    [] OTHER -> Err(parser, "INVALID_EOF_STATE")

\* http_parser_execute with no bytes: the connection was closed.
Eof ==
  /\ p.http_errno = "OK" /\ open
  /\ p' = AtEof(NextPiece(p, <<>>)) /\ q' = AtEof([q EXCEPT !.calls = <<>>])
  /\ open' = FALSE /\ Staged /\ UNCHANGED data

\* http_parser_pause(parser, 0)
Resume ==
  /\ p.http_errno = "PAUSED" /\ open
  /\ p' = [NextPiece(p, <<>>) EXCEPT !.http_errno = "OK"]
  /\ q' = [NextPiece(q, <<>>) EXCEPT !.http_errno = "OK"]
  /\ Staged /\ UNCHANGED <<data, open>>

StreamNext ==
  \/ \E t \in Alphabet : Feed(t)
  \/ EndPiece \/ HeaderOverflow \/ Eof \/ Resume

StreamSpec == StreamInit /\ [][StreamNext]_streamVars

---------------------------------------------------------------------------
(* Correctness. *)

\* The asserts of http_parser_execute: no call fails one, whatever arrives, and
\* at most one kind of data is being collected.
NoAssertFails ==
  /\ p.http_errno # "ASSERT" /\ ~ p.again /\ q.http_errno # "ASSERT"
  /\ Cardinality(p.marks) <= 1 /\ Cardinality(q.marks) <= 1

\* What a parser remembers between two calls.
Core(parser) ==
  [f \in DOMAIN parser \ {"marks", "skim", "calls"} |-> parser[f]]

\* "The parser can be interrupted at anytime" (http-parser/README.md:9): where
\* the reads cut the bytes changes neither the parser's state nor what a byte
\* is part of.
SplitsDontMatter == Core(p) = Core(q) /\ data.cut = data.whole

After(c) ==
  CASE c = "message_begin"    -> {"none", "message_complete", "message_begin"}
    [] c = "url"              -> {"message_begin", "url"}
    [] c = "status"           -> {"message_begin", "status"}
    [] c = "header_field"     -> {"message_begin", "url", "status", "header_field",
                                  "header_value", "chunk_header"}
    [] c = "header_value"     -> {"header_field", "header_value"}
    [] c = "headers_complete" -> {"message_begin", "url", "status", "header_value"}
    [] c = "chunk_header"     -> {"headers_complete", "chunk_complete"}
    [] c = "body"             -> {"headers_complete", "chunk_header", "body"}
    [] c = "chunk_complete"   -> {"body", "chunk_header", "header_value"}
    [] c = "message_complete" -> {"headers_complete", "body", "chunk_complete"}

\* The callbacks build one message after another: HttpPacket may keep a header's
\* name until its value comes, and is complete when all of the body has come.
CallbacksInOrder ==
  \A i \in DOMAIN p.calls : (IF i = 1 THEN stage ELSE p.calls[i - 1]) \in After(p.calls[i])

\* Whatever arrives in whatever pieces, the parser goes through no state its
\* asserts exclude, reads in the pieces what it reads in the whole, and calls
\* back one message after another.
StreamIsRead == NoAssertFails /\ SplitsDontMatter /\ CallbacksInOrder
=============================================================================
