----------------------------- MODULE HttpParser -----------------------------
(***************************************************************************)
(* The push parser of water/net/http-parser/http_parser.c, which           *)
(* HttpPacket::parse feeds with whatever a read has put into the receive   *)
(* buffer.  A parser is a record, one call of Step(p, t) is one turn of    *)
(* the loop of http_parser_execute: the operator of the state is applied   *)
(* once, and again after a `goto reexecute'.                               *)
(*                                                                         *)
(* Bytes are tokens: a character that a state tells apart, or half of a    *)
(* word the parser matches letter by letter ("content" and "-length"), so  *)
(* that a read may end inside a word.  `mark' is the kind of data whose    *)
(* beginning is marked in the current piece; it is local to one call of    *)
(* http_parser_execute.  `nread' keeps only what is compared: none, one or *)
(* many bytes, and a header of many bytes may exceed the maximum.          *)
(***************************************************************************)
EXTENDS Integers, Sequences, FiniteSets

CONSTANTS ULLONG_MAX,          \* the largest content length, also "no length given"
          HeadersCompleteRet,  \* what on_headers_complete may return
          Types                \* the types http_parser_init is called with

ASSUME ParserAssumption ==
    /\ ULLONG_MAX \in Nat /\ ULLONG_MAX > 16
    /\ HeadersCompleteRet \subseteq {0, 1, 2} /\ HeadersCompleteRet # {}
    /\ Types \subseteq {"request", "response", "both"} /\ Types # {}

Chars   == {"CR", "LF", "SP", "HT", ":", ",", ";", "/", "?", "#", "@", ".", "%", "[", "]",
            "0", "1", "2", "4", "a", "x", "ctl"}
Methods == {"CONNECT", "HEAD", "GET"}
Names   == {"connection", "content-length", "transfer-encoding", "upgrade"}
Values  == {"chunked", "keep-alive", "close", "upgrade"}
Words   == Methods \cup Names \cup Values \cup {"HTTP"}
Tokens  == {<<c>> : c \in Chars} \cup {<<w, i>> : w \in Words, i \in 1..2}


CR == <<"CR">>
LF == <<"LF">>
SP == <<"SP">>
HT == <<"HT">>

LineEnds == {CR, LF}
Blanks   == {SP, HT}
DigitOf(t) == CASE t = <<"1">> -> 1 [] t = <<"2">> -> 2 [] t = <<"4">> -> 4 [] OTHER -> 0
Digits     == {<<"0">>, <<"1">>, <<"2">>, <<"4">>}

\* Tokens of letters only, and those that hold a dash.
Dashed  == {<<"content-length", 2>>, <<"transfer-encoding", 2>>, <<"keep-alive", 2>>}
Halves  == {<<w, i>> : w \in Words, i \in 1..2}
Letters == {<<"a">>, <<"x">>} \cup (Halves \ Dashed)
TokenChars    == Letters \cup Dashed \cup Digits \cup {<<"#">>, <<".">>, <<"%">>}
UrlChars      == Tokens \ (LineEnds \cup Blanks \cup {<<"?">>, <<"#">>, <<"ctl">>})
UserinfoChars == Letters \cup Dashed \cup Digits \cup {<<".">>, <<":">>, <<",">>, <<";">>, <<"%">>}

Kinds == {"url", "status", "header_field", "header_value", "body"}
Flags == {"CHUNKED", "KEEP_ALIVE", "CLOSE", "CONNECTION_UPGRADE", "TRAILING", "UPGRADE",
          "SKIPBODY", "CONTENTLENGTH"}

UrlStates == {"s_req_spaces_before_url", "s_req_schema", "s_req_schema_slash",
              "s_req_schema_slash_slash", "s_req_server_start", "s_req_server",
              "s_req_server_with_at", "s_req_path", "s_req_query_string_start",
              "s_req_query_string", "s_req_fragment_start", "s_req_fragment"}
BodyStates == {"s_chunk_data", "s_chunk_data_almost_done", "s_chunk_data_done",
               "s_body_identity", "s_body_identity_eof", "s_message_done"}
HeaderStates == UrlStates \cup
    {"s_dead", "s_start_req_or_res", "s_start_res", "s_res_HT", "s_res_HTTP", "s_res_http_major",
     "s_res_http_dot", "s_res_http_minor", "s_res_http_end", "s_res_first_status_code",
     "s_res_status_code", "s_res_status_start", "s_res_status", "s_res_line_almost_done",
     "s_start_req", "s_req_method", "s_req_http_start", "s_req_http_HT", "s_req_http_HTTP",
     "s_req_http_major", "s_req_http_dot", "s_req_http_minor", "s_req_http_end",
     "s_req_line_almost_done", "s_header_field_start", "s_header_field",
     "s_header_value_discard_ws", "s_header_value_discard_ws_almost_done",
     "s_header_value_discard_lws", "s_header_value_start", "s_header_value",
     "s_header_value_lws", "s_header_almost_done", "s_chunk_size_start", "s_chunk_size",
     "s_chunk_parameters", "s_chunk_size_almost_done", "s_headers_almost_done",
     "s_headers_done"}
States == HeaderStates \cup BodyStates

\* Header states: a name or a value is being matched, or has been matched.
General == <<"h_general">>
MatchingName(w)  == <<"h_matching", w>>
Name(w)          == <<"h", w>>
MatchingValue(w) == <<"h_matching_value", w>>
Value(w)         == <<"h_value", w>>
TokenStart == <<"h_matching_connection_token_start">>
Token      == <<"h_matching_connection_token">>

FlagOf(h) == CASE h = Value("keep-alive") -> {"KEEP_ALIVE"}
               [] h = Value("close")      -> {"CLOSE"}
               [] h = Value("upgrade")    -> {"CONNECTION_UPGRADE"}
               [] h = Value("chunked")    -> {"CHUNKED"}
               [] OTHER                   -> {}

---------------------------------------------------------------------------
\* Pieces of a turn of the loop.

Go(p, s)   == [p EXCEPT !.state = s]
Err(p, e)  == [p EXCEPT !.http_errno = e, !.marks = {}]
Call(p, c) == [p EXCEPT !.calls = Append(@, c)]
Mark(p, k) == [p EXCEPT !.marks = @ \cup {k}]
Again(p)   == [p EXCEPT !.again = TRUE]

\* CALLBACK_DATA: only what is marked is handed over.
Data(p, k) ==
  IF k \in p.marks THEN [Call(p, k) EXCEPT !.marks = @ \ {k}] ELSE p

\* Does only the end of the connection end the message?
NeedsEof(p) ==
  /\ p.type # "request"
  /\ p.status_code \div 100 # 1 /\ p.status_code \notin {204, 304}
  /\ p.flags \cap {"SKIPBODY", "CHUNKED"} = {} /\ p.content_length = ULLONG_MAX

ShouldKeepAlive(p) ==
  /\ IF p.http_major > 0 /\ p.http_minor > 0 THEN "CLOSE" \notin p.flags
                                             ELSE "KEEP_ALIVE" \in p.flags
  /\ ~ NeedsEof(p)

NewMessage(p) ==
  IF ~ ShouldKeepAlive(p) THEN "s_dead"
  ELSE IF p.type = "request" THEN "s_start_req" ELSE "s_start_res"

\* The callback is HttpPacket::onPacketComplete, which pauses the parser, so
\* that http_parser_execute returns.
MessageComplete(p) ==
  [Call(Go(p, NewMessage(p)), "message_complete") EXCEPT !.http_errno = "PAUSED"]

Fresh(p) == [p EXCEPT !.flags = {}, !.content_length = ULLONG_MAX]

---------------------------------------------------------------------------
\* The first line.

StartReq(p, t) ==
  IF t \in LineEnds THEN p
  ELSE IF t \in {<<m, 1>> : m \in Methods}
       THEN Call([Fresh(p) EXCEPT !.method = t[1], !.index = 1, !.state = "s_req_method"],
                 "message_begin")
       ELSE Err(Fresh(p), "INVALID_METHOD")

StartRes(p, t) ==
  IF t = <<"HTTP", 1>> THEN Call(Go(Fresh(p), "s_res_HT"), "message_begin")
  ELSE IF t \in LineEnds THEN Call(Fresh(p), "message_begin")
       ELSE Err(Fresh(p), "INVALID_CONSTANT")

StartReqOrRes(p, t) ==
  IF t \in LineEnds THEN p
  ELSE IF t = <<"HTTP", 1>>
       THEN Call([Go(Fresh(p), "s_res_HT") EXCEPT !.type = "response"], "message_begin")
       ELSE StartReq([p EXCEPT !.type = "request"], t)

\* s_req_method: the method's remaining letters, then a blank.
ReqMethod(p, t) ==
  IF p.index = 1 /\ t = <<p.method, 2>> THEN [p EXCEPT !.index = 2]
  ELSE IF p.index = 2 /\ t = SP THEN Go(p, "s_req_spaces_before_url")
       ELSE Err(p, "INVALID_METHOD")

\* The word HTTP and the version, in the states of a request or a response.
Version(p, t, HT1, HTTP1, major, dot, minor, end) ==
  CASE p.state = HT1   -> IF t = <<"HTTP", 2>> THEN Go(p, HTTP1) ELSE Err(p, "STRICT")
    [] p.state = HTTP1 -> IF t = <<"/">> THEN Go(p, major) ELSE Err(p, "STRICT")
    [] p.state = major -> IF t \in Digits THEN [Go(p, dot) EXCEPT !.http_major = DigitOf(t)]
                                          ELSE Err(p, "INVALID_VERSION")
    [] p.state = dot   -> IF t = <<".">> THEN Go(p, minor) ELSE Err(p, "INVALID_VERSION")
    [] p.state = minor -> IF t \in Digits THEN [Go(p, end) EXCEPT !.http_minor = DigitOf(t)]
                                          ELSE Err(p, "INVALID_VERSION")

ResVersion(p, t) == Version(p, t, "s_res_HT", "s_res_HTTP", "s_res_http_major",
                            "s_res_http_dot", "s_res_http_minor", "s_res_http_end")
ReqVersion(p, t) == Version(p, t, "s_req_http_HT", "s_req_http_HTTP", "s_req_http_major",
                            "s_req_http_dot", "s_req_http_minor", "s_req_http_end")

\* Where the end of a first line leads.
LineEnd(p, t, almost) == Go(p, IF t = CR THEN almost ELSE "s_header_field_start")

ResStatus(p, t) ==
  CASE p.state = "s_res_http_end" ->
         IF t = SP THEN Go(p, "s_res_first_status_code") ELSE Err(p, "INVALID_VERSION")
    [] p.state = "s_res_first_status_code" ->
         IF t \in Digits THEN [Go(p, "s_res_status_code") EXCEPT !.status_code = DigitOf(t)]
         ELSE IF t = SP THEN p ELSE Err(p, "INVALID_STATUS")
    [] p.state = "s_res_status_code" ->
         IF t \in Digits
         THEN LET code == p.status_code * 10 + DigitOf(t)
              IN IF code > 999 THEN Err([p EXCEPT !.status_code = code], "INVALID_STATUS")
                               ELSE [p EXCEPT !.status_code = code]
         ELSE IF t = SP THEN Go(p, "s_res_status_start")
         ELSE IF t \in LineEnds THEN LineEnd(p, t, "s_res_line_almost_done")
         ELSE Err(p, "INVALID_STATUS")
    [] p.state = "s_res_status_start" ->
         IF t \in LineEnds THEN LineEnd(p, t, "s_res_line_almost_done")
         ELSE Mark(Go(p, "s_res_status"), "status")
    [] p.state = "s_res_status" ->
         IF t \in LineEnds THEN Data(LineEnd(p, t, "s_res_line_almost_done"), "status") ELSE p

\* parse_url_char, which validates the URL by itself.
ParseUrlChar(s, t) ==
  CASE s = "s_req_spaces_before_url" /\ t = <<"/">>     -> "s_req_path"
    [] s = "s_req_spaces_before_url" /\ t \in Letters   -> "s_req_schema"
    [] s = "s_req_schema" /\ t \in Letters              -> s
    [] s = "s_req_schema" /\ t = <<":">>                -> "s_req_schema_slash"
    [] s = "s_req_schema_slash" /\ t = <<"/">>          -> "s_req_schema_slash_slash"
    [] s = "s_req_schema_slash_slash" /\ t = <<"/">>    -> "s_req_server_start"
    [] s \in {"s_req_server_start", "s_req_server", "s_req_server_with_at"} ->
         CASE t = <<"/">>         -> "s_req_path"
           [] t = <<"?">>         -> "s_req_query_string_start"
           [] t = <<"@">> -> IF s = "s_req_server_with_at" THEN "s_dead"
                                                           ELSE "s_req_server_with_at"
           [] t \in UserinfoChars \cup {<<"[">>, <<"]">>} -> "s_req_server"
           [] OTHER               -> "s_dead"
    [] s = "s_req_path" ->
         CASE t \in UrlChars -> s
           [] t = <<"?">>    -> "s_req_query_string_start"
           [] t = <<"#">>    -> "s_req_fragment_start"
           [] OTHER          -> "s_dead"
    [] s \in {"s_req_query_string_start", "s_req_query_string"} ->
         CASE t \in UrlChars \cup {<<"?">>} -> "s_req_query_string"
           [] t = <<"#">>                   -> "s_req_fragment_start"
           [] OTHER                         -> "s_dead"
    [] s = "s_req_fragment_start" ->
         CASE t \in UrlChars \cup {<<"?">>} -> "s_req_fragment"
           [] t = <<"#">>                   -> s
           [] OTHER                         -> "s_dead"
    [] s = "s_req_fragment" /\ t \in UrlChars \cup {<<"?">>, <<"#">>} -> s
    [] OTHER -> "s_dead"

\* A byte of the URL goes through ParseUrlChar.
UrlByte(p, s, t) ==
  LET n == ParseUrlChar(s, t)
  IN IF n = "s_dead" THEN Err(Go(p, n), "INVALID_URL") ELSE Go(p, n)

ReqUrl(p, t) ==
  CASE p.state = "s_req_spaces_before_url" ->
         IF t = SP THEN p
         ELSE UrlByte(Mark(p, "url"),
                      IF p.method = "CONNECT" THEN "s_req_server_start" ELSE p.state, t)
    [] p.state \in {"s_req_schema", "s_req_schema_slash", "s_req_schema_slash_slash",
                    "s_req_server_start"} ->
         IF t \in LineEnds \cup {SP} THEN Err(p, "INVALID_URL") ELSE UrlByte(p, p.state, t)
    [] OTHER ->
         IF t = SP THEN Data(Go(p, "s_req_http_start"), "url")
         ELSE IF t \in LineEnds
              THEN Data([LineEnd(p, t, "s_req_line_almost_done")
                           EXCEPT !.http_major = 0, !.http_minor = 9], "url")
              ELSE UrlByte(p, p.state, t)

ReqHttp(p, t) ==
  CASE p.state = "s_req_http_start" ->
         IF t = <<"HTTP", 1>> THEN Go(p, "s_req_http_HT")
         ELSE IF t = SP THEN p ELSE Err(p, "INVALID_CONSTANT")
    [] p.state = "s_req_http_end" ->
         IF t \in LineEnds THEN LineEnd(p, t, "s_req_line_almost_done")
                           ELSE Err(p, "INVALID_VERSION")
    [] p.state = "s_req_line_almost_done" ->
         IF t = LF THEN Go(p, "s_header_field_start") ELSE Err(p, "LF_EXPECTED")
    [] p.state = "s_res_line_almost_done" ->
         IF t = LF THEN Go(p, "s_header_field_start") ELSE Err(p, "STRICT")

---------------------------------------------------------------------------
\* The end of the headers, the body.

HeadersDone(p) ==
  LET h == [p EXCEPT !.nread = 0]
      hasBody == "CHUNKED" \in p.flags \/ p.content_length \notin {0, ULLONG_MAX}
  IN IF \/ p.upgrade /\ (p.method = "CONNECT" \/ "SKIPBODY" \in p.flags \/ ~ hasBody)
        \/ "SKIPBODY" \in p.flags
     THEN MessageComplete(h)
     ELSE IF "CHUNKED" \in p.flags THEN Go(h, "s_chunk_size_start")
     ELSE IF p.content_length = 0 THEN MessageComplete(h)
     ELSE IF p.content_length # ULLONG_MAX THEN Go(h, "s_body_identity")
     ELSE IF NeedsEof(p) THEN Go(h, "s_body_identity_eof") ELSE MessageComplete(h)

\* `ret' is what on_headers_complete returns.
HeadersAlmostDone(p, t, ret) ==
  IF t # LF THEN Err(p, "STRICT")
  ELSE IF "TRAILING" \in p.flags
       THEN Again(Call(Go(p, "s_message_done"), "chunk_complete"))
  ELSE IF {"CHUNKED", "CONTENTLENGTH"} \subseteq p.flags THEN Err(p, "UNEXPECTED_CONTENT_LENGTH")
  ELSE LET upgrade == {"UPGRADE", "CONNECTION_UPGRADE"} \subseteq p.flags \/ p.method = "CONNECT"
       IN Again(Call([Go(p, "s_headers_done") EXCEPT
            !.upgrade = upgrade \/ ret = 2,
            !.flags = IF ret = 0 THEN @ ELSE @ \cup {"SKIPBODY"}], "headers_complete"))

Counted(p) == [Mark(p, "body") EXCEPT !.content_length = @ - 1]

\* One byte of a body whose length is known; `ended' is what follows the last.
BodyByte(p, ended) ==
  IF p.content_length \in {0, ULLONG_MAX} THEN Err(p, "ASSERT")
  ELSE IF p.content_length = 1 THEN ended ELSE Counted(p)

IdentityEnds(p) == Again(Data(Go(p, "s_message_done"), "body"))
ChunkEnds(p)    == Go(p, "s_chunk_data_almost_done")

ChunkSize(p, t) ==
  CASE p.state = "s_chunk_size_start" ->
         IF p.nread # 1 \/ "CHUNKED" \notin p.flags THEN Err(p, "ASSERT")
         ELSE IF t \in Digits THEN [Go(p, "s_chunk_size") EXCEPT !.content_length = DigitOf(t)]
         ELSE Err(p, "INVALID_CHUNK_SIZE")
    [] p.state = "s_chunk_size" ->
         IF t = CR THEN Go(p, "s_chunk_size_almost_done")
         ELSE IF t \in {<<";">>, SP} THEN Go(p, "s_chunk_parameters")
         ELSE IF t \notin Digits THEN Err(p, "INVALID_CHUNK_SIZE")
         ELSE IF (ULLONG_MAX - 16) \div 16 < p.content_length
              THEN Err(p, "INVALID_CONTENT_LENGTH")
              ELSE [p EXCEPT !.content_length = @ * 16 + DigitOf(t)]
    [] p.state = "s_chunk_parameters" ->
         IF t = CR THEN Go(p, "s_chunk_size_almost_done") ELSE p
    [] p.state = "s_chunk_size_almost_done" ->
         IF t # LF THEN Err(p, "STRICT")
         ELSE LET c == [p EXCEPT !.nread = 0]
              IN Call(IF p.content_length = 0
                      THEN [Go(c, "s_header_field_start") EXCEPT !.flags = @ \cup {"TRAILING"}]
                      ELSE Go(c, "s_chunk_data"), "chunk_header")

Body(p, t) ==
  CASE p.state = "s_body_identity"     -> BodyByte(p, IdentityEnds(Counted(p)))
    [] p.state = "s_body_identity_eof" -> Mark(p, "body")
    [] p.state = "s_message_done"      -> MessageComplete(p)
    [] p.state = "s_chunk_data"        -> BodyByte(p, ChunkEnds(Counted(p)))
    [] p.state = "s_chunk_data_almost_done" ->
         IF p.content_length # 0 THEN Err(p, "ASSERT")
         ELSE IF t = CR THEN Data(Go(p, "s_chunk_data_done"), "body") ELSE Err(p, "STRICT")
    [] p.state = "s_chunk_data_done" ->
         IF t = LF THEN Call([Go(p, "s_chunk_size_start") EXCEPT !.nread = 0], "chunk_complete")
                   ELSE Err(p, "STRICT")

---------------------------------------------------------------------------
\* Header fields.

HeaderFieldStart(p, t) ==
  IF t = CR THEN Go(p, "s_headers_almost_done")
  ELSE IF t = LF THEN Again(Go(p, "s_headers_almost_done"))
  ELSE IF t \notin TokenChars THEN Err(p, "INVALID_HEADER_TOKEN")
  ELSE [Mark(Go(p, "s_header_field"), "header_field") EXCEPT
         !.header_state = IF t \in {<<w, 1>> : w \in Names} THEN MatchingName(t[1]) ELSE General]

HeaderField(p, t) ==
  IF t \in TokenChars
  THEN [p EXCEPT !.header_state =
         IF \E w \in Names : @ = MatchingName(w) /\ t = <<w, 2>> THEN Name(t[1]) ELSE General]
  ELSE IF t = <<":">> THEN Data(Go(p, "s_header_value_discard_ws"), "header_field")
       ELSE Err(p, "INVALID_HEADER_TOKEN")

ConnectionValues == {"keep-alive", "close", "upgrade"}

HeaderValueStart(p, t) ==
  LET v == Mark(Go(p, "s_header_value"), "header_value")
      h == p.header_state
  IN CASE h = Name("upgrade") ->
            [v EXCEPT !.flags = @ \cup {"UPGRADE"}, !.header_state = General]
       [] h = Name("transfer-encoding") ->
            [v EXCEPT !.header_state =
              IF t = <<"chunked", 1>> THEN MatchingValue("chunked") ELSE General]
       [] h = Name("content-length") ->
            IF t \notin Digits THEN Err(v, "INVALID_CONTENT_LENGTH")
            ELSE IF "CONTENTLENGTH" \in p.flags THEN Err(v, "UNEXPECTED_CONTENT_LENGTH")
            ELSE [v EXCEPT !.flags = @ \cup {"CONTENTLENGTH"}, !.content_length = DigitOf(t)]
       [] h = Name("connection") ->
            [v EXCEPT !.header_state =
              IF t \in {<<w, 1>> : w \in ConnectionValues} THEN MatchingValue(t[1]) ELSE Token]
       [] h = TokenStart -> v
       [] OTHER -> [v EXCEPT !.header_state = General]

\* What a byte of a value does to the header state.
ValueState(h, t) ==
  CASE h \in {MatchingValue(w) : w \in ConnectionValues} ->
         IF t = <<h[2], 2>> THEN Value(h[2]) ELSE Token
    [] h = MatchingValue("chunked") ->
         IF t = <<"chunked", 2>> THEN Value("chunked") ELSE General
    [] h = TokenStart ->
         IF t \in {<<w, 1>> : w \in ConnectionValues} THEN MatchingValue(t[1])
         ELSE IF t \in TokenChars \cup {<<"@">>} THEN Token   \* LOWER('@') is a token
         ELSE IF t = SP THEN TokenStart ELSE General
    [] h = Token -> IF t = <<",">> THEN TokenStart ELSE Token
    [] h = Value("chunked") -> IF t = SP THEN h ELSE General
    [] h \in {Value(w) : w \in ConnectionValues} ->
         IF t = <<",">> THEN TokenStart ELSE IF t = SP THEN h ELSE Token
    [] OTHER -> General

HeaderValue(p, t) ==
  LET h == p.header_state
  IN IF t = CR THEN [Data(Go(p, "s_header_almost_done"), "header_value") EXCEPT !.skim = FALSE]
     ELSE IF t = LF THEN [Data(Go(p, "s_header_value_lws"), "header_value") EXCEPT !.skim = FALSE]
     ELSE IF t = <<"ctl">> /\ ~ p.skim THEN Err(p, "INVALID_HEADER_TOKEN")
     ELSE CASE h \in {Name("connection"), Name("transfer-encoding")} -> Err(p, "ASSERT")
            [] h = Name("content-length") ->
                 IF t = SP THEN p
                 ELSE IF t \notin Digits \/ (ULLONG_MAX - 10) \div 10 < p.content_length
                      THEN Err(p, "INVALID_CONTENT_LENGTH")
                      ELSE [p EXCEPT !.content_length = @ * 10 + DigitOf(t)]
            [] OTHER -> [p EXCEPT !.header_state = ValueState(h, t),
                                  !.skim = h = General,   \* the rest of the line is not looked at
                                  !.flags = IF t = <<",">> /\ h # Value("chunked")
                                            THEN @ \cup FlagOf(h) ELSE @]

\* The line of a value may be continued by a line that starts with a blank.
HeaderLineEnd(p, t) ==
  CASE p.state = "s_header_almost_done" ->
         IF t = LF THEN Go(p, "s_header_value_lws") ELSE Err(p, "LF_EXPECTED")
    [] p.state = "s_header_value_lws" ->
         IF t \in Blanks THEN Again(Go(p, "s_header_value_start"))
         ELSE Again([Go(p, "s_header_field_start")
                       EXCEPT !.flags = @ \cup FlagOf(p.header_state)])

DiscardBlanks(p, t) ==
  CASE p.state = "s_header_value_discard_ws" ->
         IF t \in Blanks THEN p
         ELSE IF t = CR THEN Go(p, "s_header_value_discard_ws_almost_done")
         ELSE IF t = LF THEN Go(p, "s_header_value_discard_lws")
         ELSE HeaderValueStart(p, t)
    [] p.state = "s_header_value_discard_ws_almost_done" ->
         IF t = LF THEN Go(p, "s_header_value_discard_lws") ELSE Err(p, "STRICT")
    [] p.state = "s_header_value_discard_lws" ->
         IF t \in Blanks THEN Go(p, "s_header_value_discard_ws")
         ELSE Again(Call([Go(p, "s_header_field_start")
                            EXCEPT !.flags = @ \cup FlagOf(p.header_state)], "header_value"))

---------------------------------------------------------------------------
\* One application of the code of the parser's state.
Turn(p, t, ret) ==
  LET s == p.state
  IN CASE s = "s_dead" -> IF t \in LineEnds THEN p ELSE Err(p, "CLOSED_CONNECTION")
       [] s = "s_start_req_or_res" -> StartReqOrRes(p, t)
       [] s = "s_start_req" -> StartReq(p, t)
       [] s = "s_start_res" -> StartRes(p, t)
       [] s \in {"s_res_HT", "s_res_HTTP", "s_res_http_major", "s_res_http_dot",
                 "s_res_http_minor"} -> ResVersion(p, t)
       [] s \in {"s_res_http_end", "s_res_first_status_code", "s_res_status_code",
                 "s_res_status_start", "s_res_status"} -> ResStatus(p, t)
       [] s = "s_req_method" -> ReqMethod(p, t)
       [] s \in UrlStates -> ReqUrl(p, t)
       [] s \in {"s_req_http_start", "s_req_http_end", "s_req_line_almost_done",
                 "s_res_line_almost_done"} -> ReqHttp(p, t)
       [] s \in {"s_req_http_HT", "s_req_http_HTTP", "s_req_http_major", "s_req_http_dot",
                 "s_req_http_minor"} -> ReqVersion(p, t)
       [] s = "s_header_field_start" -> HeaderFieldStart(p, t)
       [] s = "s_header_field" -> HeaderField(p, t)
       [] s \in {"s_header_value_discard_ws", "s_header_value_discard_ws_almost_done",
                 "s_header_value_discard_lws"} -> DiscardBlanks(p, t)
       [] s = "s_header_value_start" -> HeaderValueStart(p, t)
       [] s = "s_header_value" -> HeaderValue(p, t)
       [] s \in {"s_header_almost_done", "s_header_value_lws"} -> HeaderLineEnd(p, t)
       [] s = "s_headers_almost_done" -> HeadersAlmostDone(p, t, ret)
       [] s \in {"s_chunk_size_start", "s_chunk_size", "s_chunk_parameters",
                 "s_chunk_size_almost_done"} -> ChunkSize(p, t)
       [] s = "s_headers_done" -> HeadersDone(p)
       [] s \in BodyStates -> Body(p, t)
       [] OTHER -> Err(p, "ASSERT")   \* "unhandled state"

\* `goto reexecute'
Reexecute(p, t, ret) == IF p.again THEN Turn([p EXCEPT !.again = FALSE], t, ret) ELSE p

Begun(p) ==
  [p EXCEPT !.calls = <<>>, !.nread = IF p.state \in HeaderStates /\ @ < 2 THEN @ + 1 ELSE @]

\* One turn of the loop of http_parser_execute; it goes back three times at most.
Step(p, t, ret) ==
  LET r1 == Turn(Begun(p), t, ret)
      r2 == Reexecute(r1, t, ret)
      r3 == Reexecute(r2, t, ret)
      r4 == Reexecute(r3, t, ret)
  IN  Reexecute(r4, t, ret)

\* http_parser_init
Parser(type) ==
  [type |-> type,
   state |-> CASE type = "request" -> "s_start_req" [] type = "response" -> "s_start_res"
               [] OTHER -> "s_start_req_or_res",
   flags |-> {}, header_state |-> General, index |-> 0, nread |-> 0, content_length |-> 0,
   http_major |-> 0, http_minor |-> 0, status_code |-> 0, method |-> "none",
   upgrade |-> FALSE, http_errno |-> "OK", again |-> FALSE,
   marks |-> {}, skim |-> FALSE, calls |-> <<>>]

\* Variant: a status is not marked.
MarksAtStartNoStatus(s) ==
  CASE s = "s_header_field" -> {"header_field"}
    [] s = "s_header_value" -> {"header_value"}
    [] s \in UrlStates \ {"s_req_spaces_before_url"} -> {"url"}
    [] OTHER -> {}

\* Where a new piece of data begins inside a URL, a status or a header, the
\* mark is set to its first byte.
MarksAtStart(s) ==
  CASE s = "s_header_field" -> {"header_field"}
    [] s = "s_header_value" -> {"header_value"}
    [] s = "s_res_status"   -> {"status"}
    [] s \in UrlStates \ {"s_req_spaces_before_url"} -> {"url"}
    [] OTHER -> {}

NextPiece(p, calls) == [p EXCEPT !.marks = MarksAtStart(p.state), !.skim = FALSE, !.calls = calls]
=============================================================================
