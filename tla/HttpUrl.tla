------------------------------ MODULE HttpUrl ------------------------------
(***************************************************************************)
(* http_parser_parse_url: a URL is cut into fields, and the host field     *)
(* into user information, host and port.  A URL is a sequence of the       *)
(* tokens of HttpParser; a field is the offset of its first token and its  *)
(* length.                                                                 *)
(***************************************************************************)
EXTENDS HttpParser

CONSTANTS
  MaxPort,     \* the largest port (0xffff)
  UrlMax       \* the length of a URL, not counting its schema

ASSUME UrlAssumption == MaxPort \in Nat /\ UrlMax \in Nat

VARIABLES
  url,         \* the tokens of the URL so far
  connect,     \* the URL of a CONNECT request
  cutting,     \* "url", then "host" when there is one, then "refused" or "accepted"
  s,           \* the state after the last token of the URL, or of the host
  next,        \* the token of the host that comes next
  host,        \* the field of the host before it is cut
  found_at,    \* the URL has an '@'
  old_uf,      \* the field of the last token that was in one
  u            \* what is returned

urlVars == <<url, connect, cutting, s, next, host, found_at, old_uf, u>>

Fields == {"SCHEMA", "HOST", "PORT", "PATH", "QUERY", "FRAGMENT", "USERINFO"}

UrlInit ==
  /\ url = <<>> /\ connect \in BOOLEAN /\ cutting = "url"
  /\ s = IF connect THEN "s_req_server_start" ELSE "s_req_spaces_before_url"
  /\ next = 0 /\ host = [off |-> 0, len |-> 0] /\ found_at = FALSE /\ old_uf = "none"
  /\ u = [set |-> {}, at |-> [f \in Fields |-> [off |-> 0, len |-> 0]], port |-> 0]

\* Token i belongs to field f, which begins with it when it is new.
Extend(f, i, new) ==
  IF new THEN [u EXCEPT !.set = @ \cup {f}, !.at[f] = [off |-> i - 1, len |-> 1]]
         ELSE [u EXCEPT !.at[f].len = @ + 1]

FieldOf(state) ==
  CASE state = "s_req_schema" -> "SCHEMA"
    [] state \in {"s_req_server", "s_req_server_with_at"} -> "HOST"
    [] state = "s_req_path" -> "PATH"
    [] state = "s_req_query_string" -> "QUERY"
    [] state = "s_req_fragment" -> "FRAGMENT"
    [] OTHER -> "none"

\* How long a URL gets.
Grows == Len(url) < UrlMax + (IF "SCHEMA" \in u.set THEN u.at["SCHEMA"].len + 3 ELSE 0)

\* Where the cutting of the host starts.
HostStart == IF found_at THEN "s_http_userinfo_start" ELSE "s_http_host_start"

\* One turn of the loop over the URL.
UrlToken(t) ==
  LET n == ParseUrlChar(s, t)
      f == FieldOf(n)
  IN /\ cutting = "url" /\ Grows
     /\ n = "s_req_schema" => s # n    \* a schema of one token
     /\ url' = Append(url, t) /\ s' = n
     /\ cutting' = IF n = "s_dead" THEN "refused" ELSE cutting
     /\ found_at' = (found_at \/ n = "s_req_server_with_at")
     /\ old_uf' = IF f = "none" THEN old_uf ELSE f
     /\ u' = IF f = "none" THEN u ELSE Extend(f, Len(url) + 1, f # old_uf)
     /\ UNCHANGED <<connect, next, host>>

\* The URL has ended; a host is looked at again.
UrlEnd ==
  /\ cutting = "url"
  /\ IF "HOST" \in u.set
     THEN /\ cutting' = "host" /\ s' = HostStart
          /\ host' = u.at["HOST"] /\ next' = u.at["HOST"].off + 1
          /\ u' = [u EXCEPT !.at["HOST"].len = 0]
     ELSE /\ cutting' = IF "SCHEMA" \in u.set \/ connect THEN "refused" ELSE "accepted"
          /\ UNCHANGED <<s, host, next, u>>
  /\ UNCHANGED <<url, connect, found_at, old_uf>>

\* The tokens that URLs are made of.
UrlTokens == {<<c>> : c \in {"x", "1", ":", "/", "?", "#", "@", "%", "[", "]"}}

HostChars == Letters \cup Dashed \cup Digits \cup {<<".">>}
HexChars  == Digits \cup {<<"a">>}

ParseHostChar(state, t) ==
  CASE state \in {"s_http_userinfo", "s_http_userinfo_start"} ->
         CASE t = <<"@">> -> "s_http_host_start"
           [] t \in UserinfoChars -> "s_http_userinfo"
           [] OTHER -> "s_http_host_dead"
    [] state = "s_http_host_start" /\ t = <<"[">> -> "s_http_host_v6_start"
    [] state \in {"s_http_host_start", "s_http_host"} /\ t \in HostChars -> "s_http_host"
    [] state \in {"s_http_host", "s_http_host_v6_end"} /\ t = <<":">> -> "s_http_host_port_start"
    [] state \in {"s_http_host_v6", "s_http_host_v6_zone"} /\ t = <<"]">> -> "s_http_host_v6_end"
    [] state \in {"s_http_host_v6", "s_http_host_v6_start"} /\ t \in HexChars \cup {<<":">>, <<".">>} ->
         "s_http_host_v6"
    [] state = "s_http_host_v6" /\ t = <<"%">> -> "s_http_host_v6_zone_start"
    [] state \in {"s_http_host_v6_zone", "s_http_host_v6_zone_start"} /\ t \in HostChars \cup {<<"%">>} ->
         "s_http_host_v6_zone"
    [] state \in {"s_http_host_port", "s_http_host_port_start"} /\ t \in Digits -> "s_http_host_port"
    [] OTHER -> "s_http_host_dead"

\* Variant: the start of the name is not noted.
ExtendHostInPlace(i, new) == Extend("HOST", i, FALSE)

\* The part of the host that names it grows; the start of a new one is noted.
ExtendHost(i, new) ==
  IF new THEN [u EXCEPT !.at["HOST"] = [off |-> i - 1, len |-> @.len + 1]]
         ELSE Extend("HOST", i, FALSE)

\* http_parse_host: one token of the host once more.
HostToken ==
  LET n == ParseHostChar(s, url[next])
  IN /\ cutting = "host" /\ next <= host.off + host.len
     /\ s' = n /\ next' = next + 1
     /\ cutting' = IF n = "s_http_host_dead" THEN "refused" ELSE cutting
     /\ u' = CASE n \in {"s_http_host", "s_http_host_v6"} -> ExtendHost(next, s # n)
               [] n \in {"s_http_host_v6_zone_start", "s_http_host_v6_zone"} ->
                    ExtendHost(next, FALSE)
               [] n = "s_http_host_port" -> Extend("PORT", next, s # n)
               [] n = "s_http_userinfo"  -> Extend("USERINFO", next, s # n)
               [] OTHER -> u
     /\ UNCHANGED <<url, connect, host, found_at, old_uf>>

HostEnds == {"s_http_host", "s_http_host_v6_end", "s_http_host_port"}

Field(f) == SubSeq(url, u.at[f].off + 1, u.at[f].off + u.at[f].len)

\* strtoul
PortOf(digits) ==
  LET value[i \in 0 .. Len(digits)] ==
        IF i = 0 THEN 0 ELSE value[i - 1] * 10 + DigitOf(digits[i])
  IN value[Len(digits)]

\* The host has ended.
HostEnd ==
  LET port == IF "PORT" \in u.set THEN PortOf(Field("PORT")) ELSE 0
      ok == /\ s \in HostEnds
            /\ connect => u.set = {"HOST", "PORT"}
            /\ port <= MaxPort
  IN /\ cutting = "host" /\ next > host.off + host.len
     /\ cutting' = IF ok THEN "accepted" ELSE "refused"
     /\ u' = IF ok THEN [u EXCEPT !.port = port] ELSE u
     /\ UNCHANGED <<url, connect, s, next, host, found_at, old_uf>>

UrlNext == (\E t \in UrlTokens : UrlToken(t)) \/ UrlEnd \/ HostToken \/ HostEnd

UrlSpec == UrlInit /\ [][UrlNext]_urlVars

---------------------------------------------------------------------------
(* Correctness. *)

\* The order of the syntax.
Rank == [SCHEMA |-> 1, USERINFO |-> 2, HOST |-> 3, PORT |-> 4, PATH |-> 5, QUERY |-> 6, FRAGMENT |-> 7]

Delimiters == {<<":">>, <<"/">>, <<"@">>, <<"[">>, <<"]">>, <<"?">>, <<"#">>}

EndOf(f) == u.at[f].off + u.at[f].len

\* The fields of a URL that is accepted lie in it one after the other, in the
\* order of the syntax, and only delimiters are in no field.
FieldsTile ==
  cutting = "accepted" =>
    /\ \A f \in u.set : EndOf(f) <= Len(url)
    /\ \A f, g \in u.set : Rank[f] < Rank[g] => EndOf(f) <= u.at[g].off
    /\ \A i \in DOMAIN url :
         url[i] \in Delimiters \/ \E f \in u.set : i \in u.at[f].off + 1 .. EndOf(f)

\* A host is a name, or what stands between brackets; it is never empty, and
\* nothing of the user information or the port is in it.
HostIsClean ==
  LET h == {Field("HOST")[i] : i \in 1 .. u.at["HOST"].len}
  IN cutting = "accepted" /\ "HOST" \in u.set =>
       /\ h # {} /\ h \cap {<<"@">>, <<"[">>, <<"]">>, <<"/">>} = {}
       /\ <<":">> \in h => url[u.at["HOST"].off] = <<"[">>

\* http_parser_parse_url: both of these.
UrlsAreCut == FieldsTile /\ HostIsClean
=============================================================================
