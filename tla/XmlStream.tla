------------------------------- MODULE XmlStream -------------------------------
(***************************************************************************)
(* The >> operator of a document: before anything is parsed, the text of   *)
(* one document is taken out of a stream, up to the end of its root        *)
(* element and not a character more.  `calls' are the StreamIn functions   *)
(* that run, "children" being that of an element whose tag is read.        *)
(***************************************************************************)
EXTENDS XmlText

VARIABLES
  input,       \* the stream
  tag,         \* what was taken
  calls,       \* the nodes whose StreamIn runs
  failed       \* the stream ended, or something in it is no node

streamVars == <<input, tag, calls, failed>>

Closers == {">", "-->", "]]>"}           \* the units that end with a '>'

OpenStream(text) == input = text /\ tag = <<>> /\ calls = <<"document">> /\ failed = FALSE

Runs(call) == calls # <<>> /\ Last(calls) = call

Take(k) == tag' = tag \o SubSeq(input, 1, k) /\ input' = After(input, k)
Return(k) == Take(k) /\ calls' = Front(calls) /\ UNCHANGED failed
Call(k, call) == Take(k) /\ calls' = Append(calls, call) /\ UNCHANGED failed

\* Every StreamIn returns when the stream is no longer good.
GiveUp == failed' = TRUE /\ calls' = <<>> /\ tag' = tag \o input /\ input' = <<>>

\* Identify, of what starts with "<".
Identify(s) ==
  LET u == IF Len(s) = 1 THEN "" ELSE s[2] IN
  CASE u = "?xml" -> "declaration" [] u = "!--" -> "comment" [] u = "![CDATA[" -> "cdata"
    [] u \in Letter -> "element" [] OTHER -> "unknown"

\* What looks like a node is read up to a '>', which is left to the StreamIn
\* of that node.  The document ends with its first element.
StreamDocument ==
  /\ Runs("document")
  /\ LET space == IF tag = <<>> THEN Until(input, {"<"}) ELSE While(input, White)
         s == After(input, space)
         k == Until(s, Closers)
     IN  IF k = Len(s) \/ s[1] # "<" THEN GiveUp
         ELSE /\ Take(space + k) /\ UNCHANGED failed
              /\ calls' = IF Identify(s) = "element" THEN <<"element">> ELSE Append(calls, Identify(s))

\* A tag is taken to its '>'; an empty element ends there.
StreamTag ==
  /\ Runs("element")
  /\ LET k == Until(input, Closers) + 1
         t == tag \o SubSeq(input, 1, k - 1)
     IN  IF k > Len(input) THEN GiveUp
         ELSE IF input[k] = ">" /\ Last(t) = "/" THEN Return(k)
         ELSE Take(k) /\ calls' = Append(Front(calls), "children") /\ UNCHANGED failed

\* An element's part that starts with "<": the reading up to a '>' stops at the
\* beginning of CDATA, which may have a '>' of its own.
AtPart(s) == s # <<>> /\ s[1] = "<"

StreamPart ==
  /\ Runs("children")
  /\ LET space == While(input, White)
         s == After(input, space)
         k == Until(s, Closers)
         c == Until(s, {"![CDATA["})
     IN  /\ AtPart(s)
         /\ IF c < k THEN Call(space + c + 1, Identify(s))
            ELSE IF k = Len(s) THEN GiveUp
            ELSE IF SkipWhiteSpace(After(s, 1))[1] = "/" THEN Return(space + k + 1)
            ELSE Call(space + k, Identify(s))

StreamText ==
  /\ Runs("children")
  /\ LET space == While(input, White) k == Until(After(input, space), {"<"}) IN
       /\ ~AtPart(After(input, space))
       /\ IF space + k = Len(input) THEN GiveUp ELSE Take(space + k) /\ UNCHANGED <<calls, failed>>

\* A comment ends at a '>' after two hyphens, be they those of its beginning,
\* CDATA at one after two brackets, and the others at any.
StreamLeaf ==
  /\ calls # <<>> /\ Last(calls) \in {"comment", "cdata", "unknown", "declaration"}
  /\ LET ends == CASE Last(calls) = "comment" -> {"-->"} [] Last(calls) = "cdata" -> {"]]>"}
                   [] OTHER -> Closers
         k == IF Last(calls) = "comment" /\ Last(tag) = "!--" /\ input[1] = ">" THEN 1
              ELSE Until(input, ends) + 1
     IN  IF k > Len(input) THEN GiveUp ELSE Return(k)

StreamStep == StreamDocument \/ StreamTag \/ StreamPart \/ StreamText \/ StreamLeaf

\* Then what was taken is parsed.
ParseTaken ==
  /\ calls = <<>> /\ tag # <<>>
  /\ rest' = tag /\ open' = <<Document(<<>>)>> /\ mode' = "document" /\ error' = FALSE
  /\ tag' = <<>> /\ UNCHANGED <<input, calls, failed>>
===============================================================================
