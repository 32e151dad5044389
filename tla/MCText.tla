------------------------------- MODULE MCText -------------------------------
(***************************************************************************)
(* The texts that the processes read, one part per behavior: the parts of  *)
(* http (a stream through the push parser, a URL that is cut into its      *)
(* fields, the connections) and, as X, those of the XML library.           *)
(***************************************************************************)
EXTENDS HttpStream, HttpUrl, HttpConnections

CONSTANTS
  MaxText, MaxFuzz, MaxChars, TabSize, MaxNodes, Tags, MaxAttrs, AttrNames, Contents

VARIABLES
  part,                              \* what the behavior is about
  topic, rest, nodes, mode, error,   \* of MCXml; nodes, source and topic are
  source, tag, calls, failed,        \* its open, input and part
  chars, encoding, stamp, cursor, hung, dom, ring, held, saved, cut

xmlVars == <<topic, rest, nodes, mode, error, source, tag, calls, failed,
             chars, encoding, stamp, cursor, hung, dom, ring, held, saved, cut>>

X == INSTANCE MCXml WITH open <- nodes, input <- source, part <- topic

\* No control characters: how many of them are let through depends on the reads.
Printable ==
  {<<c>> : c \in {"CR", "LF", "SP", ":", ",", "/", ".", "0", "1", "x"}} \cup
  UNION {{<<w, 1>>, <<w, 2>>} : w \in {"GET", "HTTP", "content-length", "transfer-encoding",
                                       "chunked", "connection"}}

\* Either http happens, or XML.
Init ==
  \/ /\ part \in {"stream", "url", "connections"} /\ X!NoInit
     /\ StreamInit /\ HttpInit /\ UrlInit /\ (part # "url" => connect)
  \/ part = "xml" /\ X!Init /\ StreamInit /\ HttpInit /\ UrlInit /\ connect

Streams == part = "stream" /\ StreamNext /\ UNCHANGED <<part, urlVars, httpVars, xmlVars>>
Urls == part = "url" /\ UrlNext /\ UNCHANGED <<part, streamVars, httpVars, xmlVars>>
Connections == part = "connections" /\ HttpNext /\ UNCHANGED <<part, streamVars, urlVars, xmlVars>>
Xml == part = "xml" /\ X!Next /\ UNCHANGED <<part, streamVars, urlVars, httpVars>>

Next == Streams \/ Urls \/ Connections \/ Xml

Spec == Init /\ [][Next]_<<part, streamVars, urlVars, httpVars, xmlVars>>

---------------------------------------------------------------------------
\* The properties of MCXml.

\* The text of a configuration is read as what it says or refused.
TextIsKept == part = "xml" => X!TextIsKept

\* The row and column of a node do not depend on where nodes were stamped before.
CursorCountsLines == part = "xml" => X!CursorCountsLines

\* A text of any bytes lets Stamp come back.
BadBytesPass == part = "xml" => X!BadBytesPass

\* Children and attributes are found by name and in order, from both ends.
ListsAnswer == part = "xml" => X!ListsAnswer

\* The linked nodes implement trees with sequences of children.
KeepsKids == X!KeepsKids
=============================================================================
