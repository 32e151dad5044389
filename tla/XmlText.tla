-------------------------------- MODULE XmlText --------------------------------
(***************************************************************************)
(* The text side of the XML reader that every configuration file goes      *)
(* through: a document is printed, and the text is parsed again.  A text   *)
(* is a sequence of lexical units: "<", "/", a letter, "&", what follows   *)
(* an "&" in a reference ("lt;", "#x41;"), "!--" and so on.  The actions   *)
(* parse it the way the recursive descent of the code does, `open' being   *)
(* the nodes whose Parse is running.  Indentation is left out, row and     *)
(* column are in XmlCursor, and all errors are one.                        *)
(***************************************************************************)
EXTENDS Naturals, Sequences, SequencesExt, FiniteSetsExt

VARIABLES
  rest,        \* what is not parsed yet; empty as well when the code's p is null
  open,        \* the document, and the nodes being parsed
  mode,        \* whose loop runs: "document", "declaration", "attributes", "value", or "done"
  error        \* the document's error flag

textVars == <<rest, open, mode, error>>

Letter == {"a", "b", "x", "A", "version"}
White == {" ", "\n"}
Quote == {"'", "\""}

Node(k, v, as, ks) == [kind |-> k, value |-> v, attrs |-> as, kids |-> ks]
IsText(n) == n.kind = "text"

---------------------------------------------------------------------------
\* Printing.

Reference(c) ==
  CASE c = "&" -> <<"&", "amp;">> [] c = "<" -> <<"&", "lt;">> [] c = ">" -> <<"&", "gt;">>
    [] c = "\"" -> <<"&", "quot;">> [] c = "'" -> <<"&", "apos;">> [] c = "\n" -> <<"&", "#x0A;">>
    [] OTHER -> <<c>>

\* Variant: a quote is not encoded.
EncodeNoQuote(s) == FlattenSeq([i \in DOMAIN s |-> IF s[i] = "\"" THEN <<s[i]>> ELSE Reference(s[i])])

\* A hexadecimal character reference in a value is passed through.
EncodeString(s) ==
  FlattenSeq([i \in DOMAIN s |->
    IF s[i] = "&" /\ i < Len(s) /\ s[i + 1] = "#x41;" THEN <<"&">> ELSE Reference(s[i])])

PrintAttribute(a) ==
  LET q == IF "\"" \in {a[2][i] : i \in DOMAIN a[2]} THEN "'" ELSE "\""
  IN  <<" ">> \o EncodeString(a[1]) \o <<"=", q>> \o EncodeString(a[2]) \o <<q>>

PrintTag(n) == <<"<">> \o n.value \o FlattenSeq([i \in DOMAIN n.attrs |-> PrintAttribute(n.attrs[i])])

PrintLeaf(n) ==
  CASE n.kind = "text" -> EncodeString(n.value)
    [] n.kind = "cdata" -> <<"<", "![CDATA[">> \o n.value \o <<"]]>">>
    [] n.kind = "comment" -> <<"<", "!--">> \o n.value \o <<"-->">>
    [] n.kind = "unknown" -> <<"<">> \o n.value \o <<">">>
    [] n.kind = "declaration" ->
         <<"<", "?xml">> \o (IF n.value = <<>> THEN <<>>
                             ELSE <<" ", "version", "=", "\"">> \o n.value \o <<"\"">>)
           \o <<" ", "?", ">">>

\* To a file: only a node that is not text starts a new line, and CDATA stands
\* on lines of its own.
RECURSIVE PrintFile(_)
PrintFile(n) ==
  IF n.kind = "cdata" THEN <<"\n">> \o PrintLeaf(n) \o <<"\n">>
  ELSE IF n.kind # "element" THEN PrintLeaf(n)
  ELSE IF n.kids = <<>> THEN PrintTag(n) \o <<" ", "/", ">">>
  ELSE LET End == <<"<", "/">> \o n.value \o <<">">>
           Alone == Len(n.kids) = 1 /\ n.kids[1].kind \in {"text", "cdata"}
           Line(c) == (IF c.kind \in {"text", "cdata"} THEN <<>> ELSE <<"\n">>) \o PrintFile(c)
       IN  PrintTag(n) \o <<">">>
             \o (IF Alone THEN PrintFile(n.kids[1])
                          ELSE FlattenSeq([i \in DOMAIN n.kids |-> Line(n.kids[i])]) \o <<"\n">>)
             \o End

\* TiXmlPrinter: every node on its own line, but for an only child that is text.
RECURSIVE PrintVisit(_)
PrintVisit(n) ==
  IF n.kind # "element" THEN PrintLeaf(n) \o <<"\n">>
  ELSE IF n.kids = <<>> THEN PrintTag(n) \o <<" ", "/", ">", "\n">>
  ELSE PrintTag(n) \o <<">">>
         \o (IF Len(n.kids) = 1 /\ IsText(n.kids[1]) THEN PrintLeaf(n.kids[1])
             ELSE <<"\n">> \o FlattenSeq([i \in DOMAIN n.kids |-> PrintVisit(n.kids[i])]))
         \o <<"<", "/">> \o n.value \o <<">", "\n">>

PrintDocument(style, ks) ==
  FlattenSeq([i \in DOMAIN ks |-> IF style = "file" THEN PrintFile(ks[i]) \o <<"\n">>
                                                    ELSE PrintVisit(ks[i])])

---------------------------------------------------------------------------
\* Reading characters.

\* How many units of s stand before the first of the places in bad, all of them when
\* there is none; and what follows the first k.
Before(s, bad) == IF bad = {} THEN Len(s) ELSE Min(bad) - 1
After(s, k) == [i \in 1 .. Len(s) - k |-> s[i + k]]

Until(s, C) == Before(s, {i \in DOMAIN s : s[i] \in C})
While(s, C) == Before(s, {i \in DOMAIN s : s[i] \notin C})
SkipWhiteSpace(s) == After(s, While(s, White))

Decoded(ref) ==
  CASE ref = "amp;" -> "&" [] ref = "lt;" -> "<" [] ref = "gt;" -> ">" [] ref = "quot;" -> "\""
    [] ref = "apos;" -> "'" [] ref = "#x0A;" -> "\n" [] ref = "#x41;" -> "A"
References == {"amp;", "lt;", "gt;", "quot;", "apos;", "#x0A;", "#x41;"}

\* GetChar and GetEntity: an "&" that starts no reference is lost.
DecodeUnit(acc, t) ==
  IF acc.ref /\ t \in References THEN [acc EXCEPT !.out = Append(@, Decoded(t)), !.ref = FALSE]
  ELSE [out |-> IF t = "&" THEN acc.out ELSE Append(acc.out, t), ref |-> t = "&"]
Decode(s) == FoldLeft(DecodeUnit, [out |-> <<>>, ref |-> FALSE], s).out

\* ReadText of a text: white space before it and after it is dropped, and any
\* white space inside is one space.
Condense(s, white) ==
  LET black == {i \in DOMAIN s : s[i] \notin white}
      Gap(i) == i - 1 \notin black /\ \E j \in black : j < i
  IN  FlattenSeq([i \in DOMAIN s |-> IF i \notin black THEN <<>> ELSE IF Gap(i) THEN <<" ", s[i]>> ELSE <<s[i]>>])

Blank(s) == \A i \in DOMAIN s : s[i] \in White

---------------------------------------------------------------------------
\* The nodes being parsed.

Document(ks) == Node("document", <<>>, <<>>, ks)
AddChild(o, n) == [o EXCEPT ![Len(o)].kids = Append(@, n)]
Close(o) == AddChild(Front(o), Last(o))
LoopOf(o) == IF Len(o) = 1 THEN "document" ELSE "value"

\* Every Parse that runs returns null, and its node is linked all the same.
RECURSIVE Unwind(_)
Unwind(o) == IF Len(o) = 1 THEN o ELSE Unwind(Close(o))

Load(text) ==
  /\ rest = text /\ open = <<Document(<<>>)>> /\ mode = "document" /\ error = FALSE

Fail == rest' = <<>> /\ open' = Unwind(open) /\ mode' = "done" /\ error' = TRUE

\* A document stops where no node starts, and is in error only when it is empty.
Stop ==
  /\ rest' = <<>> /\ open' = Unwind(open) /\ mode' = "done"
  /\ error' = (error \/ Unwind(open)[1].kids = <<>>)

Text == SkipWhiteSpace(rest)
First == IF Len(Text) < 1 THEN "" ELSE Text[1]
Second == IF Len(Text) < 2 THEN "" ELSE Text[2]

EndDocument == mode = "document" /\ First # "<" /\ Stop

\* Identify: where a node starts.
AtNode == First = "<" /\ (mode = "document" \/ (mode = "value" /\ Second # "/"))

Leaf(kind, value, following) ==
  /\ open' = AddChild(open, Node(kind, value, <<>>, <<>>)) /\ rest' = following
  /\ UNCHANGED <<mode, error>>

ParseComment ==
  /\ AtNode /\ Second = "!--"
  /\ LET s == After(Text, 2) k == Until(s, {"-->"}) IN Leaf("comment", SubSeq(s, 1, k), After(s, k + 1))

ParseCData ==
  /\ AtNode /\ Second = "![CDATA["
  /\ LET s == After(Text, 2) k == Until(s, {"]]>"}) IN Leaf("cdata", SubSeq(s, 1, k), After(s, k + 1))

ParseUnknown ==
  /\ AtNode /\ Second \notin Letter \cup {"!--", "![CDATA[", "?xml"}
  /\ LET s == After(Text, 1) k == Until(s, {">"}) IN Leaf("unknown", SubSeq(s, 1, k), After(s, k + 1))

ParseElement ==
  /\ AtNode /\ Second \in Letter
  /\ LET s == After(Text, 1) k == While(s, Letter)
         o == Append(open, Node("element", SubSeq(s, 1, k), <<>>, <<>>))
     IN  IF k = Len(s)
         THEN rest' = <<>> /\ open' = Unwind(o) /\ mode' = "done" /\ error' = TRUE
         ELSE rest' = After(s, k) /\ open' = o /\ mode' = "attributes" /\ UNCHANGED error

---------------------------------------------------------------------------
\* TiXmlAttribute::Parse at s: the attribute, or that there is none.

NoAttribute == [name |-> <<>>, value |-> <<>>, rest |-> <<>>]
ParseAttribute(s) ==
  LET k == While(s, Letter)
      e == SkipWhiteSpace(After(s, k))
      v == SkipWhiteSpace(After(e, 1))
      q == After(v, 1)
      Quoted == LET n == Until(q, {v[1]}) IN
        [name |-> SubSeq(s, 1, k), value |-> Decode(SubSeq(q, 1, n)), rest |-> After(q, n + 1)]
      Bare == LET n == Until(v, White \cup Quote \cup {"/", ">"}) IN
        [name |-> SubSeq(s, 1, k), value |-> SubSeq(v, 1, n),
         rest |-> IF n < Len(v) /\ v[n + 1] \in Quote THEN <<>> ELSE After(v, n)]
  IN  IF k = 0 \/ e = <<>> \/ v = <<>> \/ e[1] # "=" THEN NoAttribute
      ELSE IF v[1] \in Quote THEN Quoted ELSE Bare

EmptyElement ==
  /\ mode = "attributes" /\ First = "/" /\ Second = ">"
  /\ open' = Close(open) /\ rest' = After(Text, 2) /\ mode' = LoopOf(Front(open))
  /\ UNCHANGED error

BeginValue ==
  /\ mode = "attributes" /\ First = ">"
  /\ rest' = After(Text, 1) /\ mode' = "value" /\ UNCHANGED <<open, error>>

\* A value that nothing follows, or a second attribute of a name, is an error.
Attribute ==
  /\ mode = "attributes" /\ First \notin {"", "/", ">"}
  /\ LET a == ParseAttribute(Text) as == Last(open).attrs IN
       IF a.rest = <<>> \/ \E i \in DOMAIN as : as[i][1] = a.name THEN Fail
       ELSE /\ open' = [open EXCEPT ![Len(open)].attrs = Append(@, <<a.name, a.value>>)]
            /\ rest' = a.rest /\ UNCHANGED <<mode, error>>

BadAttributes == mode = "attributes" /\ (First = "" \/ (First = "/" /\ Second # ">")) /\ Fail

---------------------------------------------------------------------------
\* TiXmlElement::ReadValue and the end tag.

ParseText ==
  /\ mode = "value" /\ First \notin {"", "<"}
  /\ LET k == Until(Text, {"<"}) v == Decode(Condense(SubSeq(Text, 1, k), White)) IN
       /\ open' = IF Blank(v) THEN open ELSE AddChild(open, Node("text", v, <<>>, <<>>))
       /\ rest' = IF Len(Text) > k + 1 THEN After(Text, k) ELSE <<>>
  /\ UNCHANGED <<mode, error>>

EndTag ==
  /\ mode = "value" /\ First = "<" /\ Second = "/"
  /\ LET name == Last(open).value
         s == SkipWhiteSpace(After(Text, 2 + Len(name)))
     IN  IF IsPrefix(name, After(Text, 2)) /\ s # <<>> /\ s[1] = ">"
         THEN open' = Close(open) /\ rest' = After(s, 1) /\ mode' = LoopOf(Front(open)) /\ UNCHANGED error
         ELSE Fail

EndOfValue == mode = "value" /\ First = "" /\ Fail

---------------------------------------------------------------------------
\* TiXmlDeclaration::Parse.

ParseDeclaration ==
  /\ AtNode /\ Second = "?xml"
  /\ open' = Append(open, Node("declaration", <<>>, <<>>, <<>>)) /\ rest' = After(Text, 2)
  /\ mode' = "declaration" /\ UNCHANGED error

Version ==
  /\ mode = "declaration" /\ First = "version"
  /\ LET a == ParseAttribute(Text) IN
       open' = [open EXCEPT ![Len(open)].value = a.value] /\ rest' = a.rest
  /\ UNCHANGED <<mode, error>>

SkipInDeclaration ==
  /\ mode = "declaration" /\ First \notin {"", ">", "version"}
  /\ rest' = After(Text, Until(Text, White \cup {">"}))
  /\ UNCHANGED <<open, mode, error>>

\* At its end, or when p is null, which no error reports.
EndDeclaration ==
  /\ mode = "declaration" /\ First \in {"", ">"}
  /\ open' = Close(open) /\ rest' = After(Text, 1) /\ mode' = LoopOf(Front(open))
  /\ UNCHANGED error

ParseStep ==
  \/ EndDocument \/ ParseComment \/ ParseCData \/ ParseUnknown \/ ParseElement
  \/ EmptyElement \/ BeginValue \/ Attribute \/ BadAttributes
  \/ ParseText \/ EndTag \/ EndOfValue
  \/ ParseDeclaration \/ Version \/ SkipInDeclaration \/ EndDeclaration

---------------------------------------------------------------------------
\* What a document is after it was printed and read, defined on the tree: a
\* character reference is the character, texts that nothing separates are one,
\* white space is condensed but for newlines, which are printed as references,
\* and a blank text is gone.

Resolve(v) ==
  FlattenSeq([i \in DOMAIN v |->
    IF v[i] = "&" /\ i < Len(v) /\ v[i + 1] = "#x41;" THEN <<"A">>
    ELSE IF v[i] = "#x41;" /\ i > 1 /\ v[i - 1] = "&" THEN <<>> ELSE <<v[i]>>])

Joined(style, ks) ==
  FoldLeft(LAMBDA acc, n : IF IsText(n) /\ acc # <<>> /\ IsText(Last(acc))
             THEN [acc EXCEPT ![Len(acc)].value = @ \o (IF style = "file" THEN <<>> ELSE <<" ">>) \o n.value]
             ELSE Append(acc, n), <<>>, ks)

RECURSIVE Canon(_, _)
Canon(style, n) ==
  LET resolved == [i \in DOMAIN n.kids |->
        IF IsText(n.kids[i]) THEN [n.kids[i] EXCEPT !.value = Resolve(@)] ELSE Canon(style, n.kids[i])]
      joined == Joined(style, resolved)
      trimmed == [i \in DOMAIN joined |->
        IF IsText(joined[i]) THEN [joined[i] EXCEPT !.value = Condense(@, {" "})] ELSE joined[i]]
  IN  [n EXCEPT !.attrs = [i \in DOMAIN @ |-> <<@[i][1], Resolve(@[i][2])>>],
                !.kids = SelectSeq(trimmed, LAMBDA k : ~(IsText(k) /\ Blank(k.value)))]
===============================================================================
