--------------------------------- MODULE MCXml ---------------------------------
EXTENDS XmlStream, XmlCursor, XmlTree, XmlAttributes

CONSTANTS MaxText, MaxFuzz, MaxChars

VARIABLES
  part,        \* what of the library this behavior is about
  saved,       \* the tree that was printed, or none
  cut          \* whether the text was cut short

vars == <<part, textVars, streamVars, cursorVars, dom, attrVars, saved, cut>>

Upto(S, n) == UNION {[1 .. k -> S] : k \in 0 .. n}
Strings == Upto({"x", " ", "\n", "&", "#x41;", "<", "\""}, MaxText)
Leaf1(k, v) == Node(k, v, <<>>, <<>>)
Elem(v, as, ks) == Node("element", v, as, ks)
Children ==
  {Leaf1("text", v) : v \in Strings} \cup {Leaf1("cdata", v) : v \in {<<>>, <<" ">>, <<"<", "x">>}}
  \cup {Leaf1("comment", v) : v \in {<<"&", "<", "a", ">">>}}
  \cup {Elem(<<"b">>, <<>>, ks) : ks \in {<<>>, <<Leaf1("text", <<"x">>)>>, <<Elem(<<"b", "a">>, <<>>, <<>>)>>}}
Heads == {<<>>, <<Leaf1("declaration", <<"x">>), Leaf1("comment", <<"x">>)>>}
Roots ==
  {Elem(<<"a">>, <<>>, ks) : ks \in Upto(Children, 2)}
  \cup {Elem(<<"a">>, <<<<<<"b">>, v>>, <<<<"x">>, w>>>>, <<>>) : v \in Strings, w \in {<<>>, <<"'", "x">>}}
Few == {Elem(<<"a">>, <<<<<<"b">>, <<"x">>>>>>, ks) :
          ks \in Upto({c \in Children : c.kind # "text" \/ c.value \in {<<"x">>, <<"x", "<">>}}, 2)}
Styles == {"file", "printer"}
Texts == {<<"<", "a">> \o s : s \in Upto({"<", "/", ">", "a", "=", " ", "\"", "&"}, MaxFuzz)}

NoTree == [style |-> "none"]
Printed(t) == PrintDocument(t.style, t.kids)

IdleText == rest = <<>> /\ open = <<Document(<<>>)>> /\ mode = "idle" /\ error = FALSE
IdleStream == input = <<>> /\ tag = <<>> /\ calls = <<>> /\ failed = FALSE
IdleCursor == StartCursor(<<>>) /\ encoding = "utf8"

Init ==
  /\ TreeInit /\ AttrInit
  /\ \/ /\ part = "saved" /\ IdleStream /\ IdleCursor /\ cut = FALSE
        /\ saved \in {[style |-> st, kids |-> <<r>>] : st \in Styles, r \in Roots} /\ Load(Printed(saved))
     \/ /\ part = "saved" /\ IdleStream /\ IdleCursor
        /\ saved \in {[style |-> st, kids |-> h \o <<r>>] : st \in Styles, h \in Heads, r \in Few}
        /\ \E k \in 0 .. Len(Printed(saved)) : Load(SubSeq(Printed(saved), 1, k)) /\ cut = (k < Len(Printed(saved)))
     \/ /\ part = "text" /\ IdleStream /\ IdleCursor /\ saved = NoTree /\ cut = FALSE /\ \E t \in Texts : Load(t)
     \/ /\ part = "stream" /\ IdleText /\ IdleCursor /\ cut \in BOOLEAN
        /\ saved \in {[style |-> st, kids |-> h \o <<r>>] : st \in Styles, h \in Heads, r \in Few}
        /\ OpenStream(IF cut THEN Front(Front(Printed(saved))) ELSE Printed(saved) \o <<"x", "<">>)
     \/ /\ part = "cursor" /\ IdleText /\ IdleStream /\ saved = NoTree /\ cut = FALSE
        /\ encoding \in {"utf8", "legacy"} /\ \E s \in Upto({"\r", "\n", "\t", "c", "lead", "ef", "bb", "bf"}, MaxChars) : StartCursor(s)
     \/ part \in {"tree", "attributes"} /\ IdleText /\ IdleStream /\ IdleCursor /\ saved = NoTree /\ cut = FALSE

\* None of them.
NoInit ==
  /\ part = "none" /\ IdleText /\ IdleStream /\ IdleCursor /\ TreeInit /\ AttrInit
  /\ saved = NoTree /\ cut = FALSE

\* SaveFile or a TiXmlPrinter, and the text is read again.
Save ==
  /\ part = "text" /\ mode = "done" /\ ~error /\ saved = NoTree
  /\ \E st \in Styles :
       LET t == [style |-> st, kids |-> open[1].kids] IN
         /\ saved' = t
         /\ rest' = Printed(t) /\ open' = <<Document(<<>>)>> /\ mode' = "document" /\ error' = FALSE
  /\ UNCHANGED <<part, cut, streamVars, cursorVars, dom, attrVars>>

Parsing ==
  /\ ParseStep /\ UNCHANGED <<part, saved, cut, streamVars, cursorVars, dom, attrVars>>

Streaming ==
  /\ part = "stream"
  /\ (StreamStep /\ UNCHANGED textVars) \/ ParseTaken
  /\ UNCHANGED <<part, saved, cut, cursorVars, dom, attrVars>>

Stamping ==
  /\ part = "cursor" /\ \E now \in stamp .. Len(chars) : Stamp(now)
  /\ UNCHANGED <<part, saved, cut, textVars, streamVars, dom, attrVars>>

Linking ==
  /\ part = "tree" /\ TreeStep
  /\ UNCHANGED <<part, saved, cut, textVars, streamVars, cursorVars, attrVars>>

Setting ==
  /\ part = "attributes" /\ AttrStep
  /\ UNCHANGED <<part, saved, cut, textVars, streamVars, cursorVars, dom>>

Next == Linking \/ Setting \/ Save \/ Parsing \/ Streaming \/ Stamping
Spec == Init /\ [][Next]_vars

\* What was printed reads back as the same tree, whatever the characters in its
\* texts and attributes, but for the white space and the neighboring texts that
\* Canon names.
RoundTrip ==
  mode = "done" /\ ~cut /\ saved # NoTree => ~error /\ open[1] = Canon(saved.style, Document(saved.kids))

\* A text that was cut short is an error, or has no root element, or only what
\* stands after the root is missing.
CutIsSeen ==
  mode = "done" /\ cut /\ ~error =>
    LET Elems(d) == SelectSeq(d.kids, LAMBDA n : n.kind = "element")
    IN  Elems(open[1]) \in {<<>>, Elems(Canon(saved.style, Document(saved.kids)))}

\* operator>> takes one document and leaves what follows in the stream, and it
\* fails when the document does not end.
StreamTakesOne ==
  part = "stream" /\ calls = <<>> /\ mode = "idle" =>
    failed = cut /\ (~cut => tag = Front(Printed(saved)))

\* The text of a configuration is read as what it says or refused: printing and
\* Parse are inverse up to white space, a file that was cut short does not pass
\* for another tree, and operator>> takes one document.
TextIsKept == RoundTrip /\ CutIsSeen /\ StreamTakesOne

\* Children and attributes are found by name and in order, by the loops and
\* from both ends, after any sequence of insertions and removals.
ListsAnswer ==
  /\ part = "tree" => ListsAgree /\ LoopsVisitAll
  /\ part = "attributes" => AttributesAreHeld
===============================================================================
