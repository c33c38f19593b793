--------------------------- MODULE YtsMetadataUse ---------------------------
(***************************************************************************)
(* A message in the hands of an application: made from attributes or read  *)
(* from XML, given more attributes and children, extracted, and compared   *)
(* with others (yts-metadata.c; tests/message.c is one such application).  *)
(***************************************************************************)
EXTENDS YtsMetadata, FiniteSets

CONSTANTS
  Elements,        \* nodes messages are compared with, and their children
  Names, Values,   \* attributes an application adds
  AttributeLists,  \* what it makes messages from: name, value, name, value
  Children,        \* children it adds
  MaxAsked         \* bound: an attribute is added while there are fewer, and one
                   \* to what was read from XML

\* The attributes an application gives, the messages it makes of them, and those
\* it reads from XML.
ListPairs == UNION {{Pairs(list)[i] : i \in DOMAIN Pairs(list)} : list \in AttributeLists}
Keys == (Names \ {NoName}) \cup {p[1] : p \in ListPairs}
Texts == Values \cup {p[2] : p \in ListPairs}
OneChild(child) == Put(Empty, child.name, <<child>>)
OwnChildren == {Empty} \cup {OneChild(child) : child \in Children}
MadeMessages ==
  [node : [name : {"message"}, attrs : UNION {[K -> Texts] : K \in SUBSET Keys},
           content : {NoText}, children : OwnChildren],
   readonly : {FALSE}]
ReadMessages ==
  [node : [name : {"message"}, attrs : {n.attrs : n \in Elements},
           content : {n.content : n \in Elements},
           children : {n.children : n \in Elements} \cup OwnChildren],
   readonly : {TRUE}]

\* A node as librest has them: tables of attributes and, by their name, of the
\* children, none of which is NULL.
IsElement(n) ==
  /\ n = [name |-> n.name, attrs |-> n.attrs, content |-> n.content, children |-> n.children]
  /\ n.name \in STRING
  /\ n.attrs = [a \in DOMAIN n.attrs |-> n.attrs[a]]
  /\ IsFiniteSet(DOMAIN n.attrs)
  /\ \A a \in DOMAIN n.attrs : n.attrs[a] # NoText
  /\ \A c \in DOMAIN n.children :
       /\ c \in STRING
       /\ n.children[c] \in Seq(Elements) \ {<<>>}
       /\ n.children[c] # NoText
       /\ \A i \in DOMAIN n.children[c] : n.children[c][i].name = c

\* Elements holds what the application may come to compare.
ASSUME MetadataAssumption ==
  /\ \A n \in Elements : IsElement(n)
  /\ {m.node : m \in MadeMessages} \subseteq Elements
  /\ \A n \in Elements, child \in Children :
       n.name = "message" /\ n.children = Empty => [n EXCEPT !.children = OneChild(child)] \in Elements
  /\ Children \subseteq Elements
  /\ AttributeLists \subseteq Seq(STRING)
  /\ NoText \notin Texts \cup MadeMessages \cup ReadMessages
  /\ MaxAsked \in Nat

VARIABLES
  mdata,    \* the message, or NoText
  source,   \* the node it was read from, or that of a new message
  asked,    \* the names and values it was given since, in their order, without
            \* what was refused for want of a name
  added     \* the children it was given

use_vars == <<mdata, source, asked, added>>

-----------------------------------------------------------------------------
(* Comparison *)

\* Mutant: attributes are looked up and their values not compared.
CheckAttrs_Names(a, b) ==
  /\ Cardinality(DOMAIN a.attrs) = Cardinality(DOMAIN b.attrs)
  /\ \A k \in DOMAIN a.attrs : GetAttribute(b, k) # NoText

\* yts_rest_xml_node_check_attrs
CheckAttrs(a, b) ==
  /\ Cardinality(DOMAIN a.attrs) = Cardinality(DOMAIN b.attrs)
  /\ \A k \in DOMAIN a.attrs : GetAttribute(b, k) = a.attrs[k]

\* rest_xml_node_find: the first of the children of that name, or else a
\* descendant; NoText where there is none.
Find[p \in Elements \X STRING] ==
  LET n == p[1]
      c == p[2]
      below == {Find[<<n.children[k][1], c>>] : k \in DOMAIN n.children} \ {NoText}
  IN IF c \in DOMAIN n.children THEN n.children[c]
     ELSE IF below = {} THEN NoText ELSE CHOOSE x \in below : TRUE

\* yts_rest_xml_node_check_children, with yts_rest_xml_node_check_siblings:
\* the first of a list has its attributes and children compared, and so have
\* those that follow it, in their order.  What only the second node has is not
\* looked for, and the text of neither.
CheckChildren[p \in Elements \X Elements] ==
  LET a == p[1]
      b == p[2]
  IN /\ Cardinality(DOMAIN a.attrs) = Cardinality(DOMAIN b.attrs)
     /\ \A c \in DOMAIN a.children :
          LET mine == a.children[c]
              other == Find[<<b, c>>]
          IN /\ other # NoText
             /\ Len(mine) = Len(other)
             /\ \A i \in DOMAIN mine :
                  /\ CheckAttrs(mine[i], other[i])
                  /\ CheckChildren[<<mine[i], other[i]>>]

\* yts_metadata_is_equal
IsEqual(a, b) == CheckAttrs(a, b) /\ CheckChildren[<<a, b>>]

-----------------------------------------------------------------------------
(* The application *)

UseInit == mdata = NoText /\ source = NoText /\ asked = <<>> /\ added = Empty

\* yts_message_new
Make(list) ==
  /\ mdata = NoText
  /\ mdata' = NewMessage(list)
  /\ source' = Node("message", Empty) /\ asked' = Pairs(list)
  /\ UNCHANGED added

\* yts_metadata_new_from_xml
ReadXml(n) ==
  /\ mdata = NoText /\ n.name = "message"
  /\ mdata' = NewFromXml(n)
  /\ source' = n
  /\ UNCHANGED <<asked, added>>

\* yts_metadata_add_attribute
Add(a, v) ==
  /\ mdata # NoText
  /\ Len(asked) < IF mdata.readonly THEN 1 ELSE MaxAsked
  /\ mdata' = AddAttribute(mdata, a, v)
  /\ asked' = IF a = NoName THEN asked ELSE Append(asked, <<a, v>>)
  /\ UNCHANGED <<source, added>>

\* yts_metadata_get_root_node, and a child for it by way of librest, which does
\* not know of read-only metadata.
AddChild(child) ==
  /\ mdata # NoText
  /\ mdata.node.children = Empty
  /\ mdata' = [mdata EXCEPT !.node.children = OneChild(child)]
  /\ added' = Put(added, child.name, <<child>>)
  /\ UNCHANGED <<source, asked>>

UseNext ==
  \/ \E list \in AttributeLists : Make(list)
  \/ \E n \in Elements : ReadXml(n)
  \/ \E a \in Names, v \in Values : Add(a, v)
  \/ \E child \in Children : AddChild(child)

-----------------------------------------------------------------------------
\* What a node says, its text left out.
Skeleton[n \in Elements] ==
  [attrs |-> n.attrs,
   children |-> [c \in DOMAIN n.children |->
                   [i \in DOMAIN n.children[c] |-> Skeleton[n.children[c][i]]]]]

\* However a message came about, yts_metadata_is_equal finds it equal to itself
\* whatever its text, and equal both ways only to what says the same: what the
\* comparison leaves out on one side, the other side has.
EqualBothWays ==
  mdata # NoText =>
    \A b \in {n \in Elements : n.name = "message"} :
      (IsEqual(mdata.node, b) /\ IsEqual(b, mdata.node)) <=> Skeleton[mdata.node] = Skeleton[b]

\* The value asked for last, or else the one the message was read with.
Latest(a) ==
  LET given == {i \in DOMAIN asked : asked[i][1] = a}
  IN IF given = {} THEN source.attrs[a]
     ELSE asked[CHOOSE i \in given : \A k \in given : k <= i][2]

\* Extraction gives back the last value for each of the attributes a message was
\* made with and those added since, and nothing else; metadata read from XML
\* keeps the attributes it had.  Children are those read and those added.
ExtractedAsBuilt ==
  mdata # NoText =>
    LET extract == Extract(mdata)
        names == DOMAIN source.attrs \cup {asked[i][1] : i \in DOMAIN asked}
    IN /\ extract.attrs = IF mdata.readonly THEN source.attrs
                          ELSE [a \in names |-> Latest(a)]
       /\ extract.body.text = source.content
       /\ DOMAIN extract.body.children = DOMAIN source.children \cup DOMAIN added
=============================================================================
