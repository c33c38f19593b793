----------------------------- MODULE YtsMetadata -----------------------------
(***************************************************************************)
(* What a YtsMetadata is and says: XML nodes as librest has them,          *)
(* attributes and extraction (yts-metadata.c), the messages built from     *)
(* them (yts-message.c and three of its kin, yts-service.c), and the text  *)
(* of a GVariant that travels in an attribute.                             *)
(*                                                                         *)
(* A node has a name, a table of attributes, its text and, for each name,  *)
(* the sequence of its children of that name (librest's `next').  A        *)
(* GVariant is printed without its type, and read back by what it looks    *)
(* like: what holds for strings, for lists of strings that are not empty   *)
(* and for such dictionaries.  The text of an empty list, "[]", has no     *)
(* type to be found, and its reader aborts; inputs leave it out.           *)
(***************************************************************************)
EXTENDS Naturals, Sequences
Seqs == INSTANCE SequencesExt

CONSTANT
  NoText   \* NULL

Empty == [x \in {} |-> NoText]
Node(name, attrs) == [name |-> name, attrs |-> attrs, content |-> NoText, children |-> Empty]

-----------------------------------------------------------------------------
(* Attributes *)

\* rest_xml_node_add_attr: an attribute that is there gets the new value.
Put(attrs, a, v) == [x \in DOMAIN attrs \cup {a} |-> IF x = a THEN v ELSE attrs[x]]

\* yts_metadata_get_attribute
GetAttribute(node, a) == IF a \in DOMAIN node.attrs THEN node.attrs[a] ELSE NoText

\* The name that is no name.
NoName == ""

\* yts_metadata_add_attribute: not without a name or a value, and not on metadata
\* that was read from XML.
AddAttribute(mdata, a, v) ==
  IF a = NoName \/ v = NoText \/ mdata.readonly THEN mdata
  ELSE [mdata EXCEPT !.node.attrs = Put(@, a, v)]

\* A list of names and values as the pairs they make; one left over is left out.
Pairs(list) == [i \in 1..(Len(list) \div 2) |-> <<list[2 * i - 1], list[2 * i]>>]

\* Mutant: what is there stays.
Construct_Keeps(node, list) ==
  [node EXCEPT !.attrs = Seqs!FoldLeft(LAMBDA t, p : IF p[1] \in DOMAIN t THEN t ELSE Put(t, p[1], p[2]),
                                  @, Pairs(list))]

\* yts_metadata_constructed: the attributes given, in their order.
Construct(node, list) ==
  [node EXCEPT !.attrs = Seqs!FoldLeft(LAMBDA t, p : Put(t, p[1], p[2]), @, Pairs(list))]

\* yts_metadata_new_from_node; NULL where the node is no message.
NewFromNode(node, list) ==
  IF node.name = "message" THEN [node |-> Construct(node, list), readonly |-> FALSE]
  ELSE NoText

\* yts_metadata_new_from_xml, for the text of a message.
NewFromXml(node) == [NewFromNode(node, <<>>) EXCEPT !.readonly = TRUE]

\* yts_message_new
NewMessage(list) == NewFromNode(Node("message", Empty), list)

\* yts_metadata_extract: the attributes, and the text with the children as XML.
\* rest_xml_node_print writes a node with its siblings.
Extract(mdata) ==
  [attrs |-> mdata.node.attrs,
   body |-> [text |-> mdata.node.content, children |-> mdata.node.children]]

-----------------------------------------------------------------------------
(* The text of a GVariant *)

Brackets == [s |-> "quotes", as |-> "square", dict |-> "curly", b |-> "none"]

\* g_variant_print without the type, and g_uri_escape_string.
Printed(v) == [escaped |-> [in |-> Brackets[v.type], items |-> v.of]]

\* variant_new_from_escaped_literal
Parsed(text) ==
  [type |-> CHOOSE t \in DOMAIN Brackets : Brackets[t] = text.escaped.in, of |-> text.escaped.items]

-----------------------------------------------------------------------------
(* Messages *)

Message(attrs) == [node |-> Node("message", attrs), readonly |-> FALSE]

\* An attribute for a GVariant, where there is one.
Argument(a, v) == IF v = NoText THEN Empty ELSE Put(Empty, a, Printed(v))

\* create_message, with the capability SERVICE_FQC_ID.
CreateMessage(type, payload) ==
  Message([type |-> type, capability |-> "service", payload |-> Printed(payload)])

\* The three lists and texts of yts_service_send_text, _list and _dictionary.
TextMessage(text) == CreateMessage("text", [type |-> "s", of |-> text])
ListMessage(texts) == CreateMessage("list", [type |-> "as", of |-> texts])

DictionaryMessage(dictionary) ==
  CreateMessage("dictionary", [type |-> "dict", of |-> Pairs(dictionary)])

Joined(f, g) == [x \in DOMAIN f \cup DOMAIN g |-> IF x \in DOMAIN f THEN f[x] ELSE g[x]]

\* yts_event_message_new
EventMessage(capability, aspect, arguments) ==
  Message(Joined([type |-> "event", capability |-> capability, aspect |-> aspect],
                 Argument("arguments", arguments)))

\* yts_invocation_message_new
InvocationMessage(invocation_id, capability, aspect, arguments) ==
  Message(Joined([type |-> "invocation", invocation |-> invocation_id,
                  capability |-> capability, aspect |-> aspect],
                 Argument("arguments", arguments)))

\* yts_response_message_new
ResponseMessage(capability, invocation_id, response) ==
  Message(Joined([type |-> "response", capability |-> capability, invocation |-> invocation_id],
                 Argument("response", response)))
=============================================================================
