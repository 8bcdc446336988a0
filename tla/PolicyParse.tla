---------------------------- MODULE PolicyParse ----------------------------
(***************************************************************************)
(* A Policy object and the YAML documents it is set from: setPolicy with   *)
(* setMetadata, setAction and PolicyRules::setRules.  One object may be    *)
(* set again and again; an exception of yaml-cpp may end setPolicy         *)
(* half-way.  The Controller and the Deployer have the same code.          *)
(***************************************************************************)
EXTENDS Naturals, Sequences

CONSTANTS Documents,   \* the parsed texts, or Broken ones
          Broken,      \* a text YAML::Load cannot parse
          Nodes        \* the nodes Documents are made of

(***************************************************************************)
(* YAML nodes, as far as this code sees them.  Zombie is what yaml-cpp     *)
(* gives for a key that is not there; a node of type "raise" stands for    *)
(* an exception on its way, "undefined" for undefined behaviour.           *)
(***************************************************************************)
YNode(type, text, entries) == [type |-> type, text |-> text, entries |-> entries]
Scalar(text) == YNode("Scalar", text, <<>>)
YMap(entries) == YNode("Map", "none", entries)
YListing(entries) == YNode("Sequence", "none", entries)
YSeq(nodes) ==
  YListing([i \in 1..Len(nodes) |-> [key |-> "none", value |-> nodes[i]]])
Null == YNode("Null", "none", <<>>)
Missing == YNode("Undefined", "none", <<>>)
Zombie == YNode("Zombie", "none", <<>>)
Raise(what) == YNode("raise", what, <<>>)

IsRaise(node) == node.type = "raise"

(* What the parser makes: nodes of these types all the way down.           *)
ASSUME PolicyParseAssumption ==
  /\ Documents \subseteq Nodes \cup {Broken} /\ Broken \notin Nodes
  /\ \A node \in Nodes :
       /\ node \in {Null, Scalar(node.text), YMap(node.entries),
                    YListing(node.entries)}
       /\ Len(node.entries) \in Nat
       /\ \A i \in 1..Len(node.entries) : node.entries[i].value \in Nodes

(* What a method of Node gives: it raises when the node is no node.        *)
OfValid(node, value) ==
  CASE node.type = "raise" -> node
    [] node.type = "Zombie" -> Raise("InvalidNode")
    [] OTHER -> value

(* The entry with this key, of several the first: at most one.             *)
FirstWith(node, key) ==
  {i \in 1..Len(node.entries) :
     /\ node.type = "Map" /\ node.entries[i].key = key
     /\ \A j \in 1..(i - 1) : node.entries[j].key # key}

(* node_data::get: "other" is what it gives where no entry has this key.   *)
Get(node, key, other) ==
  LET places == FirstWith(node, key)
  IN  IF node.type = "Scalar" THEN Raise("BadSubscript")
      ELSE IF places = {} THEN other
      ELSE node.entries[CHOOSE i \in places : TRUE].value

(* The other get makes a map of the node, with an entry of no value.       *)
GetOrNew(node, key) == Get(node, key, Missing)

At(node, key) == OfValid(node, Get(node, key, Zombie))    \* of a const Node
AtOrNew(node, key) == OfValid(node, GetOrNew(node, key))  \* of a Node

(* as<std::string>() gives the scalar or raises.                           *)
ScalarOf(node) ==
  IF node.type = "Scalar" THEN node ELSE Raise("TypedBadConversion")
AsString(node) == OfValid(node, ScalarOf(node))

Size(node) == IF node.type \in {"Map", "Sequence"} THEN Len(node.entries) ELSE 0

(* What an iterator goes through: an element of a sequence is a node, and  *)
(* a pair of zombies; one of a map is a zombie, and a pair.                *)
Values(node) ==
  [i \in 1..Size(node) |-> node.entries[i].value]
Elements(node) ==
  [i \in 1..Size(node) |->
     IF node.type = "Sequence" THEN Values(node)[i] ELSE Zombie]
Seconds(node) ==
  [i \in 1..Size(node) |-> IF node.type = "Map" THEN Values(node)[i] ELSE Zombie]

(* *begin() and begin()->second                                            *)
Begin(node, values) ==
  CASE node.type = "raise" -> node
    [] node.type \in {"Map", "Sequence"} ->
         IF values = <<>> THEN Raise("undefined") ELSE values[1]
    [] OTHER -> Null
First(node) == Begin(node, Elements(node))
FirstSecond(node) == Begin(node, Seconds(node))

-----------------------------------------------------------------------------
(* PolicyRules: what setRules raises, or Null when it returns.  It stores  *)
(* nothing, whatever the rules are.                                        *)

FirstOf(raised) ==
  LET bad == {i \in 1..Len(raised) :
                IsRaise(raised[i]) /\ \A j \in 1..(i - 1) : ~IsRaise(raised[j])}
  IN  IF bad = {} THEN Null ELSE raised[CHOOSE i \in bad : TRUE]

PrintSource(source) ==
  AsString(First(FirstSecond(FirstSecond(source))))

PrintFrom(rule) ==
  LET from == At(rule, "from")
      sources == Elements(from)
  IN  IF IsRaise(from) THEN from
      ELSE IF from.type = "Zombie" THEN Raise("InvalidNode")
      ELSE FirstOf([i \in 1..Len(sources) |-> PrintSource(sources[i])])

setFrom(rule) ==
  LET from == At(rule, "from")
      inner == Elements(rule)
  IN  IF IsRaise(from) THEN from
      ELSE IF rule.type # "Sequence" THEN Null
      ELSE FirstOf([i \in 1..Len(inner) |-> PrintFrom(inner[i])])

setRules(rules) ==
  LET rule == First(rules) IN IF IsRaise(rule) THEN rule ELSE setFrom(rule)

-----------------------------------------------------------------------------
VARIABLES m_name, m_namespace,  \* members of the Policy
          m_action,             \* "garbage" is memory never written
          policy,               \* the document of the call in progress or last
          making,               \* the call is made by the constructor
          pc,                   \* "none" before there is a Policy
          outcome               \* how the last setPolicy ended

vars == <<m_name, m_namespace, m_action, policy, making, pc, outcome>>
members == <<m_name, m_namespace, m_action>>

Init ==
  /\ m_name = "empty" /\ m_namespace = "empty" /\ m_action = "garbage"
  /\ policy = Null /\ making = FALSE /\ pc = "none" /\ outcome = "none"

(* The end of setPolicy, with a result or an exception.  When there is an  *)
(* exception in the constructor there is no Policy.                        *)
Ends(how) ==
  /\ outcome' = how
  /\ pc' = IF making /\ how \notin {"true", "false"} THEN "none" ELSE "idle"
  /\ UNCHANGED <<policy, making>>

Continue(label) == pc' = label /\ UNCHANGED <<policy, making, outcome>>

(* Undefined behaviour: it goes on as if nothing had been raised, or it is *)
(* the end of the process.                                                 *)
Raised(node) ==
  \/ node.text # "undefined" /\ Ends(node.text)
  \/ node.text = "undefined" /\ Ends("true")
  \/ /\ node.text = "undefined" /\ pc' = "none" /\ outcome' = "none"
     /\ UNCHANGED <<policy, making>>

ConstructEmpty ==
  /\ pc = "none"
  /\ m_name' = "empty" /\ m_namespace' = "empty" /\ m_action' = "UNKNOWN"
  /\ pc' = "idle" /\ outcome' = "none" /\ making' = FALSE
  /\ UNCHANGED policy

ConstructFrom(text) ==
  /\ pc = "none"
  /\ m_name' = "empty" /\ m_namespace' = "empty" /\ m_action' = "garbage"
  /\ policy' = text /\ making' = TRUE /\ pc' = "load" /\ outcome' = "none"

SetPolicy(text) ==
  /\ pc = "idle"
  /\ policy' = text /\ making' = FALSE /\ pc' = "load" /\ outcome' = "none"
  /\ UNCHANGED members

Load ==
  /\ pc = "load"
  /\ IF policy = Broken THEN Ends("false") ELSE Continue("version")
  /\ UNCHANGED members

(* A field of the document that must have one value.                       *)
Check(label, key, value, next) ==
  /\ pc = label
  /\ LET field == AsString(AtOrNew(policy, key))
     IN  \/ IsRaise(field) /\ Raised(field)
         \/ ~IsRaise(field) /\ field.text # value /\ Ends("false")
         \/ ~IsRaise(field) /\ field.text = value /\ Continue(next)
  /\ UNCHANGED members

CheckVersion == Check("version", "apiVersion", "v1beta1", "kind")
CheckKind == Check("kind", "kind", "AuthorizationPolicy", "metadata")

(* Faulty variant: an off-by-one in the least number of entries.           *)
TooFewOrTwo(metadata) == Size(metadata) <= 2

TooFew(metadata) == Size(metadata) <= 1

(* setMetadata and setAction catch InvalidNode; other exceptions escape.   *)
Caught(node) ==
  IF node.text = "InvalidNode" THEN Ends("false") ELSE Raised(node)

(* Faulty variant: the result of setMetadata is not looked at.             *)
SetMetadataAnyway ==
  /\ pc = "metadata"
  /\ LET metadata == AtOrNew(policy, "metadata")
         ns == AsString(At(metadata, "namespace"))
     IN  IF ~TooFew(metadata) /\ ~IsRaise(ns)
           THEN m_namespace' = ns.text ELSE UNCHANGED m_namespace
  /\ Continue("action")
  /\ UNCHANGED <<m_name, m_action>>

SetMetadata ==
  /\ pc = "metadata"
  /\ LET metadata == AtOrNew(policy, "metadata")
         name == AsString(At(metadata, "name"))
         ns == AsString(At(metadata, "namespace"))
     IN  \/ /\ TooFew(metadata) /\ Ends("false")
            /\ UNCHANGED <<m_name, m_namespace>>
         \/ /\ ~TooFew(metadata) /\ IsRaise(name) /\ Caught(name)
            /\ UNCHANGED <<m_name, m_namespace>>
         \/ /\ ~TooFew(metadata) /\ ~IsRaise(name) /\ IsRaise(ns)
            /\ m_name' = name.text
            /\ Caught(ns)
            /\ UNCHANGED m_namespace
         \/ /\ ~TooFew(metadata) /\ ~IsRaise(name) /\ ~IsRaise(ns)
            /\ m_name' = name.text
            /\ m_namespace' = ns.text
            /\ Continue("action")
  /\ UNCHANGED m_action

(* const Node &spec = policy["spec"]                                       *)
spec == AtOrNew(policy, "spec")

(* Faulty variant: an action nobody knows is let pass.                     *)
SetActionAnyway ==
  /\ pc = "action"
  /\ LET action == AsString(At(spec, "action"))
     IN  IF IsRaise(action)
           THEN Caught(action) /\ UNCHANGED m_action
           ELSE m_action' = "UNKNOWN" /\ Continue("rules")
  /\ UNCHANGED <<m_name, m_namespace>>

SetAction ==
  /\ pc = "action"
  /\ LET action == AsString(At(spec, "action"))
     IN  \/ /\ IsRaise(action) /\ Caught(action)
            /\ UNCHANGED m_action
         \/ /\ ~IsRaise(action) /\ action.text \in {"ALLOW", "DENY", "AUDIT"}
            /\ m_action' = action.text
            /\ Continue("rules")
         \/ /\ ~IsRaise(action) /\ action.text \notin {"ALLOW", "DENY", "AUDIT"}
            /\ m_action' = "UNKNOWN"
            /\ Ends("false")
  /\ UNCHANGED <<m_name, m_namespace>>

(* The results of setRules are not looked at; what the selector's setRules *)
(* is given cannot raise, and it does nothing.                             *)
SetRules ==
  /\ pc = "rules"
  /\ LET raised == setRules(At(spec, "rules"))
     IN  IF IsRaise(raised) THEN Raised(raised) ELSE Ends("true")
  /\ UNCHANGED members

-----------------------------------------------------------------------------
Next ==
  \/ ConstructEmpty
  \/ \E text \in Documents : ConstructFrom(text) \/ SetPolicy(text)
  \/ Load \/ CheckVersion \/ CheckKind \/ SetMetadata \/ SetAction \/ SetRules

Spec == Init /\ [][Next]_vars

-----------------------------------------------------------------------------
(* What a document says of a field, stated without the order of yaml-cpp's *)
(* calls.                                                                  *)
Part(node, key) == {node.entries[i].value : i \in FirstWith(node, key)}

Says(node, key, text) == Scalar(text) \in Part(node, key)

Actions == {"ALLOW", "DENY", "AUDIT"}

Describes(doc, name, ns, action) ==
  /\ doc # Broken
  /\ Says(doc, "apiVersion", "v1beta1")
  /\ Says(doc, "kind", "AuthorizationPolicy")
  /\ \E part \in Part(doc, "metadata") :
       Says(part, "name", name) /\ Says(part, "namespace", ns)
  /\ \E part \in Part(doc, "spec") : Says(part, "action", action)

(* A Policy for which setPolicy has returned true is all of one document:  *)
(* nothing in it is left from an earlier one, or never written, whatever   *)
(* exceptions ended earlier calls half-way (Policy.cpp:33-118).            *)
AcceptedIsWhole ==
  outcome = "true" =>
    /\ Describes(policy, m_name, m_namespace, m_action)
    /\ m_action \in Actions

(* A document that is a complete policy is not refused; its rules may      *)
(* still raise (Policy.cpp:43-73, 76-78).                                  *)
CompleteNotRefused ==
  outcome = "false" /\ policy # Broken =>
    \A part \in Part(policy, "metadata") :
      \A i, j \in 1..Len(part.entries), a \in Actions :
        ~ Describes(policy, part.entries[i].value.text,
                    part.entries[j].value.text, a)

(* A Policy is never seen with the action of a document and the name of an *)
(* earlier one: a failure leaves the old action, or UNKNOWN, under the new *)
(* name, not the other way round (Policy.cpp:54-65).                       *)
ActionUnderItsName ==
  [][pc = "action" /\ m_action' # m_action =>
       \E part \in Part(policy, "metadata") :
         Says(part, "name", m_name) /\ Says(part, "namespace", m_namespace)]_vars

-----------------------------------------------------------------------------
(* The inductive invariant: what of the document the call in progress has  *)
(* found said, and where it is in the Policy.                              *)
NameSaid ==
  \E part \in Part(policy, "metadata") :
    Says(part, "name", m_name) /\ Says(part, "namespace", m_namespace)

ActionSaid ==
  m_action \in Actions /\ \E part \in Part(policy, "spec") :
                            Says(part, "action", m_action)

CallInv ==
  /\ pc \notin {"none", "idle"} => policy \in Documents /\ outcome = "none"
  /\ pc \notin {"none", "idle", "load"} => policy # Broken
  /\ pc \in {"kind", "metadata", "action", "rules"} =>
       Says(policy, "apiVersion", "v1beta1")
  /\ pc \in {"metadata", "action", "rules"} =>
       Says(policy, "kind", "AuthorizationPolicy")
  /\ pc \in {"action", "rules"} => NameSaid
  /\ pc = "rules" => ActionSaid

IInv == CallInv /\ AcceptedIsWhole /\ CompleteNotRefused
=============================================================================
