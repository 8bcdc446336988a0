------------------------- MODULE PolicyParseProofs -------------------------
(***************************************************************************)
(* A Policy that is set from any documents: what it is when setPolicy has  *)
(* returned true, what is refused, and whose action it has in between.     *)
(***************************************************************************)
EXTENDS PolicyParse, SequenceTheorems, TLAPS

(* What the access to a node raises.                                       *)
Whats == {"BadSubscript", "InvalidNode", "TypedBadConversion"}

(* A node of a document is what it is, and has its values.                 *)
LEMMA NodeIs ==
  ASSUME NEW node \in Nodes
  PROVE  /\ node.type \in {"Null", "Scalar", "Map", "Sequence"}
         /\ node.type = "Scalar" => node = Scalar(node.text)
         /\ node.type \in {"Null", "Scalar"} => node.entries = <<>>
         /\ Len(node.entries) \in Nat
         /\ \A i \in 1..Len(node.entries) : node.entries[i].value \in Nodes
<1>1. node \in {Null, Scalar(node.text), YMap(node.entries),
                YListing(node.entries)}
  BY PolicyParseAssumption
<1>2. CASE node = Null
  BY <1>2, PolicyParseAssumption DEF Null, YNode
<1>3. CASE node = Scalar(node.text)
  BY <1>3, PolicyParseAssumption DEF Scalar, YNode
<1>4. CASE node = YMap(node.entries)
  <2>1. node.type = "Map"
    BY <1>4 DEF YMap, YNode
  <2> QED
    BY <2>1, PolicyParseAssumption
<1>5. CASE node = YListing(node.entries)
  <2>1. node.type = "Sequence"
    BY <1>5 DEF YListing, YNode
  <2> QED
    BY <2>1, PolicyParseAssumption
<1> QED
  BY <1>1, <1>2, <1>3, <1>4, <1>5

(* A key has one first entry at most.                                      *)
LEMMA OneFirst ==
  ASSUME NEW node, Len(node.entries) \in Nat, NEW key,
         NEW i \in FirstWith(node, key), NEW j \in FirstWith(node, key)
  PROVE  i = j
<1>1. i \in 1..Len(node.entries) /\ j \in 1..Len(node.entries)
  BY DEF FirstWith
<1>2. node.entries[i].key = key /\ node.entries[j].key = key
  BY DEF FirstWith
<1>3. i \notin 1..(j - 1) /\ j \notin 1..(i - 1)
  BY <1>2 DEF FirstWith
<1> QED
  BY <1>1, <1>3

(* What is got of a node is its part, and its only one.                    *)
LEMMA GetIs ==
  ASSUME NEW node \in Nodes, NEW key, NEW other
  PROVE  \/ /\ Get(node, key, other) = Raise("BadSubscript")
            /\ Part(node, key) = {}
         \/ Get(node, key, other) = other /\ Part(node, key) = {}
         \/ /\ Get(node, key, other) \in Nodes
            /\ Part(node, key) = {Get(node, key, other)}
<1> DEFINE places == FirstWith(node, key)
<1>1. Len(node.entries) \in Nat
  BY NodeIs
<1>2. CASE places = {}
  BY <1>2 DEF Get, Part
<1>3. CASE places # {}
  <2> DEFINE p == CHOOSE i \in places : TRUE
  <2>1. p \in places
    BY <1>3
  <2>2. node.type = "Map" /\ p \in 1..Len(node.entries)
    BY <2>1 DEF FirstWith
  <2>3. Get(node, key, other) = node.entries[p].value
    BY <1>3, <2>2 DEF Get
  <2>4. node.entries[p].value \in Nodes
    BY <2>2, NodeIs
  <2>5. \A i \in places : i = p
    BY <1>1, <2>1, OneFirst
  <2>6. Part(node, key) = {node.entries[p].value}
    BY <2>1, <2>5 DEF Part
  <2> QED
    BY <2>3, <2>4, <2>6
<1> QED
  BY <1>2, <1>3

(* A node that is none has no parts.                                       *)
LEMMA NoParts ==
  ASSUME NEW node, node.type # "Map", NEW key
  PROVE  /\ FirstWith(node, key) = {} /\ Part(node, key) = {}
         /\ node.type # "Scalar" => \A other : Get(node, key, other) = other
BY DEF FirstWith, Part, Get

(* A part that must be a scalar: what it says, or what is raised.          *)
LEMMA AsStringIs ==
  ASSUME NEW node \in Nodes
  PROVE  \/ node = Scalar(node.text) /\ AsString(node) = node /\ ~IsRaise(node)
         \/ /\ \A text : node # Scalar(text)
            /\ AsString(node) = Raise("TypedBadConversion")
<1>1. AsString(node) = ScalarOf(node) /\ ~IsRaise(node)
  BY NodeIs DEF AsString, OfValid, IsRaise
<1>2. CASE node.type = "Scalar"
  BY <1>1, <1>2, NodeIs DEF ScalarOf
<1>3. CASE node.type # "Scalar"
  BY <1>1, <1>3 DEF ScalarOf, Scalar, YNode
<1> QED
  BY <1>2, <1>3

(* A field that must be a scalar, read from a node of a document.          *)
FieldOf(node, key, x) ==
  \/ ~IsRaise(x) /\ Says(node, key, x.text)
  \/ /\ IsRaise(x) /\ x.text \in Whats
     /\ \A text : ~Says(node, key, text)

(* So is each field of a node, read by either operator[].                  *)
LEMMA FieldIs ==
  ASSUME NEW node \in Nodes, NEW key, NEW other \in {Missing, Zombie}
  PROVE  FieldOf(node, key, AsString(OfValid(node, Get(node, key, other))))
<1> DEFINE v == Get(node, key, other)
<1>1. OfValid(node, v) = v
  BY NodeIs DEF OfValid
<1>2. CASE v = Raise("BadSubscript") /\ Part(node, key) = {}
  <2>1. AsString(v) = Raise("BadSubscript")
    BY <1>2 DEF AsString, OfValid, Raise, YNode
  <2> QED
    BY <1>1, <1>2, <2>1 DEF FieldOf, Says, IsRaise, Raise, YNode, Whats
<1>3. CASE v = other /\ Part(node, key) = {}
  <2>1. AsString(v) \in {Raise("TypedBadConversion"), Raise("InvalidNode")}
    BY <1>3 DEF AsString, OfValid, ScalarOf, Missing, Zombie, YNode
  <2> QED
    BY <1>1, <1>3, <2>1 DEF FieldOf, Says, IsRaise, Raise, YNode, Whats
<1>4. CASE v \in Nodes /\ Part(node, key) = {v}
  BY <1>1, <1>4, AsStringIs
     DEF FieldOf, Says, IsRaise, Raise, YNode, Whats
<1> QED
  BY <1>2, <1>3, <1>4, GetIs

(* policy[key]: the part of the document, or nothing to read from.         *)
LEMMA PartIs ==
  ASSUME NEW node \in Nodes, NEW key
  PROVE  \/ /\ AtOrNew(node, key) \in Nodes
            /\ Part(node, key) = {AtOrNew(node, key)}
         \/ /\ AtOrNew(node, key) \in {Missing, Raise("BadSubscript")}
            /\ Part(node, key) = {}
<1>1. AtOrNew(node, key) = Get(node, key, Missing)
  BY NodeIs DEF AtOrNew, OfValid, GetOrNew
<1> QED
  BY <1>1, GetIs

(* A field of such a part.                                                 *)
LEMMA PartField ==
  ASSUME NEW node \in Nodes, NEW part, NEW key
  PROVE  LET p == AtOrNew(node, part)
             x == AsString(At(p, key))
         IN  \/ /\ ~IsRaise(x) /\ Says(p, key, x.text) /\ p \in Nodes
                /\ Part(node, part) = {p}
             \/ /\ IsRaise(x) /\ x.text \in Whats
                /\ \A q \in Part(node, part) : \A text : ~Says(q, key, text)
<1> DEFINE p == AtOrNew(node, part)
           x == AsString(At(p, key))
<1>1. CASE p \in Nodes /\ Part(node, part) = {p}
  <2>1. FieldOf(p, key, x)
    BY <1>1, FieldIs DEF At
  <2> QED
    BY <1>1, <2>1 DEF FieldOf
<1>2. CASE p \in {Missing, Raise("BadSubscript")} /\ Part(node, part) = {}
  <2>1. CASE p = Missing
    <3>1. At(p, key) = Zombie
      BY <2>1, NoParts DEF At, OfValid, Missing, YNode
    <3>2. x = Raise("InvalidNode")
      BY <3>1 DEF AsString, OfValid, Zombie, YNode
    <3> QED
      BY <1>2, <3>2 DEF IsRaise, Raise, YNode, Whats
  <2>2. CASE p = Raise("BadSubscript")
    <3>1. At(p, key) = p
      BY <2>2 DEF At, OfValid, Raise, YNode
    <3>2. x = p
      BY <2>2, <3>1 DEF AsString, OfValid, Raise, YNode
    <3> QED
      BY <1>2, <2>2, <3>2 DEF IsRaise, Raise, YNode, Whats
  <2> QED
    BY <1>2, <2>1, <2>2
<1> QED
  BY <1>1, <1>2, PartIs

-----------------------------------------------------------------------------
(* The rules.  All that setRules comes by is a node, none, or raised.      *)
AllWhats == Whats \cup {"undefined"}

Fine(node) == \/ node \in Nodes \cup {Null, Missing, Zombie}
              \/ \E what \in AllWhats : node = Raise(what)

(* Only a node of a document has entries.                                  *)
LEMMA FineIs ==
  ASSUME NEW node, Fine(node)
  PROVE  /\ node \in Nodes \/ node.type \notin {"Scalar", "Map", "Sequence"}
         /\ IsRaise(node) => node.text \in AllWhats
<1>1. CASE node \in Nodes
  BY <1>1, NodeIs DEF IsRaise
<1>2. CASE node \in {Null, Missing, Zombie}
  BY <1>2 DEF Null, Missing, Zombie, YNode, IsRaise
<1>3. CASE \E what \in AllWhats : node = Raise(what)
  BY <1>3 DEF Raise, YNode, IsRaise
<1> QED
  BY <1>1, <1>2, <1>3 DEF Fine

(* A key or a string of it.                                                *)
LEMMA FineAt ==
  ASSUME NEW node, Fine(node), NEW key
  PROVE  Fine(At(node, key)) /\ Fine(AsString(node))
<1>1. \A what \in AllWhats : Fine(Raise(what))
  BY DEF Fine
<1>2. /\ "InvalidNode" \in AllWhats /\ "BadSubscript" \in AllWhats
      /\ "TypedBadConversion" \in AllWhats
  BY DEF AllWhats, Whats
<1>3. CASE node.type = "raise"
  BY <1>3 DEF At, AsString, OfValid
<1>4. CASE node.type = "Zombie"
  BY <1>1, <1>2, <1>4 DEF At, AsString, OfValid
<1>5. CASE node.type \notin {"raise", "Zombie"}
  <2>1. /\ At(node, key) = Get(node, key, Zombie)
        /\ AsString(node) = ScalarOf(node)
    BY <1>5 DEF At, AsString, OfValid
  <2>2. Fine(ScalarOf(node))
    BY <1>1, <1>2 DEF ScalarOf
  <2>3. Fine(Get(node, key, Zombie))
    <3>1. CASE node \in Nodes
      BY <1>1, <1>2, <3>1, GetIs DEF Fine
    <3>2. CASE node \notin Nodes
      BY <3>2, FineIs, NoParts DEF Fine
    <3> QED
      BY <3>1, <3>2
  <2> QED
    BY <2>1, <2>2, <2>3
<1> QED
  BY <1>3, <1>4, <1>5

(* What an iterator goes through.                                          *)
LEMMA FineThrough ==
  ASSUME NEW node, Fine(node)
  PROVE  /\ Elements(node) \in Seq({n \in Nodes \cup {Zombie} : Fine(n)})
         /\ Seconds(node) \in Seq({n \in Nodes \cup {Zombie} : Fine(n)})
<1> DEFINE T == {n \in Nodes \cup {Zombie} : Fine(n)}
<1>1. Zombie \in T /\ Nodes \subseteq T
  BY DEF Fine
<1>2. Size(node) \in Nat
  <2>1. CASE node \in Nodes
    BY <2>1, NodeIs DEF Size
  <2>2. CASE node \notin Nodes
    BY <2>2, FineIs DEF Size
  <2> QED
    BY <2>1, <2>2
<1>3. \A i \in 1..Size(node) : Values(node)[i] \in T
  <2>1. CASE node \in Nodes
    BY <1>1, <2>1, NodeIs DEF Size, Values
  <2>2. CASE node \notin Nodes
    <3>1. Size(node) = 0
      BY <2>2, FineIs DEF Size
    <3> QED
      BY <3>1
  <2> QED
    BY <2>1, <2>2
<1> HIDE DEF T
<1>4. Elements(node) \in [1..Size(node) -> T]
  BY <1>1, <1>3 DEF Elements
<1>5. Seconds(node) \in [1..Size(node) -> T]
  BY <1>1, <1>3 DEF Seconds
<1> QED
  BY <1>2, <1>4, <1>5 DEF T

(* *begin() of it, and begin()->second.                                    *)
LEMMA FineFirst ==
  ASSUME NEW node, Fine(node)
  PROVE  Fine(First(node)) /\ Fine(FirstSecond(node))
<1> DEFINE T == {n \in Nodes \cup {Zombie} : Fine(n)}
<1>1. ASSUME NEW values \in Seq(T) PROVE Fine(Begin(node, values))
  <2>1. Fine(Null) /\ Fine(Raise("undefined"))
    BY DEF Fine, AllWhats
  <2>2. \A n \in T : Fine(n)
    OBVIOUS
  <2> HIDE DEF T
  <2>3. values # <<>> => values[1] \in T
    BY <1>1
  <2>4. CASE node.type = "raise"
    <3>1. Begin(node, values) = node
      BY <2>4 DEF Begin
    <3> QED
      BY <3>1
  <2>5. CASE node.type \in {"Map", "Sequence"}
    <3>1. Begin(node, values) =
            IF values = <<>> THEN Raise("undefined") ELSE values[1]
      BY <2>5 DEF Begin
    <3> QED
      BY <2>1, <2>2, <2>3, <3>1
  <2>6. CASE node.type \notin {"raise", "Map", "Sequence"}
    <3>1. Begin(node, values) = Null
      BY <2>6 DEF Begin
    <3> QED
      BY <2>1, <3>1
  <2> QED
    BY <2>4, <2>5, <2>6
<1> QED
  BY <1>1, FineThrough DEF First, FirstSecond

(* The first of what is raised, if any.                                    *)
LEMMA FineFirstOf ==
  ASSUME NEW raised, \A i \in 1..Len(raised) : Fine(raised[i])
  PROVE  Fine(FirstOf(raised))
<1> DEFINE bad == {i \in 1..Len(raised) :
                     /\ IsRaise(raised[i])
                     /\ \A j \in 1..(i - 1) : ~IsRaise(raised[j])}
<1>1. CASE bad = {}
  BY <1>1 DEF FirstOf, Fine
<1>2. CASE bad # {}
  <2>1. (CHOOSE i \in bad : TRUE) \in bad
    BY <1>2
  <2>2. (CHOOSE i \in bad : TRUE) \in 1..Len(raised)
    BY <2>1
  <2>3. FirstOf(raised) = raised[CHOOSE i \in bad : TRUE]
    BY <1>2 DEF FirstOf
  <2> QED
    BY <2>2, <2>3
<1> QED
  BY <1>1, <1>2

(* What setRules raises is one of these, when it raises.                   *)
LEMMA FineRules ==
  ASSUME NEW rules, Fine(rules)
  PROVE  Fine(setRules(rules))
<1> DEFINE T == {n \in Nodes \cup {Zombie} : Fine(n)}
<1>1. Fine(Null) /\ Fine(Raise("InvalidNode"))
  BY DEF Fine, AllWhats, Whats
<1>2. \A source : Fine(source) => Fine(PrintSource(source))
  BY FineAt, FineFirst DEF PrintSource
<1>3. ASSUME NEW list \in Seq(T)
      PROVE  Len(list) \in Nat /\ \A i \in 1..Len(list) : Fine(list[i])
  BY <1>3, ElementOfSeq
<1>4. ASSUME NEW rule, Fine(rule) PROVE Fine(PrintFrom(rule))
  <2> DEFINE sources == Elements(At(rule, "from"))
             raised == [i \in 1..Len(sources) |-> PrintSource(sources[i])]
  <2>1. Fine(At(rule, "from"))
    BY <1>4, FineAt
  <2>2. Len(sources) \in Nat /\ \A i \in 1..Len(sources) : Fine(sources[i])
    BY <1>3, <2>1, FineThrough
  <2> HIDE DEF sources
  <2>3. Len(raised) = Len(sources) /\ \A i \in 1..Len(sources) : Fine(raised[i])
    BY <1>2, <2>2
  <2>4. Fine(FirstOf(raised))
    BY <2>3, FineFirstOf
  <2> QED
    BY <1>1, <2>1, <2>4 DEF PrintFrom, sources
<1>5. ASSUME NEW rule, Fine(rule) PROVE Fine(setFrom(rule))
  <2> DEFINE inner == Elements(rule)
             raised == [i \in 1..Len(inner) |-> PrintFrom(inner[i])]
  <2>1. Fine(At(rule, "from"))
    BY <1>5, FineAt
  <2>2. Len(inner) \in Nat /\ \A i \in 1..Len(inner) : Fine(inner[i])
    BY <1>3, <1>5, FineThrough
  <2> HIDE DEF inner
  <2>3. Len(raised) = Len(inner) /\ \A i \in 1..Len(inner) : Fine(raised[i])
    BY <1>4, <2>2
  <2>4. Fine(FirstOf(raised))
    BY <2>3, FineFirstOf
  <2> QED
    BY <1>1, <2>1, <2>4 DEF setFrom, inner
<1> QED
  BY <1>5, FineFirst DEF setRules

-----------------------------------------------------------------------------
(* A document that is a complete policy.                                   *)
Complete(doc) ==
  \E part \in Part(doc, "metadata") :
    \E i, j \in 1..Len(part.entries), a \in Actions :
      Describes(doc, part.entries[i].value.text, part.entries[j].value.text, a)

(* What such a document says, and that its metadata has two entries.       *)
LEMMA CompleteSays ==
  ASSUME NEW doc \in Nodes, Complete(doc)
  PROVE  /\ Says(doc, "apiVersion", "v1beta1")
         /\ Says(doc, "kind", "AuthorizationPolicy")
         /\ \E part \in Part(doc, "metadata") : \E name, ns :
              Says(part, "name", name) /\ Says(part, "namespace", ns)
         /\ \E part \in Part(doc, "spec"), a \in Actions :
              Says(part, "action", a)
         /\ ~TooFew(AtOrNew(doc, "metadata"))
<1>1. PICK name, ns, a : a \in Actions /\ Describes(doc, name, ns, a)
  BY DEF Complete
<1>2. PICK part \in Part(doc, "metadata") :
        Says(part, "name", name) /\ Says(part, "namespace", ns)
  BY <1>1 DEF Describes
<1>3. part \in Nodes /\ part = AtOrNew(doc, "metadata")
  BY PartIs
<1>4. PICK i \in FirstWith(part, "name"),
           j \in FirstWith(part, "namespace") : TRUE
  BY <1>2 DEF Says, Part
<1>5. /\ i \in 1..Len(part.entries) /\ j \in 1..Len(part.entries)
      /\ part.type = "Map" /\ Len(part.entries) \in Nat
  BY <1>3, <1>4, NodeIs DEF FirstWith
<1>6. part.entries[i].key = "name" /\ part.entries[j].key = "namespace"
  BY <1>4 DEF FirstWith
<1>7. i # j
  BY <1>6
<1>8. ~TooFew(part)
  BY <1>5, <1>7 DEF TooFew, Size
<1> QED
  BY <1>1, <1>2, <1>3, <1>8 DEF Describes

(* The end of a call keeps the invariant, when it is with true only for    *)
(* what is whole and with false only for what is not complete ...          *)
LEMMA EndStep ==
  ASSUME NEW how, Ends(how),
         how = "true" => /\ Describes(policy, m_name', m_namespace', m_action')
                         /\ m_action' \in Actions,
         how = "false" /\ policy # Broken => ~Complete(policy)
  PROVE  IInv'
<1>1. outcome' = how /\ policy' = policy /\ pc' \in {"none", "idle"}
  BY DEF Ends
<1>2. CallInv'
  BY <1>1 DEF CallInv
<1>3. AcceptedIsWhole'
  BY <1>1 DEF AcceptedIsWhole
<1>4. CompleteNotRefused'
  <2>1. CompleteNotRefused' <=>
          (outcome' = "false" /\ policy' # Broken => ~Complete(policy'))
    BY DEF CompleteNotRefused, Complete
  <2> QED
    BY <1>1, <2>1
<1> QED
  BY <1>2, <1>3, <1>4 DEF IInv

(* ... and with an exception always.                                       *)
LEMMA RaiseStep ==
  ASSUME NEW node, node.text \in Whats, Raised(node)
  PROVE  IInv'
<1>1. PICK how : how = node.text
  OBVIOUS
<1>2. Ends(how) /\ how \notin {"true", "false"}
  BY <1>1 DEF Raised, Whats
<1> QED
  BY <1>2, EndStep

(* A call that begins or goes on has no outcome.                           *)
LEMMA GoesOn ==
  ASSUME outcome' = "none", CallInv'
  PROVE  IInv'
BY DEF IInv, AcceptedIsWhole, CompleteNotRefused

(* During the call after Load the document is a node.                      *)
LEMMA Loaded ==
  ASSUME IInv, pc \notin {"none", "idle", "load"}
  PROVE  policy \in Nodes /\ policy # Broken /\ outcome = "none"
BY PolicyParseAssumption DEF IInv, CallInv

(* A field that must have one value: it is said, or it is not and the call *)
(* ends.                                                                   *)
LEMMA CheckStep ==
  ASSUME IInv, NEW key, NEW value, NEW label, NEW next,
         label \in {"version", "kind"}, Check(label, key, value, next)
  PROVE  /\ pc = label /\ policy \in Nodes /\ outcome = "none"
         /\ UNCHANGED members
         /\ \/ Continue(next) /\ Says(policy, key, value)
            \/ Ends("false") /\ ~Says(policy, key, value)
            \/ IInv'
<1>1. pc = label /\ policy \in Nodes /\ outcome = "none" /\ UNCHANGED members
  BY Loaded DEF Check
<1> DEFINE field == AsString(AtOrNew(policy, key))
<1>2. FieldOf(policy, key, field)
  BY <1>1, FieldIs DEF AtOrNew, GetOrNew
<1>3. CASE IsRaise(field) /\ Raised(field)
  <2>1. PICK node : node = field
    OBVIOUS
  <2>2. node.text \in Whats /\ Raised(node)
    BY <1>2, <1>3, <2>1 DEF FieldOf
  <2> QED
    BY <1>1, <2>2, RaiseStep
<1>4. CASE ~IsRaise(field) /\ field.text # value /\ Ends("false")
  <2>1. ~Says(policy, key, value)
    <3>1. Says(policy, key, field.text)
      BY <1>2, <1>4 DEF FieldOf
    <3>2. \A v, w \in Part(policy, key) : v = w
      BY <1>1, GetIs
    <3>3. Scalar(field.text) # Scalar(value)
      BY <1>4 DEF Scalar, YNode
    <3> QED
      BY <3>1, <3>2, <3>3 DEF Says
  <2> QED
    BY <1>1, <1>4, <2>1
<1>5. CASE ~IsRaise(field) /\ field.text = value /\ Continue(next)
  BY <1>1, <1>2, <1>5 DEF FieldOf
<1> QED
  BY <1>3, <1>4, <1>5 DEF Check

(* The version is checked, then the kind.                                  *)
LEMMA VersionStep ==
  ASSUME IInv, CheckVersion
  PROVE  IInv'
<1>1. /\ policy \in Nodes /\ outcome = "none"
      /\ \/ Continue("kind") /\ Says(policy, "apiVersion", "v1beta1")
         \/ Ends("false") /\ ~Says(policy, "apiVersion", "v1beta1")
         \/ IInv'
  BY CheckStep DEF CheckVersion
<1>2. CASE Continue("kind") /\ Says(policy, "apiVersion", "v1beta1")
  <2>1. pc' = "kind" /\ policy' = policy /\ outcome' = "none"
    BY <1>1, <1>2 DEF Continue
  <2>2. policy \in Documents /\ policy # Broken
    BY Loaded DEF CheckVersion, Check, IInv, CallInv
  <2>3. CallInv'
    BY <1>2, <2>1, <2>2 DEF CallInv
  <2> QED
    BY <2>1, <2>3, GoesOn
<1>3. CASE Ends("false") /\ ~Says(policy, "apiVersion", "v1beta1")
  BY <1>1, <1>3, CompleteSays, EndStep
<1> QED
  BY <1>1, <1>2, <1>3

(* The kind, when the version is the right one.                            *)
LEMMA KindStep ==
  ASSUME IInv, CheckKind
  PROVE  IInv'
<1>1. /\ pc = "kind" /\ policy \in Nodes /\ outcome = "none"
      /\ \/ Continue("metadata") /\ Says(policy, "kind", "AuthorizationPolicy")
         \/ Ends("false") /\ ~Says(policy, "kind", "AuthorizationPolicy")
         \/ IInv'
  BY CheckStep DEF CheckKind
<1>2. CASE Continue("metadata") /\ Says(policy, "kind", "AuthorizationPolicy")
  <2>1. pc' = "metadata" /\ policy' = policy /\ outcome' = "none"
    BY <1>1, <1>2 DEF Continue
  <2>2. /\ policy \in Documents /\ policy # Broken
        /\ Says(policy, "apiVersion", "v1beta1")
    BY <1>1, Loaded DEF IInv, CallInv
  <2>3. CallInv'
    BY <1>2, <2>1, <2>2 DEF CallInv
  <2> QED
    BY <2>1, <2>3, GoesOn
<1>3. CASE Ends("false") /\ ~Says(policy, "kind", "AuthorizationPolicy")
  BY <1>1, <1>3, CompleteSays, EndStep
<1> QED
  BY <1>1, <1>2, <1>3

(* An exception that setMetadata and setAction catch or do not, when the   *)
(* document is not complete.                                               *)
LEMMA CaughtStep ==
  ASSUME NEW node, node.text \in Whats, Caught(node), ~Complete(policy)
  PROVE  IInv'
<1>1. CASE node.text = "InvalidNode"
  BY <1>1, EndStep DEF Caught
<1>2. CASE node.text # "InvalidNode"
  BY <1>2, RaiseStep DEF Caught
<1> QED
  BY <1>1, <1>2

(* When the call goes on, name and namespace are those of the document.    *)
LEMMA MetadataStep ==
  ASSUME IInv, SetMetadata
  PROVE  IInv'
<1> DEFINE metadata == AtOrNew(policy, "metadata")
           name == AsString(At(metadata, "name"))
           ns == AsString(At(metadata, "namespace"))
<1>1. /\ pc = "metadata" /\ policy \in Nodes /\ policy # Broken
      /\ outcome = "none"
  BY Loaded DEF SetMetadata
<1>2. /\ \/ /\ ~IsRaise(name) /\ Says(metadata, "name", name.text)
            /\ metadata \in Nodes /\ Part(policy, "metadata") = {metadata}
         \/ /\ IsRaise(name) /\ name.text \in Whats
            /\ \A q \in Part(policy, "metadata") :
                 \A text : ~Says(q, "name", text)
      /\ \/ /\ ~IsRaise(ns) /\ Says(metadata, "namespace", ns.text)
            /\ metadata \in Nodes /\ Part(policy, "metadata") = {metadata}
         \/ /\ IsRaise(ns) /\ ns.text \in Whats
            /\ \A q \in Part(policy, "metadata") :
                 \A text : ~Says(q, "namespace", text)
  BY <1>1, PartField
<1>3. CASE TooFew(metadata) /\ Ends("false")
  BY <1>1, <1>3, CompleteSays, EndStep
<1>4. CASE IsRaise(name) /\ Caught(name)
  <2>1. name.text \in Whats /\ ~Complete(policy)
    BY <1>1, <1>2, <1>4, CompleteSays
  <2>2. PICK node : node = name
    OBVIOUS
  <2> QED
    BY <1>4, <2>1, <2>2, CaughtStep
<1>5. CASE IsRaise(ns) /\ Caught(ns)
  <2>1. ns.text \in Whats /\ ~Complete(policy)
    BY <1>1, <1>2, <1>5, CompleteSays
  <2>2. PICK node : node = ns
    OBVIOUS
  <2> QED
    BY <1>5, <2>1, <2>2, CaughtStep
<1>6. CASE /\ ~IsRaise(name) /\ ~IsRaise(ns) /\ Continue("action")
           /\ m_name' = name.text /\ m_namespace' = ns.text
  <2>1. pc' = "action" /\ policy' = policy /\ outcome' = "none"
    BY <1>1, <1>6 DEF Continue
  <2>2. /\ policy \in Documents /\ Says(policy, "apiVersion", "v1beta1")
        /\ Says(policy, "kind", "AuthorizationPolicy")
    BY <1>1 DEF IInv, CallInv
  <2>3. NameSaid'
    <3>1. /\ Part(policy, "metadata") = {metadata}
          /\ Says(metadata, "name", m_name')
          /\ Says(metadata, "namespace", m_namespace')
      BY <1>2, <1>6
    <3> QED
      BY <2>1, <3>1 DEF NameSaid
  <2>4. CallInv'
    BY <1>1, <2>1, <2>2, <2>3 DEF CallInv
  <2> QED
    BY <2>1, <2>4, GoesOn
<1> QED
  BY <1>3, <1>4, <1>5, <1>6 DEF SetMetadata

(* When it goes on, the action is, too.                                    *)
LEMMA ActionStep ==
  ASSUME IInv, SetAction
  PROVE  IInv'
<1> DEFINE action == AsString(At(spec, "action"))
<1>1. /\ pc = "action" /\ policy \in Nodes /\ policy # Broken
      /\ outcome = "none" /\ UNCHANGED <<m_name, m_namespace>>
  BY Loaded DEF SetAction
<1>2. \/ /\ ~IsRaise(action) /\ Says(spec, "action", action.text)
         /\ spec \in Nodes /\ Part(policy, "spec") = {spec}
      \/ /\ IsRaise(action) /\ action.text \in Whats
         /\ \A q \in Part(policy, "spec") : \A text : ~Says(q, "action", text)
  BY <1>1, PartField DEF spec
<1>3. CASE IsRaise(action) /\ Caught(action)
  <2>1. action.text \in Whats /\ ~Complete(policy)
    BY <1>1, <1>2, <1>3, CompleteSays
  <2>2. PICK node : node = action
    OBVIOUS
  <2> QED
    BY <1>3, <2>1, <2>2, CaughtStep
<1>4. CASE /\ ~IsRaise(action) /\ action.text \in Actions
           /\ m_action' = action.text /\ Continue("rules")
  <2>1. pc' = "rules" /\ policy' = policy /\ outcome' = "none"
    BY <1>1, <1>4 DEF Continue
  <2>2. /\ policy \in Documents /\ Says(policy, "apiVersion", "v1beta1")
        /\ Says(policy, "kind", "AuthorizationPolicy") /\ NameSaid
    BY <1>1 DEF IInv, CallInv
  <2>3. NameSaid'
    BY <1>1, <2>1, <2>2 DEF NameSaid
  <2>4. ActionSaid'
    <3>1. /\ Part(policy, "spec") = {spec} /\ Says(spec, "action", m_action')
          /\ m_action' \in Actions
      BY <1>2, <1>4
    <3> QED
      BY <2>1, <3>1 DEF ActionSaid
  <2>5. CallInv'
    BY <1>1, <2>1, <2>2, <2>3, <2>4 DEF CallInv
  <2> QED
    BY <2>1, <2>5, GoesOn
<1>5. CASE ~IsRaise(action) /\ action.text \notin Actions /\ Ends("false")
  <2>1. ~Complete(policy)
    <3>1. \A q \in Part(policy, "spec"), a \in Actions : ~Says(q, "action", a)
      <4>1. Says(spec, "action", action.text) /\ Part(policy, "spec") = {spec}
            /\ spec \in Nodes
        BY <1>2, <1>5
      <4>2. \A v, w \in Part(spec, "action") : v = w
        BY <4>1, GetIs
      <4>3. \A a \in Actions : Scalar(action.text) # Scalar(a)
        BY <1>5 DEF Scalar, YNode
      <4> QED
        BY <4>1, <4>2, <4>3 DEF Says
    <3> QED
      BY <1>1, <3>1, CompleteSays
  <2> QED
    BY <1>5, <2>1, EndStep
<1> QED
  BY <1>3, <1>4, <1>5 DEF SetAction, Actions

(* Whatever the rules are, the call ends with true only with all of that.  *)
LEMMA RulesStep ==
  ASSUME IInv, SetRules
  PROVE  IInv'
<1> DEFINE raised == setRules(At(spec, "rules"))
<1>1. /\ pc = "rules" /\ policy \in Nodes /\ policy # Broken
      /\ UNCHANGED members
  BY Loaded DEF SetRules
<1>2. /\ Describes(policy, m_name', m_namespace', m_action')
      /\ m_action' \in Actions
  <2>1. Describes(policy, m_name, m_namespace, m_action) /\ m_action \in Actions
    BY <1>1 DEF IInv, CallInv, NameSaid, ActionSaid, Describes
  <2> QED
    BY <1>1, <2>1 DEF members
<1>3. IsRaise(raised) => raised.text \in AllWhats
  <2>1. Fine(spec)
    BY <1>1, PartIs DEF spec, Fine, AllWhats, Whats
  <2>2. Fine(raised)
    BY <2>1, FineAt, FineRules
  <2> QED
    BY <2>2, FineIs
<1>4. CASE IsRaise(raised) /\ Raised(raised)
  <2>1. PICK how : how = raised.text
    OBVIOUS
  <2>2. CASE how # "undefined" /\ Ends(how)
    <3>1. how \notin {"true", "false"}
      BY <1>3, <1>4, <2>1, <2>2 DEF AllWhats, Whats
    <3> QED
      BY <2>2, <3>1, EndStep
  <2>3. CASE Ends("true")
    BY <1>2, <2>3, EndStep
  <2>4. CASE pc' = "none" /\ outcome' = "none"
    BY <2>4, GoesOn DEF CallInv
  <2> QED
    BY <1>4, <2>1, <2>2, <2>3, <2>4 DEF Raised
<1>5. CASE Ends("true")
  BY <1>2, <1>5, EndStep
<1> QED
  BY <1>4, <1>5 DEF SetRules

(* The inductive invariant holds at the start and after every step.        *)
LEMMA InitIInv == Init => IInv
BY DEF Init, IInv, CallInv, AcceptedIsWhole, CompleteNotRefused

(* A step of a call, or of whoever makes and sets Policies.                *)
LEMMA NextIInv == IInv /\ [Next]_vars => IInv'
<1> SUFFICES ASSUME IInv, [Next]_vars PROVE IInv'
  OBVIOUS
<1>1. CASE UNCHANGED vars
  BY <1>1 DEF vars, IInv, CallInv, NameSaid, ActionSaid, AcceptedIsWhole,
     CompleteNotRefused
<1>2. CASE ConstructEmpty
  BY <1>2, GoesOn DEF ConstructEmpty, CallInv
<1>3. ASSUME NEW text \in Documents, ConstructFrom(text) \/ SetPolicy(text)
      PROVE  IInv'
  BY <1>3, GoesOn DEF ConstructFrom, SetPolicy, CallInv
<1>4. CASE Load
  <2>1. CASE policy = Broken /\ Ends("false")
    BY <2>1, EndStep
  <2>2. CASE policy # Broken /\ Continue("version")
    <3>1. policy \in Documents /\ outcome = "none"
      BY <1>4 DEF Load, IInv, CallInv
    <3> QED
      BY <2>2, <3>1, GoesOn DEF Continue, CallInv
  <2> QED
    BY <1>4, <2>1, <2>2 DEF Load
<1> QED
  BY <1>1, <1>2, <1>3, <1>4, VersionStep, KindStep, MetadataStep, ActionStep,
     RulesStep DEF Next

(* A call has found said what it has passed, and an end is of all of it.   *)
THEOREM Invariance == Spec => []IInv
<1> QED
  BY InitIInv, NextIInv, PTL DEF Spec

(* A Policy for which setPolicy has returned true is all of one document,  *)
(* whatever ended earlier calls half-way (Policy.cpp:33-118).              *)
THEOREM Whole == Spec => []AcceptedIsWhole
<1>1. IInv => AcceptedIsWhole
  BY DEF IInv
<1> QED
  BY <1>1, Invariance, PTL

(* A document that is a complete policy is not refused (Policy.cpp:43-78). *)
THEOREM Accepted == Spec => []CompleteNotRefused
<1>1. IInv => CompleteNotRefused
  BY DEF IInv
<1> QED
  BY <1>1, Invariance, PTL

(* When the action of a Policy changes during a call, the name it stands   *)
(* under is that of the same document (Policy.cpp:54-65).                  *)
THEOREM UnderItsName == Spec => ActionUnderItsName
<1>1. IInv /\ pc = "action" => NameSaid
  BY DEF IInv, CallInv
<1>2. ASSUME IInv
      PROVE  [pc = "action" /\ m_action' # m_action =>
                \E part \in Part(policy, "metadata") :
                  Says(part, "name", m_name)
                    /\ Says(part, "namespace", m_namespace)]_vars
  BY <1>1, <1>2 DEF NameSaid
<1> QED
  BY <1>2, Invariance, PTL DEF Spec, ActionUnderItsName
=============================================================================
