--------------------------- MODULE MCPolicyParse ---------------------------
(* Documents that are complete policies, and documents with one thing      *)
(* wrong: at the root, in one field, or in the rules; or with a key twice. *)
EXTENDS PolicyParse

Pair(key, value) == [key |-> key, value |-> value]
Doc(version, kind, metadata, sp) ==
  YMap(<<Pair("apiVersion", version), Pair("kind", kind),
         Pair("metadata", metadata), Pair("spec", sp)>>)
V == Scalar("v1beta1")
K == Scalar("AuthorizationPolicy")
Meta(name, ns) == YMap(<<Pair("name", name), Pair("namespace", ns)>>)
M == Meta(Scalar("httpbin"), Scalar("foo"))
Action(action) == YMap(<<Pair("action", action)>>)
S == Action(Scalar("ALLOW"))
Odd == {Scalar("odd"), Null, YMap(<<>>), YSeq(<<Scalar("x"), Scalar("y")>>)}

(* from: - source: principals: [sleep]                                     *)
Sources(last) ==
  YSeq(<<YMap(<<Pair("source", YMap(<<Pair("principals", last)>>))>>)>>)
From(last) == YMap(<<Pair("from", Sources(last))>>)
Good == YSeq(<<Scalar("sleep")>>)
RuleSets ==
  Odd \cup {YSeq(<<>>), YSeq(<<From(Good)>>), From(Good),
            YSeq(<<YSeq(<<From(Good)>>)>>), YSeq(<<YSeq(<<From(YSeq(<<>>))>>)>>),
            YSeq(<<YSeq(<<From(Scalar("sleep"))>>)>>),
            YSeq(<<YSeq(<<YMap(<<>>), From(Good)>>)>>)}

MCDocuments ==
  {Broken, YMap(<<Pair("kind", K), Pair("metadata", M), Pair("spec", S)>>),
   YMap(<<Pair("apiVersion", V), Pair("kind", K), Pair("spec", S)>>),
   YMap(<<Pair("apiVersion", V), Pair("kind", K), Pair("metadata", M)>>)}
    \cup {Scalar("odd"), Null, YSeq(<<V, K>>)}
    \cup {Doc(x, K, M, S) : x \in Odd} \cup {Doc(V, x, M, S) : x \in Odd}
    \cup {Doc(V, K, x, S) : x \in Odd} \cup {Doc(V, K, M, x) : x \in Odd}
    \cup {Doc(V, K, Meta(x, Scalar("bar")), Action(Scalar("DENY"))) :
            x \in Odd \cup {Scalar("sleep")}}
    \cup {Doc(V, K, Meta(Scalar("httpbin"), x), S) : x \in Odd}
    \cup {Doc(V, K, YMap(<<Pair("name", x), Pair("labels", Null)>>), S) :
            x \in {Scalar("sleep"), Null}}
    \cup {Doc(V, K, M, Action(x)) : x \in Odd \cup {Scalar("AUDIT")}}
    \cup {Doc(V, K, M, YMap(<<Pair("action", Scalar("ALLOW")), Pair("rules", x)>>)) :
            x \in RuleSets}
    \cup {YMap(<<Pair("kind", x), Pair("apiVersion", V), Pair("kind", y),
                 Pair("metadata", M), Pair("spec", S)>>) :
            x \in {K, Scalar("odd")}, y \in {K, Scalar("odd")}}
    \cup {Doc(V, K, YMap(<<Pair("name", Scalar("sleep")), Pair("name", x)>>), S) :
            x \in {Scalar("sleep"), Null}}

(* The documents and what is in them.                                      *)
Below(nodes) ==
  nodes \cup UNION {{node.entries[i].value : i \in 1..Len(node.entries)} :
                      node \in nodes}
MCNodes ==
  LET d2 == Below(Below(MCDocuments \ {Broken}))
      d4 == Below(Below(d2))
      d6 == Below(Below(d4))
      d8 == Below(Below(d6))
  IN  Below(Below(d8))
=============================================================================
