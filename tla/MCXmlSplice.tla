----------------------------- MODULE MCXmlSplice -----------------------------
(* XmlSplice on documents laid out as in the tests' SAMPLE_XML: an         *)
(* administrator and a user, two groups, in either order of the sections.  *)
EXTENDS XmlSplice

Admin == UserBlock([name |-> "admin", uid |-> 0, descr |-> "a"])

Olga == UserBlock([name |-> "olga", uid |-> 1, descr |-> "a"])

(* The members of a group, one to a line. *)
Group(g, members) ==
  <<Indent, Open("group"), NewLine>> \o Line(Leaf("name", g)) \o Line(Leaf("gid", 0))
  \o FlattenSeq([i \in DOMAIN members |-> Line(Leaf("member", members[i]))])
  \o Line(Close("group"))

Users == <<Indent>> \o Admin \o <<Indent>> \o Olga

AllGroups == Group("all", <<0, 1>>) \o Group("staff", <<1>>)

Sections == {Users \o AllGroups, AllGroups \o Users}

MCDocs ==
  {<<Open("pfsense"), NewLine>> \o Line(Open("system"))
     \o Line(Leaf("nextuid", 2)) \o s
     \o Line(Close("system")) \o <<Close("pfsense")>> : s \in Sections}
=============================================================================
