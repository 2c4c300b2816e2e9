------------------------------ MODULE XmlSplice ------------------------------
(***************************************************************************)
(* The byte-precise mutations of config.xml (pfusers/src/pfsense.rs): each *)
(* parses the document for positions and splices new bytes in.             *)
(*                                                                         *)
(* A document is a sequence of tokens: a tag, an element without children  *)
(* (a leaf), the end of a line, or the indentation of one.  The code walks *)
(* bytes; every walk it does starts and stops at the border of a token.    *)
(***************************************************************************)
EXTENDS Naturals, Sequences, FiniteSets, SequencesExt, FiniteSetsExt

CONSTANTS
  Names,         \* user names
  Descrs,        \* what a user's other fields can be
  Groups,        \* group names
  Kinds,         \* the mutations in use
  Docs,          \* documents to start from
  MaxMutations   \* bound on the mutations of one document

NewLine == [tag |-> "newline"]
Indent == [tag |-> "indent"]
Open(n) == [tag |-> "open", name |-> n]
Close(n) == [tag |-> "close", name |-> n]
Leaf(n, v) == [tag |-> "leaf", name |-> n, value |-> v]

Blank(t) == t.tag \in {"newline", "indent"}

(* A token on a line of its own, and an element around such lines. *)
Line(t) == <<Indent, t, NewLine>>

(* generate_user_block, of a row's fields. *)
UserBlock(row) ==
  <<Open("user"), NewLine>> \o Line(Leaf("name", row.name))
  \o Line(Leaf("uid", row.uid)) \o Line(Leaf("descr", row.descr))
  \o <<Indent, Close("user"), NewLine>>

-----------------------------------------------------------------------------
(* Parsing *)

Tagged(doc, t, n) ==
  {i \in DOMAIN doc : doc[i].tag = t /\ doc[i].name = n}

(* The number of elements open before position i. *)
Depth(doc, i) ==
  Cardinality({j \in 1..(i - 1) : doc[j].tag = "open"})
  - Cardinality({j \in 1..(i - 1) : doc[j].tag = "close"})

(* The end tag of the element whose start tag is at i. *)
EndOf(doc, i) ==
  Min({j \in (i + 1)..Len(doc) :
         doc[j].tag = "close" /\ Depth(doc, j + 1) = Depth(doc, i)})

(* quick-xml refuses an end tag with another name than the last open one.  *)
WellFormed(doc) ==
  \A j \in {k \in DOMAIN doc : doc[k].tag = "close"} :
    LET opens == {i \in 1..(j - 1) : /\ doc[i].tag = "open"
                                     /\ Depth(doc, i) = Depth(doc, j + 1)}
    IN  opens # {} /\ doc[Max(opens)].name = doc[j].name

(* The value of the first child named n of the element at i: TRUE if v.    *)
HasChild(doc, i, n, v) ==
  LET children == {k \in Tagged(doc, "leaf", n) :
                     /\ k \in i..EndOf(doc, i)
                     /\ Depth(doc, k) = Depth(doc, i) + 1}
  IN  children # {} /\ doc[Min(children)].value = v

(* Start tags of the elements n at depth 2 whose <name> is v. *)
Elements(doc, n, v) ==
  {i \in Tagged(doc, "open", n) : Depth(doc, i) = 2 /\ HasChild(doc, i, "name", v)}

-----------------------------------------------------------------------------
(* Splicing.  Ranges are half-open: [s, e).                                *)

Splice(doc, s, e, new) ==
  SubSeq(doc, 1, s - 1) \o new \o SubSeq(doc, e, Len(doc))

(* find_user_byte_range *)
UserStart(doc, u) == Min(Elements(doc, "user", u))
UserEnd(doc, u) == EndOf(doc, UserStart(doc, u)) + 1

(* Back over white space, *)
BackOver(doc, s) ==
  CHOOSE t \in 1..s :
    /\ \A i \in t..(s - 1) : Blank(doc[i])
    /\ t = 1 \/ ~Blank(doc[t - 1])

(* and to the start of the line. *)
LineStart(doc, s) ==
  CHOOSE t \in 1..s :
    /\ \A i \in t..(s - 1) : doc[i] # NewLine
    /\ t = 1 \/ doc[t - 1] = NewLine

(* grow_to_include_leading_ws, find_user_byte_range_with_leading_ws. *)
Grow(doc, s) == LineStart(doc, BackOver(doc, s))

(* Mutant: the block is put after the end tag. *)
AppendUserAfter(doc, row) ==
  LET at == Min({i \in Tagged(doc, "close", "system") : Depth(doc, i) = 2}) + 1
  IN  Splice(doc, at, at, UserBlock(row))

AppendUser(doc, row) ==
  LET at == Min({i \in Tagged(doc, "close", "system") : Depth(doc, i) = 2})
  IN  Splice(doc, at, at, UserBlock(row))

ReplaceUser(doc, row) ==
  Splice(doc, UserStart(doc, row.name), UserEnd(doc, row.name), UserBlock(row))

RemoveUser(doc, u) ==
  Splice(doc, Grow(doc, UserStart(doc, u)), UserEnd(doc, u), <<>>)

AddGroupMember(doc, g, uid) ==
  LET at == EndOf(doc, Min(Elements(doc, "group", g)))
  IN  Splice(doc, at, at,
             <<Indent, Leaf("member", uid), NewLine, Indent>>)

(* Mutant: only the first membership. *)
FirstMemberRange(doc, uid) ==
  LET all == {i \in Tagged(doc, "leaf", "member") :
                Depth(doc, i) = 3 /\ doc[i].value = uid}
  IN  IF all = {} THEN {} ELSE {Min(all)}

(* find_member_byte_ranges: of all groups, and of whatever else is there. *)
MemberRanges(doc, uid) ==
  {i \in Tagged(doc, "leaf", "member") :
     Depth(doc, i) = 3 /\ doc[i].value = uid}

(* The last range first: the earlier ones stay where they were. *)
RemoveGroupMembership(doc, uid) ==
  FoldLeft(LAMBDA out, i : Splice(out, Grow(out, i), i + 1, <<>>),
           doc, Reverse(SetToSortSeq(MemberRanges(doc, uid), <)))

SetNextUid(doc, n) ==
  [doc EXCEPT ![Min(Tagged(doc, "leaf", "nextuid"))].value = n]

-----------------------------------------------------------------------------
VARIABLES
  doc,
  last,   \* history: the mutation just applied
  count   \* of the mutations so far

vars == <<doc, last, count>>

NextUid == doc[Min(Tagged(doc, "leaf", "nextuid"))].value

UserNames(d) == {n \in Names : Elements(d, "user", n) # {}}

(* Child leaf values of user u. *)
Field(d, u, n) ==
  LET i == UserStart(d, u)
  IN  d[Min({k \in Tagged(d, "leaf", n) :
               k \in i..EndOf(d, i) /\ Depth(d, k) = Depth(d, i) + 1})].value

Row(d, u) ==
  [name |-> u, uid |-> Field(d, u, "uid"), descr |-> Field(d, u, "descr")]

None == [kind |-> "none"]

Init ==
  /\ doc \in Docs
  /\ last = None
  /\ count = 0

(* A document that does not parse is refused, before anything is written.  *)
Mutate(kind) ==
  /\ kind \in Kinds
  /\ count < MaxMutations
  /\ count' = count + 1
  /\ WellFormed(doc)

Append_(name) ==
  /\ Mutate("append")
  /\ name \notin UserNames(doc)
  /\ \E d \in Descrs :
       LET row == [name |-> name, uid |-> NextUid, descr |-> d]
       IN  /\ doc' = AppendUser(doc, row)
           /\ last' = [kind |-> "append", row |-> row]

Replace_(name) ==
  /\ Mutate("replace")
  /\ name \in UserNames(doc)
  /\ \E d \in Descrs :
       LET row == [Row(doc, name) EXCEPT !.descr = d]
       IN  /\ doc' = ReplaceUser(doc, row)
           /\ last' = [kind |-> "replace", row |-> row]

Remove_(name) ==
  /\ Mutate("remove")
  /\ name \in UserNames(doc)
  /\ Field(doc, name, "uid") # 0
  /\ doc' = RemoveUser(doc, name)
  /\ last' = [kind |-> "remove", row |-> Row(doc, name)]

(* add_user does it for a uid it has just given out. *)
AddMember_(g) ==
  /\ Mutate("addMember")
  /\ Elements(doc, "group", g) # {}
  /\ \E u \in UserNames(doc) :
       LET uid == Field(doc, u, "uid")
       IN  /\ Leaf("member", uid) \notin ToSet(doc)
           /\ doc' = AddGroupMember(doc, g, uid)
           /\ last' = [kind |-> "addMember", group |-> g, uid |-> uid]

RemoveMember_ ==
  /\ Mutate("removeMember")
  /\ \E u \in UserNames(doc) :
       LET uid == Field(doc, u, "uid")
       IN  /\ doc' = RemoveGroupMembership(doc, uid)
           /\ last' = [kind |-> "removeMember", uid |-> uid]

SetNextUid_ ==
  /\ Mutate("setNextUid")
  /\ doc' = SetNextUid(doc, NextUid + 1)
  /\ last' = [kind |-> "setNextUid", next |-> NextUid + 1]

Next ==
  \/ \E name \in Names : Append_(name) \/ Replace_(name) \/ Remove_(name)
  \/ \E g \in Groups : AddMember_(g)
  \/ RemoveMember_
  \/ SetNextUid_

Spec == Init /\ [][Next]_vars

-----------------------------------------------------------------------------
(* What a document says, and what a mutation should make of it. *)

View(d) ==
  [users |-> {Row(d, u) : u \in UserNames(d)},
   members |-> [g \in {h \in Groups : Elements(d, "group", h) # {}} |->
      LET i == Min(Elements(d, "group", g))
      IN  {d[k].value : k \in {m \in Tagged(d, "leaf", "member") :
                                 m \in i..EndOf(d, i)}}],
   next |-> d[Min(Tagged(d, "leaf", "nextuid"))].value]

Others(v, name) == {r \in v.users : r.name # name}

Meant(v, m) ==
  CASE m.kind \in {"append", "replace"} ->
         [v EXCEPT !.users = Others(v, m.row.name) \cup {m.row}]
    [] m.kind = "addMember" ->
         [v EXCEPT !.members[m.group] = @ \cup {m.uid}]
    [] m.kind = "setNextUid" -> [v EXCEPT !.next = m.next]

(* A mutation that adds or replaces does what it is for and changes        *)
(* nothing else that the document says (pfsense.rs 27-34), and none but    *)
(* the removal of a user makes one that the next parse refuses (112-116,   *)
(* 128-131).                                                               *)
DoesWhatIsMeant ==
  [][/\ last'.kind \notin {"remove", "removeMember"} =>
          View(doc') = Meant(View(doc), last')
     /\ WellFormed(doc) /\ last'.kind # "remove" => WellFormed(doc')]_vars

(* What was to be removed is gone (pfsense.rs 1634-1644), whatever is gone *)
(* with it.                                                                *)
RemovedIsGone ==
  [][/\ last'.kind = "remove" =>
          \A k \in Tagged(doc', "leaf", "name") : doc'[k].value # last'.row.name
     /\ last'.kind = "removeMember" =>
          \A k \in Tagged(doc', "leaf", "member") : doc'[k].value # last'.uid]_vars

(* Removing a user leaves the bytes outside the user's block as they were  *)
(* (pfsense.rs 27-34, the test remove_user_preserves_bytes_outside_region) *)
(* so the document still parses for the mutation after it.                 *)
RemovalKeepsTheRest ==
  [][WellFormed(doc) /\ last'.kind = "remove" => WellFormed(doc')]_vars
=============================================================================
