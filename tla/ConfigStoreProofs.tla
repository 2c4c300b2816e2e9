-------------------------- MODULE ConfigStoreProofs --------------------------
(***************************************************************************)
(* Type correctness and validity of config.json under its three writers,   *)
(* for every set of profiles and hosts and any number of edits and clicks. *)
(*                                                                         *)
(* IInv says that the copies the two daemon threads are about to save are  *)
(* sound, which is why what they save is, too.                             *)
(***************************************************************************)
EXTENDS ConfigStore, TLAPS

IInv == TypeOK /\ CopiesValid

LEMMA ProfilesType ==
  ASSUME NEW f
  PROVE  f \in Profiles <=> \E D \in SUBSET Names : f \in [D -> Profile]
BY DEF Profiles

LEMMA DefaultIsConfig == Default \in Config /\ Valid(Default)
<1>1. DefaultProfile \in Profile
  BY StoreAssumption DEF DefaultProfile, Profile
<1>2. [n \in {DefaultName} |-> DefaultProfile] \in Profiles
  BY <1>1, ProfilesType, StoreAssumption
<1>3. Default \in Config
  BY <1>2, StoreAssumption DEF Default, OneProfile, Config
<1>4. Valid(Default)
  BY DEF Valid, Clash, Default, OneProfile, DefaultProfile
<1> QED BY <1>3, <1>4

LEMMA ConfigParts ==
  ASSUME NEW c \in Config
  PROVE  /\ c.active \in Names \cup {NoName}
         /\ c.profiles \in Profiles
         /\ DOMAIN c.profiles \in SUBSET Names
         /\ \A n \in DOMAIN c.profiles : c.profiles[n] \in Profile
<1>1. c.active \in Names \cup {NoName} /\ c.profiles \in Profiles
  BY DEF Config
<1>2. PICK D \in SUBSET Names : c.profiles \in [D -> Profile]
  BY <1>1, ProfilesType
<1> QED BY <1>1, <1>2

LEMMA PutType ==
  ASSUME NEW c \in Config, NEW n \in Names, NEW p \in Profile
  PROVE  Put(c, n, p) \in Config
<1> DEFINE D == DOMAIN c.profiles \cup {n}
           g == [m \in D |-> IF m = n THEN p ELSE c.profiles[m]]
<1>1. D \in SUBSET Names
  BY ConfigParts
<1>2. g \in [D -> Profile]
  BY ConfigParts
<1>3. g \in Profiles
  BY <1>1, <1>2, ProfilesType
<1> QED BY <1>3, ConfigParts DEF Put, Config

LEMMA DropType ==
  ASSUME NEW c \in Config, NEW n
  PROVE  /\ Drop(c, n).active = c.active
         /\ Drop(c, n).profiles \in Profiles
         /\ DOMAIN Drop(c, n).profiles \in SUBSET Names
<1> DEFINE D == DOMAIN c.profiles \ {n}
           g == [m \in D |-> c.profiles[m]]
<1>1. D \in SUBSET Names /\ g \in [D -> Profile]
  BY ConfigParts
<1>2. g \in Profiles
  BY <1>1, ProfilesType
<1> QED BY <1>1, <1>2 DEF Drop

(* A profile with one field changed is a profile. *)
LEMMA FieldType ==
  ASSUME NEW p \in Profile
  PROVE  /\ \A h \in Hosts : [p EXCEPT !.host = h] \in Profile
         /\ \A k \in Hosts \cup {NoPin} : [p EXCEPT !.pin = k] \in Profile
         /\ [p EXCEPT !.http = ~@] \in Profile
         /\ [p EXCEPT !.any = ~@] \in Profile
         /\ [p EXCEPT !.same = ~@] \in Profile
<1>1. \A h \in Hosts : [p EXCEPT !.host = h] \in Profile
  BY DEF Profile
<1>2. \A k \in Hosts \cup {NoPin} : [p EXCEPT !.pin = k] \in Profile
  BY DEF Profile
<1>3. [p EXCEPT !.http = ~@] \in Profile
  BY DEF Profile
<1>4. [p EXCEPT !.any = ~@] \in Profile
  BY DEF Profile
<1>5. [p EXCEPT !.same = ~@] \in Profile
  BY DEF Profile
<1> QED BY <1>1, <1>2, <1>3, <1>4, <1>5

(* Replacing a profile of a valid configuration by one without a clash     *)
(* keeps it valid.                                                         *)
LEMMA PutValid ==
  ASSUME NEW c, NEW n, NEW p, Valid(c), n \in DOMAIN c.profiles, ~Clash(p)
  PROVE  Valid(Put(c, n, p))
BY DEF Valid, Put

(* What the daemon reads at its start is of the right type, without a      *)
(* clash.                                                                  *)
LEMMA StartProfile ==
  ASSUME NEW c \in Config, Valid(c)
  PROVE  /\ RunOf(c) \in [name : Names, profile : Profile]
         /\ ~Clash(RunOf(c).profile)
         /\ BoxOf(RunOf(c)) \in [http : BOOLEAN, any : BOOLEAN]
         /\ BoxOf(RunOf(c)).http = RunOf(c).profile.http
<1>1. c.active \in DOMAIN c.profiles /\ ~Clash(c.profiles[c.active])
  BY DEF Valid
<1>2. c.active \in Names /\ c.profiles[c.active] \in Profile
  BY <1>1, ConfigParts
<1> QED BY <1>1, <1>2 DEF RunOf, BoxOf, Profile

LEMMA FallBack ==
  ASSUME NEW f \in Config \cup {Broken}
  PROVE  LoadOrDefault(f) \in Config /\ Valid(LoadOrDefault(f))
BY DefaultIsConfig DEF LoadOrDefault, Readable

THEOREM InvInit == Init => IInv /\ RunsWithoutClash /\ HttpMarkHonest
<1> SUFFICES ASSUME Init PROVE IInv /\ RunsWithoutClash /\ HttpMarkHonest
  OBVIOUS
<1> USE DEF Init
<1>1. file \in Config /\ Valid(file)
  <2> DEFINE q == [DefaultProfile EXCEPT !.same = TRUE]
  <2>1. q \in Profile /\ ~Clash(q)
    BY StoreAssumption DEF DefaultProfile, Profile, Clash
  <2>2. OneProfile(q) = Put(Default, DefaultName, q)
    BY DEF OneProfile, Put, Default
  <2>3. DefaultName \in DOMAIN Default.profiles
    BY DEF Default, OneProfile
  <2>4. OneProfile(q) \in Config /\ Valid(OneProfile(q))
    BY <2>1, <2>2, <2>3, PutType, PutValid, DefaultIsConfig, StoreAssumption
  <2> QED BY <2>4, DefaultIsConfig
<1>2. TypeOK
  BY <1>1, StartProfile, DefaultIsConfig, StoreAssumption DEF TypeOK
<1>3. CopiesValid
  BY DefaultIsConfig DEF CopiesValid
<1>4. RunsWithoutClash /\ HttpMarkHonest
  BY <1>1, StartProfile DEF RunsWithoutClash, HttpMarkHonest
<1> QED BY <1>2, <1>3, <1>4 DEF IInv

(* The editor, the only writer of its draft, keeps its type. *)
LEMMA EditorStep ==
  ASSUME IInv, Editor
  PROVE  IInv'
<1> USE DEF IInv
<1> SUFFICES /\ file' \in Config \cup {Broken}
             /\ draft' \in Config \cup {Closed}
             /\ selected' \in Names \cup {NoName}
             /\ confirm' \in Names \cup {NoName}
             /\ edits' \in 0..MaxEdits
             /\ UNCHANGED <<run, menuVars, tunnelVars>>
  BY DEF TypeOK, CopiesValid, menuVars, tunnelVars
<1> USE DEF TypeOK
<1>1. ASSUME Load PROVE /\ draft' \in Config /\ selected' \in Names \cup {NoName}
                                   /\ UNCHANGED <<file, edits, run, menuVars, tunnelVars>>
  BY <1>1, FallBack, ConfigParts DEF Load
<1>2. CASE Open
  BY <1>1, <1>2 DEF Open
<1>3. CASE Discard
  BY <1>1, <1>3 DEF Discard
<1>4. CASE Close
  BY <1>4 DEF Close
<1>5. CASE \E n \in Names : Select(n)
  BY <1>5 DEF Select
<1>6. ASSUME Editing
      PROVE  /\ draft \in Config \/ draft = Closed
             /\ draft # Closed => draft \in Config
             /\ draft # Closed
             /\ edits' \in 0..MaxEdits
             /\ UNCHANGED <<file, run, menuVars, tunnelVars>>
  BY <1>6, StoreAssumption DEF Editing
<1>7. ASSUME NEW n \in Names, AddProfile(n) PROVE draft' \in Config
  <2>1. DefaultProfile \in Profile
    BY StoreAssumption DEF DefaultProfile, Profile
  <2> QED BY <1>6, <1>7, <2>1, PutType DEF AddProfile
<1>8. CASE \E n \in Names : AddProfile(n)
  BY <1>6, <1>7, <1>8 DEF AddProfile
<1>9. CASE \E n \in Names : Duplicate(n)
  BY <1>6, <1>9, PutType, ConfigParts DEF Duplicate
<1>10. CASE AskDelete
  BY <1>10, ConfigParts DEF AskDelete
<1>11. CASE ConfirmDelete
  <2> DEFINE left == Drop(draft, confirm)
             S == IF DOMAIN left.profiles = {}
                  THEN {NoName} ELSE DOMAIN left.profiles
  <2>1. draft \in Config
    BY <1>6, <1>11 DEF ConfirmDelete
  <2>2. /\ left.active \in Names \cup {NoName}
        /\ left.profiles \in Profiles
        /\ DOMAIN left.profiles \in SUBSET Names
    BY <2>1, DropType, ConfigParts
  <2>3. left \in Config
    BY <2>2 DEF Drop, Config
  <2>4. \A n \in S : [left EXCEPT !.active = n] \in Config
    <3> HIDE DEF left
    <3> QED BY <2>2, <2>3 DEF Config
  <2>5. draft' = left \/ \E n \in S : draft' = [left EXCEPT !.active = n]
    BY <1>11 DEF ConfirmDelete
  <2>6. draft' \in Config
    BY <2>3, <2>4, <2>5
  <2>7. selected' \in Names \cup {NoName}
    BY <1>11, <2>6, ConfigParts DEF ConfirmDelete
  <2> QED BY <1>6, <1>11, <2>6, <2>7 DEF ConfirmDelete
<1>12. CASE CancelDelete
  BY <1>12 DEF CancelDelete
<1>13. CASE SetActive
  <2>1. draft \in Config /\ selected \in Names
    BY <1>6, <1>13, ConfigParts DEF SetActive
  <2>2. [draft EXCEPT !.active = selected] \in Config
    BY <2>1 DEF Config
  <2> QED BY <1>6, <1>13, <2>2 DEF SetActive
<1>14. CASE EditProfile
  <2>1. draft \in Config /\ selected \in Names
    BY <1>6, <1>14, ConfigParts DEF EditProfile
  <2> DEFINE p == draft.profiles[selected]
             Q == {[p EXCEPT !.host = h] : h \in Hosts}
                    \cup {[p EXCEPT !.http = ~@], [p EXCEPT !.any = ~@],
                          [p EXCEPT !.same = ~@]}
  <2>2. p \in Profile
    BY <1>14, <2>1, ConfigParts DEF EditProfile
  <2>3. Q \subseteq Profile
    <3> HIDE DEF p
    <3>1. \A q \in Q : \/ \E h \in Hosts : q = [p EXCEPT !.host = h]
                      \/ q = [p EXCEPT !.http = ~@]
                      \/ q = [p EXCEPT !.any = ~@]
                      \/ q = [p EXCEPT !.same = ~@]
      OBVIOUS
    <3>2. \A q \in Q : q \in Profile
      <4> HIDE DEF Q
      <4>1. TAKE q \in Q
      <4>2. CASE \E h \in Hosts : q = [p EXCEPT !.host = h]
        <5>1. PICK h \in Hosts : q = [p EXCEPT !.host = h]
          BY <4>2
        <5> QED BY <2>2, <5>1, FieldType
      <4>3. CASE q = [p EXCEPT !.http = ~@]
        BY <2>2, <4>3, FieldType, Zenon
      <4>4. CASE q = [p EXCEPT !.any = ~@]
        BY <2>2, <4>4, FieldType, Zenon
      <4>5. CASE q = [p EXCEPT !.same = ~@]
        BY <2>2, <4>5, FieldType, Zenon
      <4> QED BY <3>1, <4>2, <4>3, <4>4, <4>5
    <3> QED BY <3>2
  <2>4. PICK q \in Q : draft' = Put(draft, selected, q)
    BY <1>14 DEF EditProfile
  <2>5. draft' \in Config
    BY <2>1, <2>3, <2>4, PutType
  <2> QED BY <1>6, <1>14, <2>5 DEF EditProfile
<1>15. CASE ForgetPin
  <2>1. draft \in Config /\ selected \in Names
    BY <1>6, <1>15, ConfigParts DEF ForgetPin
  <2> DEFINE p == draft.profiles[selected]
  <2>2. p \in Profile
    BY <1>15, <2>1, ConfigParts DEF ForgetPin
  <2>3. [p EXCEPT !.pin = NoPin] \in Profile
    BY <2>2, FieldType
  <2>4. draft' \in Config
    BY <1>15, <2>1, <2>3, PutType DEF ForgetPin
  <2> QED BY <1>6, <1>15, <2>1, <2>4 DEF ForgetPin
<1>16. CASE Save
  BY <1>16 DEF Save, editorVars
<1> QED BY <1>2, <1>3, <1>4, <1>5, <1>8, <1>9, <1>10, <1>11, <1>12, <1>13,
           <1>14, <1>15, <1>16 DEF Editor

LEMMA MenuStep ==
  ASSUME IInv, Menu
  PROVE  IInv'
<1> USE DEF IInv
<1> SUFFICES /\ file' \in Config \cup {Broken}
             /\ box' \in [http : BOOLEAN, any : BOOLEAN]
             /\ menu' \in {"idle", "http", "any", "leaving"}
             /\ menuCopy' \in Config /\ Valid(menuCopy')
             /\ clicks' \in 0..MaxClicks
             /\ UNCHANGED <<editorVars, run, tunnelVars>>
  BY DEF TypeOK, CopiesValid, editorVars, tunnelVars
<1> USE DEF TypeOK
<1>1. \A row \in {"http", "any"} : Flip(row) \in [http : BOOLEAN, any : BOOLEAN]
  BY DEF Flip
<1>2. Edited("http") \in Config /\ Edited("any") \in Config
  <2>1. menuCopy.active \in DOMAIN menuCopy.profiles
    BY DEF CopiesValid, Valid
  <2> DEFINE p == menuCopy.profiles[menuCopy.active]
  <2>2. menuCopy.active \in Names /\ p \in Profile
    BY <2>1, ConfigParts
  <2>3. /\ [p EXCEPT !["http"] = box["http"]] \in Profile
        /\ [p EXCEPT !["any"] = box["any"]] \in Profile
    <3> HIDE DEF p
    <3> QED BY <2>2 DEF Profile
  <2> QED BY <2>2, <2>3, PutType DEF Edited
<1>3. CASE \E row \in {"http", "any"} : Click(row)
  <2> PICK row \in {"http", "any"} : Click(row)
    BY <1>3
  <2>1. clicks' \in 0..MaxClicks
    BY StoreAssumption DEF Click
  <2>2. /\ file' \in Config \cup {Broken}
        /\ UNCHANGED <<editorVars, run, tunnelVars>>
    BY DEF Click
  <2>3. CASE Readable(file)
    BY <1>1, <2>1, <2>2, <2>3 DEF Click, Readable
  <2>4. CASE ~Readable(file)
    BY <1>1, <2>1, <2>2, <2>4 DEF Click, CopiesValid
  <2> QED BY <2>3, <2>4
<1>4. CASE HttpSaves
  BY <1>2, <1>4 DEF HttpSaves, CopiesValid
<1>5. CASE HttpRefused
  BY <1>1, <1>5 DEF HttpRefused, CopiesValid
<1>6. CASE AnySaves
  BY <1>2, <1>6 DEF AnySaves, CopiesValid
<1>7. CASE AnyFails
  BY <1>7 DEF AnyFails, CopiesValid
<1> QED BY <1>3, <1>4, <1>5, <1>6, <1>7 DEF Menu

LEMMA TofuStep ==
  ASSUME IInv, Tofu
  PROVE  IInv'
<1> USE DEF IInv
<1> SUFFICES /\ file' \in Config \cup {Broken}
             /\ session' \in {"idle", "authed", "recording"}
             /\ tofuCopy' \in Config /\ Valid(tofuCopy')
             /\ session' = "recording" => run.name \in DOMAIN tofuCopy'.profiles
             /\ UNCHANGED <<editorVars, run, menuVars>>
  BY DEF TypeOK, CopiesValid, editorVars, menuVars
<1> USE DEF TypeOK, CopiesValid
<1>1. CASE Connect
  BY <1>1 DEF Connect
<1>2. CASE TofuLoads
  BY <1>2 DEF TofuLoads, Readable
<1>3. CASE TofuSaves
  <2> DEFINE p == tofuCopy.profiles[run.name]
  <2>1. p \in Profile /\ run.name \in Names /\ run.profile.host \in Hosts
    <3>1. p \in Profile
      BY <1>3, ConfigParts DEF TofuSaves
    <3> QED BY <3>1 DEF Profile
  <2>2. [p EXCEPT !.pin = run.profile.host] \in Profile
    <3> HIDE DEF p
    <3> QED BY <2>1, FieldType
  <2> QED BY <1>3, <2>1, <2>2, PutType DEF TofuSaves
<1>4. CASE TofuFails
  BY <1>4 DEF TofuFails
<1> QED BY <1>1, <1>2, <1>3, <1>4 DEF Tofu

LEMMA RestartStep ==
  ASSUME IInv, Restart
  PROVE  IInv' /\ RunsWithoutClash' /\ HttpMarkHonest'
<1>1. LoadOrDefault(file) \in Config /\ Valid(LoadOrDefault(file))
  BY FallBack DEF IInv, TypeOK
<1>2. /\ run' = RunOf(LoadOrDefault(file)) /\ box' = BoxOf(run')
      /\ menu' = "idle" /\ menuCopy' = Default
      /\ session' = "idle" /\ tofuCopy' = Default
      /\ UNCHANGED <<file, editorVars, clicks>>
  BY DEF Restart
<1>3. /\ run' \in [name : Names, profile : Profile]
      /\ ~Clash(run'.profile)
      /\ box' \in [http : BOOLEAN, any : BOOLEAN]
      /\ box'.http = run'.profile.http
  BY <1>1, <1>2, StartProfile
<1>4. TypeOK'
  BY <1>2, <1>3, DefaultIsConfig DEF IInv, TypeOK, editorVars
<1>5. CopiesValid'
  BY <1>2, DefaultIsConfig DEF CopiesValid
<1> QED BY <1>2, <1>3, <1>4, <1>5 DEF IInv, RunsWithoutClash, HttpMarkHonest

THEOREM InvStep == IInv /\ [Next]_vars => IInv'
<1> SUFFICES ASSUME IInv, [Next]_vars PROVE IInv'
  OBVIOUS
<1>1. CASE Break
  BY <1>1 DEF Break, IInv, TypeOK, CopiesValid, editorVars, menuVars, tunnelVars
<1>2. CASE UNCHANGED vars
  BY <1>2 DEF vars, IInv, TypeOK, CopiesValid, editorVars, menuVars, tunnelVars
<1> QED BY <1>1, <1>2, RestartStep, EditorStep, MenuStep, TofuStep DEF Next

(* Type correctness and the soundness of the copies, with both rows of the *)
(* menu in use and hand edits.                                             *)
THEOREM TypeCorrect == Spec => [](TypeOK /\ CopiesValid)
<1>1. Spec => []IInv
  BY InvInit, InvStep, PTL DEF Spec
<1> QED BY <1>1, PTL DEF IInv

(* Whatever is on disk: with any menu row and any hand edit, the daemon     *)
(* falls back to the default profile rather than start two proxies on one  *)
(* address and port.                                                       *)
THEOREM NeverClashes == Spec => []RunsWithoutClash
<1>1. ASSUME IInv, RunsWithoutClash, [Next]_vars PROVE RunsWithoutClash'
  <2>1. CASE Restart
    BY <1>1, <2>1, RestartStep
  <2>2. CASE UNCHANGED run
    BY <1>1, <2>2 DEF RunsWithoutClash
  <2> QED
    BY <1>1, <2>1, <2>2
    DEF Next, vars, Break, Editor, Open, Discard, Load, Close, Select, Editing,
        AddProfile, Duplicate, AskDelete, ConfirmDelete, CancelDelete,
        SetActive, EditProfile, ForgetPin, Save, Menu, Click, HttpSaves,
        HttpRefused, AnySaves, AnyFails, Tofu, Connect, TofuLoads, TofuSaves,
        TofuFails
<1> QED BY <1>1, InvInit, InvStep, PTL DEF Spec

(* The check mark of the HTTP row tells what the daemon runs with, whatever *)
(* the other writers do.                                                    *)
THEOREM MarkHonest == Spec => []HttpMarkHonest
<1> DEFINE Mark == /\ HttpMarkHonest
                   /\ menu = "any" => box.http = run.profile.http
                   /\ menu = "http" => box.http = ~run.profile.http
<1>1. Init => Mark
  BY InvInit DEF Init
<1>2. ASSUME IInv, Mark, [Next]_vars PROVE Mark'
  <2> USE <1>2 DEF Mark, HttpMarkHonest
  <2>1. CASE Restart
    BY <2>1, RestartStep DEF Restart
  <2>2. CASE UNCHANGED <<run, box, menu>>
    BY <2>2
  <2>3. CASE \E row \in {"http", "any"} : Click(row)
    BY <2>3 DEF Click, Flip, IInv, TypeOK
  <2>4. CASE HttpSaves \/ AnySaves \/ AnyFails
    BY <2>4 DEF HttpSaves, AnySaves, AnyFails
  <2>5. CASE HttpRefused
    BY <2>5 DEF HttpRefused, Flip, IInv, TypeOK, Profile
  <2> QED
    BY <2>1, <2>2, <2>3, <2>4, <2>5
    DEF Next, vars, menuVars, Break, Editor, Open, Discard, Load, Close,
        Select, Editing, AddProfile, Duplicate, AskDelete, ConfirmDelete,
        CancelDelete, SetActive, EditProfile, ForgetPin, Save, Menu, Tofu,
        Connect, TofuLoads, TofuSaves, TofuFails
<1>3. Spec => []Mark
  BY <1>1, <1>2, InvInit, InvStep, PTL DEF Spec
<1> QED BY <1>3, PTL DEF Mark

(* What is saved, by anyone but the listen row, whose handler does not     *)
(* validate, is a valid configuration, however stale the saver's copy.     *)
THEOREM OnlyValidSaved == Spec => OnlyListenRowInvalidates
<1>1. ASSUME IInv, [Next]_vars
      PROVE  \/ file' = file \/ file' = Broken
             \/ Valid(file')
             \/ menu = "any" /\ menu' = "leaving"
  <2> USE <1>1
  <2>1. CASE Break
    BY <2>1 DEF Break
  <2>2. CASE UNCHANGED file
    BY <2>2
  <2>3. CASE Save \/ HttpSaves \/ AnySaves
    BY <2>3 DEF Save, HttpSaves, AnySaves
  <2>4. CASE TofuSaves
    <3> DEFINE p == tofuCopy.profiles[run.name]
    <3>1. run.name \in DOMAIN tofuCopy.profiles /\ Valid(tofuCopy)
      BY <2>4 DEF TofuSaves, IInv, CopiesValid
    <3>2. p \in Profile /\ ~Clash(p)
      BY <3>1, ConfigParts DEF IInv, TypeOK, Valid
    <3>3. ~Clash([p EXCEPT !.pin = run.profile.host])
      <4> HIDE DEF p
      <4> QED BY <3>2 DEF Profile, Clash
    <3> QED BY <2>4, <3>1, <3>3, PutValid DEF TofuSaves
  <2> QED
    BY <2>1, <2>2, <2>3, <2>4
    DEF Next, vars, Restart, Editor, Open, Discard, Load, Close, Select,
        Editing, AddProfile, Duplicate, AskDelete, ConfirmDelete, CancelDelete,
        SetActive, EditProfile, ForgetPin, Menu, Click, HttpRefused, AnyFails,
        Tofu, Connect, TofuLoads, TofuFails
<1>2. ASSUME IInv, [Next]_vars
      PROVE  [file' # file /\ file' # Broken /\ ~Valid(file') =>
                menu = "any" /\ menu' = "leaving"]_vars
  BY <1>1, <1>2
<1> QED BY <1>2, InvInit, InvStep, PTL DEF Spec, OnlyListenRowInvalidates
=============================================================================
