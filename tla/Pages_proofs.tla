---------------------------- MODULE Pages_proofs ----------------------------
(***************************************************************************)
(* Proofs about the pages of the frontend: users, templates, keys,           *)
(* providers, tables and the action list.  A step of Pages is a step of the  *)
(* page a behaviour is of, or leaves that page as it is; from there each     *)
(* page has an inductive invariant of its own.                               *)
(***************************************************************************)
EXTENDS Pages, TLAPS, FiniteSetTheorems, SequenceTheorems

\* A step leaves the choice of the page, and is one of that page.
LEMMA PageStep ==
  ASSUME [Next]_vars
  PROVE  /\ which' = which
         /\ which = "builder" => WB!Next \/ UNCHANGED wb
         /\ which = "account" => AC!Next \/ UNCHANGED ac
         /\ which = "checkout" => CO!Next \/ UNCHANGED co
         /\ which = "leads" => LB!Next \/ UNCHANGED lb
         /\ which = "integrations" => IG!Next \/ UNCHANGED ig
         /\ which = "api-keys" => AK!Next \/ UNCHANGED ak
         /\ which = "templates" => TP!Next \/ UNCHANGED tp
         /\ which = "admin-users" => AU!Next \/ UNCHANGED au
         /\ which = "admin-tables" => AT!Next \/ UNCHANGED at
         /\ which = "campaigns" => CA!Next \/ UNCHANGED ca
         /\ which = "actions" => AL!Next \/ UNCHANGED al
<1>1. CASE Next
  BY <1>1 DEF Next
<1>2. CASE UNCHANGED vars
  BY <1>2 DEF vars
<1>. QED BY <1>1, <1>2

\* A page begins in its initial state.
LEMMA PageInit ==
  ASSUME Init
  PROVE  /\ which = "builder" => WB!Init
         /\ which = "account" => AC!Init
         /\ which = "checkout" => CO!Init
         /\ which = "leads" => LB!Init
         /\ which = "integrations" => IG!Init
         /\ which = "api-keys" => AK!Init
         /\ which = "templates" => TP!Init
         /\ which = "admin-users" => AU!Init
         /\ which = "admin-tables" => AT!Init
         /\ which = "campaigns" => CA!Init
         /\ which = "actions" => AL!Init
BY DEF Init, Start, WBInit, ACInit, COInit, LBInit, IGInit, AKInit, TPInit, AUInit,
       ATInit, CAInit, ALInit

----------------------------------------------------------------------------
(* Administration of users. *)

UserPage == {"customers", "users", "detail"}

\* Users with whether they are active, as a page shows some of them.
Shown == UNION {[S -> BOOLEAN] : S \in SUBSET User}

UserCall ==
  [op : {"load", "status", "role", "suspend", "delete"}, by : User, user : User,
   value : BOOLEAN, from : UserPage, pc : {"sent", "checked", "served"}, list : Shown]

UserTypes ==
  userPage \in UserPage /\ userShown \in Shown /\ userCalls \subseteq UserCall

\* A change of status on its way past the count, that disables.
Counted(c) == c.op = "status" /\ c.pc = "checked" /\ ~c.value

\* While nothing is held against the changes made, there is an administrator,
\* and one more than the user whom a counted change will disable.
Left ==
  cause = {} =>
    /\ AU!Administrators # {}
    /\ \A c \in userCalls : Counted(c) => AU!Administrators \ {c.user} # {}

UserInv == which = "admin-users" => UserTypes /\ Left

\* Of more than one, one is another.
LEMMA OneMore ==
  ASSUME NEW S, NEW x, Cardinality(S) > 1
  PROVE  S \ {x} # {}
<1>. SUFFICES ASSUME S \ {x} = {} PROVE FALSE
  OBVIOUS
<1>1. S = {} \/ S = {x}
  OBVIOUS
<1>2. Cardinality({}) = 0 /\ Cardinality({x}) = 1
  BY FS_EmptySet, FS_Singleton
<1>. QED BY <1>1, <1>2

\* Nothing shown is something to show.
LEMMA NoneShown == <<>> \in Shown
<1>1. <<>> \in [{} -> BOOLEAN]
  OBVIOUS
<1>. QED BY <1>1 DEF Shown

\* What the constants are, as these proofs need it.
LEMMA MeAdmin == Me \in Admins /\ Admins \subseteq User
BY PagesAssumption DEF AU!AdminUsersAssumption

LEMMA LoadTyped == ASSUME NEW p \in UserPage, UserTypes
                   PROVE  AU!Load \in UserCall /\ [AU!Load EXCEPT !.from = p] \in UserCall
BY NoneShown, MeAdmin DEF UserTypes, UserCall, AU!Load

LEMMA InitUsers == Init => UserInv
<1>. SUFFICES ASSUME Init, which = "admin-users" PROVE UserTypes /\ Left
  BY DEF UserInv
<1>1. AU!Init
  BY PageInit
<1>2. UserTypes
  BY <1>1, MeAdmin, NoneShown DEF AU!Init, UserTypes, UserCall, UserPage, AU!Load
<1>3. Left
  BY <1>1, MeAdmin DEF AU!Init, Left, AU!Administrators, AU!Load, Counted
<1>. QED BY <1>2, <1>3

\* A step that leaves the server as it is and adds no counted call.
LEMMA SameServer ==
  ASSUME Left, UNCHANGED <<admin, userActive, cause>>,
         \A c \in userCalls' : Counted(c) => c \in userCalls
  PROVE  Left'
BY DEF Left, AU!Administrators

\* A request, of whomever.
LEMMA AskKeeps ==
  ASSUME UserTypes, Left, NEW by \in User, NEW u \in User, NEW v \in BOOLEAN,
         NEW op \in {"status", "role", "suspend", "delete"}, AU!Ask(op, by, u, v)
  PROVE  UserTypes' /\ Left'
<1>. DEFINE c == [op |-> op, by |-> by, user |-> u, value |-> v, from |-> userPage,
                  pc |-> "sent", list |-> <<>>]
<1>1. c \in UserCall /\ ~Counted(c)
  BY NoneShown DEF UserTypes, UserCall, Counted
<1>2. userCalls' = userCalls \cup {c}
      /\ UNCHANGED <<admin, userActive, userPage, userShown, cause>>
  BY DEF AU!Ask
<1>3. UserTypes'
  BY <1>1, <1>2 DEF UserTypes
<1>. QED BY <1>1, <1>2, <1>3, SameServer

\* A button of a user that is shown.
LEMMA RowKeeps ==
  ASSUME UserTypes, Left, NEW u \in User,
         AU!UserRow(u) \/ AU!UserDetail(u) \/ AU!CustomerRow(u)
  PROVE  UserTypes' /\ Left'
<1>1. Me \in User
  BY MeAdmin
<1>2. (~userShown[u]) \in BOOLEAN
  OBVIOUS
<1>3. CASE AU!updateUserStatus(u)
  BY <1>1, <1>2, <1>3, AskKeeps DEF AU!updateUserStatus
<1>4. ASSUME NEW v \in BOOLEAN, AU!updateUserRole(u, v) PROVE UserTypes' /\ Left'
  BY <1>1, <1>4, AskKeeps DEF AU!updateUserRole
<1>5. CASE AU!suspendOrReactivate(u)
  BY <1>1, <1>2, <1>5, AskKeeps DEF AU!suspendOrReactivate
<1>6. CASE AU!deleteCustomer(u)
  BY <1>1, <1>6, AskKeeps DEF AU!deleteCustomer
<1>. QED BY <1>3, <1>4, <1>5, <1>6 DEF AU!UserRow, AU!UserDetail, AU!CustomerRow

\* A call that has come a step further.
LEMMA CallTyped ==
  ASSUME NEW c \in UserCall, NEW pc \in {"sent", "checked", "served"}
  PROVE  /\ [c EXCEPT !.pc = pc] \in UserCall
         /\ [c EXCEPT !.pc = pc].pc = pc /\ [c EXCEPT !.pc = pc].op = c.op
         /\ [c EXCEPT !.pc = pc].user = c.user /\ [c EXCEPT !.pc = pc].value = c.value
BY DEF UserCall

\* The server's part of a call.
LEMMA ServeKeeps ==
  ASSUME UserTypes, Left, NEW c \in userCalls,
         \/ AU!ServeLoad(c) \/ AU!CountAdmins(c) \/ AU!CommitStatus(c)
         \/ AU!admin_update_user_role(c) \/ AU!suspend_user(c)
  PROVE  UserTypes' /\ Left'
<1>1. c \in UserCall
  BY DEF UserTypes
<1>2. CASE AU!ServeLoad(c)
  <2>. DEFINE list == [u \in User |-> u \in userActive]
              d == [c EXCEPT !.pc = "served", !.list = list]
  <2>1. list \in Shown
    <3>1. list \in [User -> BOOLEAN]
      OBVIOUS
    <3>. QED BY <3>1 DEF Shown
  <2>2. d \in UserCall /\ d.pc = "served"
    BY <1>1, <2>1 DEF UserCall
  <2>3. /\ userCalls' = (userCalls \ {c}) \cup {d}
        /\ UNCHANGED <<admin, userActive, userPage, userShown, cause>>
    BY <1>2 DEF AU!ServeLoad
  <2>. QED BY <2>2, <2>3, SameServer DEF UserTypes, Counted
<1>. DEFINE d(pc) == [c EXCEPT !.pc = pc]
<1>3. ASSUME NEW pc \in {"checked", "served"}, AU!Reply(c, pc)
      PROVE  /\ userCalls' = (userCalls \ {c}) \cup {d(pc)}
             /\ d(pc) \in UserCall /\ d(pc).pc = pc /\ d(pc).op = c.op
             /\ d(pc).user = c.user /\ d(pc).value = c.value
  <2>1. pc \in {"sent", "checked", "served"}
    OBVIOUS
  <2>2. userCalls' = (userCalls \ {c}) \cup {d(pc)}
    BY <1>3 DEF AU!Reply
  <2>. QED BY <1>1, <2>1, <2>2, CallTyped
<1>4. CASE AU!CountAdmins(c)
  <2>1. AU!Reply(c, "checked") /\ UNCHANGED <<admin, userActive, userPage, userShown, cause>>
    BY <1>4 DEF AU!CountAdmins
  <2>2. UserTypes'
    BY <2>1, <1>3 DEF UserTypes
  <2>3. ASSUME ~c.value PROVE AU!Administrators \ {c.user} # {}
    <3>1. CASE c.user \in admin
      BY <1>4, <2>3, <3>1, OneMore DEF AU!CountAdmins, AU!Cardinality, Cardinality
    <3>2. CASE c.user \notin admin
      BY <1>4, <3>2 DEF AU!CountAdmins, AU!Allowed, AU!Administrators
    <3>. QED BY <3>1, <3>2
  <2>4. Left'
    BY <2>1, <2>3, <1>3 DEF Left, Counted, AU!Administrators
  <2>. QED BY <2>2, <2>4
<1>5. CASE AU!CommitStatus(c)
  <2>1. /\ AU!Reply(c, "served") /\ UNCHANGED <<admin, userPage, userShown>>
        /\ c.op = "status" /\ c.pc = "checked"
        /\ userActive' = IF c.value THEN userActive \cup {c.user} ELSE userActive \ {c.user}
    BY <1>5 DEF AU!CommitStatus, AU!Set
  <2>2. UserTypes'
    BY <2>1, <1>3 DEF UserTypes
  <2>3. SUFFICES ASSUME cause' = {} PROVE Left'
    BY <2>2 DEF Left
  <2>4. cause = {} /\ ~\E e \in userCalls \ {c} : e.op = "status" /\ e.pc = "checked"
    BY <1>5, <2>3 DEF AU!CommitStatus
  <2>5. \A e \in userCalls' : ~Counted(e)
    BY <2>1, <2>4, <1>3 DEF Counted
  <2>6. AU!Administrators' # {}
    BY <2>1, <2>4 DEF Left, Counted, AU!Administrators
  <2>. QED BY <2>5, <2>6 DEF Left
<1>6. CASE AU!admin_update_user_role(c)
  <2>1. /\ AU!Reply(c, "served") /\ UNCHANGED <<userActive, userPage, userShown>>
        /\ admin' = IF c.value THEN admin \cup {c.user} ELSE admin \ {c.user}
        /\ cause' = IF c.value THEN cause ELSE cause \cup {"role"}
    BY <1>6 DEF AU!admin_update_user_role
  <2>2. UserTypes'
    BY <2>1, <1>3 DEF UserTypes
  <2>3. Left'
    BY <2>1, <1>3 DEF Left, Counted, AU!Administrators
  <2>. QED BY <2>2, <2>3
<1>7. CASE AU!suspend_user(c)
  <2>1. /\ AU!Reply(c, "served") /\ UNCHANGED <<admin, userPage, userShown>>
        /\ userActive' = IF c.value THEN userActive \cup {c.user} ELSE userActive \ {c.user}
        /\ cause' = IF c.value THEN cause ELSE cause \cup {c.op}
    BY <1>7 DEF AU!suspend_user, AU!Set
  <2>2. UserTypes'
    BY <2>1, <1>3 DEF UserTypes
  <2>3. Left'
    BY <2>1, <1>3 DEF Left, Counted, AU!Administrators
  <2>. QED BY <2>2, <2>3
<1>. QED BY <1>2, <1>4, <1>5, <1>6, <1>7

\* The end of a call.
LEMMA AnswerKeeps ==
  ASSUME UserTypes, Left, NEW c \in userCalls,
         AU!LoadDone(c) \/ AU!ReloadAfter(c) \/ AU!CustomerDone(c) \/ AU!CallEnds(c)
  PROVE  UserTypes' /\ Left'
<1>1. c \in UserCall
  BY DEF UserTypes
<1>2. AU!Load \in UserCall /\ ~Counted(AU!Load)
  BY MeAdmin, NoneShown DEF UserTypes, UserCall, AU!Load, Counted
<1>3. UNCHANGED <<admin, userActive, userPage, cause>>
      /\ userCalls' \subseteq userCalls \cup {AU!Load}
  BY DEF AU!LoadDone, AU!ReloadAfter, AU!CustomerDone, AU!CallEnds
<1>4. Left'
  BY <1>2, <1>3, SameServer
<1>5. userShown' \in Shown
  <2>1. CASE AU!LoadDone(c)
    BY <1>1, <2>1 DEF AU!LoadDone, UserCall
  <2>2. CASE AU!ReloadAfter(c) \/ AU!CallEnds(c)
    BY <2>2, NoneShown DEF AU!ReloadAfter, AU!CallEnds, UserTypes
  <2>3. CASE AU!CustomerDone(c)
    <3>1. PICK S \in SUBSET User : userShown \in [S -> BOOLEAN]
      BY DEF UserTypes, Shown
    <3>2. [userShown EXCEPT ![c.user] = ~@] \in [S -> BOOLEAN]
      BY <3>1
    <3>3. [u \in DOMAIN userShown \ {c.user} |-> userShown[u]] \in [S \ {c.user} -> BOOLEAN]
      BY <3>1
    <3>. QED BY <2>3, <3>1, <3>2, <3>3 DEF AU!CustomerDone, Shown
  <2>. QED BY <2>1, <2>2, <2>3
<1>. QED BY <1>2, <1>3, <1>4, <1>5 DEF UserTypes

LEMMA NextUsers == UserInv /\ [Next]_vars => UserInv'
<1>. SUFFICES ASSUME UserTypes, Left, [Next]_vars, which = "admin-users"
              PROVE  UserTypes' /\ Left'
  BY PageStep DEF UserInv
<1>1. CASE UNCHANGED au
  BY <1>1 DEF au, UserTypes, Left, AU!Administrators
<1>2. ASSUME NEW p \in UserPage, AU!Open(p) PROVE UserTypes' /\ Left'
  <2>1. [AU!Load EXCEPT !.from = p] \in UserCall
    BY LoadTyped
  <2>2. ~Counted([AU!Load EXCEPT !.from = p])
    BY DEF Counted, AU!Load
  <2>. QED BY <1>2, <2>1, <2>2, NoneShown, SameServer DEF AU!Open, UserTypes
<1>3. ASSUME NEW u \in User, NEW a \in User, NEW v \in BOOLEAN, AU!OtherAsks(a, u, v)
      PROVE  UserTypes' /\ Left'
  BY <1>3, AskKeeps DEF AU!OtherAsks
<1>4. CASE AU!loadUsers
  <2>1. AU!Load \in UserCall /\ ~Counted(AU!Load)
    BY MeAdmin, NoneShown DEF UserTypes, UserCall, AU!Load, Counted
  <2>. QED BY <1>4, <2>1, SameServer DEF AU!loadUsers, UserTypes
<1>. QED BY <1>1, <1>2, <1>3, <1>4, RowKeeps, ServeKeeps, AnswerKeeps, PageStep
         DEF AU!Next, UserPage

\* Nobody is left to administer only after a change that is not held against the
\* number of administrators, however many users, administrators and requests
\* there are: admin_update_user_status keeps the last active administrator.
THEOREM LastAdministrator == Spec => []AdministratorLeft
<1>1. UserInv => AdministratorLeft
  BY DEF UserInv, Left, AdministratorLeft, AU!AdministratorLeft
<1>. QED BY <1>1, InitUsers, NextUsers, PTL DEF Spec

----------------------------------------------------------------------------
(* Templates. *)

Install ==
  [n : Nat, by : {"dashboard", "admin", "left", "gone"}, template : Template,
   pc : {"sent", "absent", "done"}]

TemplateTypes ==
  /\ copies \in [Template -> Nat]
  /\ templatePage \in {"dashboard", "admin", "builder"}
  /\ templateCalls \subseteq Install
  /\ \A c \in templateCalls : c.by \in {templatePage, "left", "gone"}
  /\ templateAsked \in Nat

\* The page that is shown waits for c alone, whose button is disabled.
Sole(c) ==
  /\ installing = c.template
  /\ \A d \in templateCalls : d.by = templatePage => d = c

\* A template no cause is held against: it is being copied for the page that is
\* shown only, and once there is a copy no other is about to be made.
\* The admin page has one install at a time, of whichever template.
Guarded ==
  /\ \A c \in templateCalls :
       /\ c.template \notin mixed =>
            /\ c.pc # "done" => c.by = templatePage
            /\ c.by = templatePage => Sole(c)
            /\ c.pc = "absent" => copies[c.template] = 0
       /\ templatePage = "admin" /\ c.by = "admin" => Sole(c)
  /\ \A t \in Template \ mixed : copies[t] <= 1

TemplateInv == which = "templates" => TemplateTypes /\ Guarded

LEMMA InitTemplates == Init => TemplateInv
BY PageInit DEF TemplateInv, TP!Init, TemplateTypes, Guarded

\* Templates an install of which is not answered yet.
LEMMA Asking ==
  ASSUME TemplateTypes, Guarded, NEW t \in Template, TP!Ask(t),
         templatePage \in {"dashboard", "admin"}, installing # t,
         templatePage = "admin" => installing = NoTemplate /\ UNCHANGED mixed,
         templatePage = "dashboard" => mixed' = mixed \cup TP!Overlap(t),
         installing' = t, UNCHANGED <<copies, templatePage>>
  PROVE  TemplateTypes' /\ Guarded'
<1>. DEFINE c == [n |-> templateAsked', by |-> templatePage, template |-> t, pc |-> "sent"]
<1>1. templateAsked' = templateAsked + 1 /\ templateCalls' = templateCalls \cup {c}
  BY DEF TP!Ask
<1>2. TemplateTypes'
  BY <1>1 DEF TemplateTypes, Install
<1>3. mixed \subseteq mixed'
  BY DEF TemplateTypes
\* Calls of this page that were there are of other templates, and mixed now.
<1>4. ASSUME NEW d \in templateCalls, d.by = templatePage, t \notin mixed' \/ templatePage = "admin"
      PROVE  FALSE
  <2>1. CASE templatePage = "admin"
    BY <1>4, <2>1, PagesAssumption DEF Guarded, Sole, TemplateTypes, Install, TP!TemplatesAssumption
  <2>2. CASE templatePage = "dashboard"
    <3>1. d.template \notin mixed => d.template = installing
      BY <1>4 DEF Guarded, Sole
    <3>2. CASE d.template = t
      BY <1>3, <1>4, <2>2, <3>1, <3>2
    <3>3. CASE d.template # t
      BY <1>4, <2>2, <3>3 DEF TP!Overlap
    <3>. QED BY <3>2, <3>3
  <2>. QED BY <2>1, <2>2
<1>5. ASSUME NEW d \in templateCalls, d.by = templatePage
      PROVE  d.template \in mixed' /\ templatePage # "admin"
  <2>1. t \in mixed' /\ templatePage # "admin"
    BY <1>4, <1>5
  <2>2. d.template # t => d.template \in mixed'
    BY <1>5, <2>1 DEF TP!Overlap
  <2>. QED BY <2>1, <2>2
<1>6. \A d \in templateCalls : d.template \notin mixed' =>
        d.pc = "done" /\ d.by # templatePage
  BY <1>3, <1>5 DEF Guarded
<1>7. Guarded'
  BY <1>1, <1>3, <1>4, <1>5, <1>6 DEF Guarded, Sole
<1>. QED BY <1>2, <1>7

\* Another page is shown: the calls left belong to none.
LEMMA Entering ==
  ASSUME TemplateTypes, Guarded, NEW p \in {"dashboard", "admin", "builder"}, TP!Enter(p),
         NEW cs \in SUBSET templateCalls, templateCalls' = TP!Left(cs),
         UNCHANGED <<copies, templateAsked>>
  PROVE  TemplateTypes' /\ Guarded'
<1>1. \A c \in Install : /\ [c EXCEPT !.by = "left"] \in Install
                         /\ [c EXCEPT !.by = "left"].by = "left"
                         /\ [c EXCEPT !.by = "left"].pc = c.pc
                         /\ [c EXCEPT !.by = "left"].template = c.template
  BY DEF Install
<1>2. \A d \in templateCalls' : \E c \in cs :
        d \in Install /\ d.by \in {"left", "gone"} /\ d.pc = c.pc /\ d.template = c.template
  <2>1. \A c \in cs : c \in Install
    BY DEF TemplateTypes
  <2>2. ASSUME NEW d \in templateCalls'
        PROVE  \E c \in cs : d = IF c.by = "gone" THEN c ELSE [c EXCEPT !.by = "left"]
    BY DEF TP!Left
  <2>3. ASSUME NEW c \in cs, NEW d, d = IF c.by = "gone" THEN c ELSE [c EXCEPT !.by = "left"]
        PROVE  d \in Install /\ d.by \in {"left", "gone"} /\ d.pc = c.pc
               /\ d.template = c.template
    BY <1>1, <2>1, <2>3
  <2>. QED BY <2>2, <2>3
<1>3. TemplateTypes'
  BY <1>2 DEF TemplateTypes, TP!Enter
<1>4. templatePage' = p /\ mixed' = mixed \cup TP!Pending
  BY DEF TP!Enter
<1>5. \A d \in templateCalls' : d.by # templatePage' /\ (d.template \notin mixed' => d.pc = "done")
  BY <1>2, <1>4 DEF TP!Pending
<1>. QED BY <1>3, <1>4, <1>5 DEF Guarded

\* The server takes a step with a call.
LEMMA Copying ==
  ASSUME TemplateTypes, Guarded, NEW c \in templateCalls, TP!FindCopy(c) \/ TP!CreateCopy(c)
  PROVE  TemplateTypes' /\ Guarded'
<1>1. PICK pc \in {"absent", "done"} :
        /\ templateCalls' = (templateCalls \ {c}) \cup {[c EXCEPT !.pc = pc]}
        /\ UNCHANGED <<templatePage, installing, templateAsked, mixed>>
        /\ pc = "absent" => copies[c.template] = 0 /\ UNCHANGED copies
        /\ c.pc # "done"
        /\ \/ UNCHANGED copies
           \/ c.pc = "absent" /\ pc = "done" /\ copies' = [copies EXCEPT ![c.template] = @ + 1]
  <2>1. CASE TP!FindCopy(c)
    BY <2>1 DEF TP!FindCopy, TP!Step, TemplateTypes, Install
  <2>2. CASE TP!CreateCopy(c)
    BY <2>2 DEF TP!CreateCopy, TP!Step
  <2>. QED BY <2>1, <2>2
<1>. DEFINE e == [c EXCEPT !.pc = pc]
<1>2. e \in Install /\ e.pc = pc /\ e.by = c.by /\ e.template = c.template
  BY DEF TemplateTypes, Install
<1>3. TemplateTypes'
  <2>1. copies' \in [Template -> Nat]
    BY <1>1 DEF TemplateTypes, Install
  <2>. QED BY <1>1, <1>2, <2>1 DEF TemplateTypes
<1>4. c \in Install /\ c.template \in Template
  BY DEF TemplateTypes, Install
<1>5. ASSUME NEW d \in templateCalls \ {c}, d.template = c.template, d.template \notin mixed
      PROVE  d.pc = "done"
  BY <1>1, <1>5 DEF Guarded, Sole
<1>6. \A t \in Template \ mixed : copies'[t] <= 1
  BY <1>1, <1>4 DEF Guarded, TemplateTypes
<1>7. ASSUME NEW d \in templateCalls', d.template \notin mixed
      PROVE  /\ d.pc # "done" => d.by = templatePage
             /\ d.by = templatePage => Sole(d)'
             /\ d.pc = "absent" => copies'[d.template] = 0
  <2>1. CASE d = e
    <3>. HIDE DEF e
    <3>1. c.template \notin mixed /\ c.by = templatePage /\ Sole(c)
      BY <1>1, <1>2, <1>7, <2>1 DEF Guarded
    <3>2. Sole(e)'
      BY <1>1, <1>2, <3>1 DEF Sole, e
    <3>. QED BY <1>1, <1>2, <2>1, <3>1, <3>2
  <2>2. CASE d \in templateCalls \ {c}
    <3>1. d.by = templatePage => c.by # templatePage
      BY <1>7, <2>2 DEF Guarded, Sole
    <3>2. d.by = templatePage => Sole(d)'
      BY <1>1, <1>2, <1>7, <2>2, <3>1 DEF Guarded, Sole
    <3>3. d.pc = "absent" => copies'[d.template] = 0
      BY <1>1, <1>4, <1>5, <1>7, <2>2 DEF Guarded, TemplateTypes, Install
    <3>. QED BY <1>7, <2>2, <3>2, <3>3 DEF Guarded
  <2>. QED BY <1>1, <1>7, <2>1, <2>2
<1>8. ASSUME NEW d \in templateCalls', templatePage = "admin", d.by = "admin" PROVE Sole(d)'
  <2>1. CASE d = e
    <3>1. Sole(c)
      BY <1>2, <1>8, <2>1 DEF Guarded
    <3>. QED BY <1>1, <1>2, <1>8, <2>1, <3>1 DEF Sole
  <2>2. CASE d \in templateCalls \ {c}
    <3>1. Sole(d) /\ c.by # "admin"
      BY <1>8, <2>2 DEF Guarded, Sole
    <3>. QED BY <1>1, <1>2, <1>8, <3>1 DEF Sole
  <2>. QED BY <1>1, <2>1, <2>2
<1>. QED BY <1>1, <1>3, <1>6, <1>7, <1>8 DEF Guarded

\* An install that fails, or whose answer is lost.
LEMMA Failing ==
  ASSUME TemplateTypes, Guarded, NEW c \in templateCalls, TP!InstallFails(c)
  PROVE  TemplateTypes' /\ Guarded'
<1>. DEFINE e == [c EXCEPT !.by = "gone"]
<1>1. e \in Install /\ e.by = "gone" /\ e.template = c.template /\ c \in Install
  BY DEF TemplateTypes, Install
<1>2. /\ c.by # "gone" /\ UNCHANGED <<copies, templatePage, templateAsked>>
      /\ installing' = IF c.by = "left" THEN installing ELSE NoTemplate
      /\ \/ templateCalls' = templateCalls \ {c} /\ UNCHANGED mixed
         \/ templateCalls' = (templateCalls \ {c}) \cup {e} /\ mixed' = mixed \cup {c.template}
  BY DEF TP!InstallFails
<1>3. TemplateTypes'
  BY <1>1, <1>2 DEF TemplateTypes
<1>4. mixed \subseteq mixed' /\ templateCalls' \subseteq (templateCalls \ {c}) \cup {e}
      /\ (e \in templateCalls' => c.template \in mixed' \/ e \in templateCalls)
  BY <1>2
<1>5. ASSUME NEW d \in templateCalls \ {c}, Sole(d), d.by = templatePage
      PROVE  Sole(d)'
  <2>1. c.by # templatePage
    BY <1>5 DEF Sole
  <2>2. c.by = "left"
    BY <1>2, <2>1 DEF TemplateTypes
  <2>. QED BY <1>1, <1>2, <1>4, <1>5, <2>2 DEF Sole, TemplateTypes
<1>. QED BY <1>1, <1>2, <1>3, <1>4, <1>5 DEF Guarded, TemplateTypes

LEMMA NextTemplates == TemplateInv /\ [Next]_vars => TemplateInv'
<1>. SUFFICES ASSUME TemplateTypes, Guarded, [Next]_vars, which = "templates"
              PROVE  TemplateTypes' /\ Guarded'
  BY PageStep DEF TemplateInv
<1>1. CASE UNCHANGED tp \/ TP!Load \/ TP!Filter \/ TP!ClearFilters
  <2>1. UNCHANGED <<copies, templatePage, templateCalls, templateAsked, installing, mixed>>
    BY <1>1 DEF tp, TP!Load, TP!Filter, TP!ClearFilters
  <2>. QED BY <2>1 DEF TemplateTypes, Guarded, Sole
<1>2. ASSUME NEW p \in {"dashboard", "admin"}, TP!Open(p) PROVE TemplateTypes' /\ Guarded'
  BY <1>2, Entering DEF TP!Open
<1>3. ASSUME NEW t \in Template, TP!handleInstallTemplate(t) \/ TP!cloneTemplate(t)
      PROVE  TemplateTypes' /\ Guarded'
  <2>1. t # NoTemplate
    BY PagesAssumption DEF TP!TemplatesAssumption
  <2>. QED BY <1>3, <2>1, Asking DEF TP!handleInstallTemplate, TP!cloneTemplate
<1>4. ASSUME NEW c \in templateCalls, TP!Installed(c) PROVE TemplateTypes' /\ Guarded'
  BY <1>4, Entering DEF TP!Installed
<1>. QED BY <1>1, <1>2, <1>3, <1>4, Copying, Failing, PageStep DEF TP!Next

\* A tenant gets one copy of a template but for the causes OneCopyEach names,
\* however many templates there are and however often they are installed: the
\* disabled button holds against a second request, the look-up against a later one.
THEOREM CopiedOnce == Spec => []OneCopyEach
<1>1. TemplateInv => OneCopyEach
  BY DEF TemplateInv, Guarded, TemplateTypes, OneCopyEach, TP!OneCopyEach
<1>. QED BY <1>1, InitTemplates, NextTemplates, PTL DEF Spec

----------------------------------------------------------------------------
(* API keys. *)

KeyCall ==
  [op : {"mount", "create", "revoke"}, pc : {"sent", "late", "served", "load", "listed"},
   key : Nat, list : SUBSET [key : Nat, is_active : BOOLEAN]]

Request == [try : Nat, pc : {"sent", "status"}]

\* A secret is shown, lost, or on its way in an answer.
SecretsTold ==
  \A k \in 1 .. created :
    \/ k \in keyShown \cup lost
    \/ \E c \in keyCalls : c.op = "create" /\ c.key = k /\ c.pc = "served"

\* The explorer has one request in flight, and shows nothing yet or its status.
OneRequest ==
  \/ requests = {} /\ (0 \notin {explorer[1], explorer[2]} => explorer[1] = explorer[2])
  \/ \E q \in requests :
       requests = {q} /\ explorer[2] = 0 /\ explorer[1] \in {0, q.try}

KeyInv ==
  which = "api-keys" =>
    /\ created \in Nat /\ keyCalls \subseteq KeyCall
    /\ requests \subseteq Request /\ explorer \in Nat \X Nat /\ tries \in Nat
    /\ SecretsTold
    /\ OneRequest

LEMMA InitKeys == Init => KeyInv
<1>. SUFFICES ASSUME AK!Init, which = "api-keys" PROVE KeyInv
  BY PageInit DEF KeyInv
<1>. USE DEF AK!Init
<1>1. keyCalls \subseteq KeyCall
  BY DEF KeyCall
<1>2. SecretsTold /\ OneRequest
  BY DEF SecretsTold, OneRequest
<1>. QED BY <1>1, <1>2 DEF KeyInv

\* Secrets on their way stay so, or are told.
LEMMA StillTold ==
  ASSUME SecretsTold, UNCHANGED created, keyShown \cup lost \subseteq keyShown' \cup lost',
         \A c \in keyCalls : c.op = "create" /\ c.pc = "served"
           => c.key \in keyShown' \cup lost' \/ c \in keyCalls'
  PROVE  SecretsTold'
BY DEF SecretsTold

\* Creating, revoking and listing keys.
LEMMA KeysKeep ==
  ASSUME created \in Nat, keyCalls \subseteq KeyCall, SecretsTold,
         \/ AK!createKey \/ \E k \in AK!Key : AK!revoke(k)
         \/ \E c \in keyCalls : \/ AK!Serve(c) \/ AK!Changed(c) \/ AK!ServeLoad(c)
                                \/ AK!LoadDone(c) \/ AK!CallFails(c)
  PROVE  created' \in Nat /\ keyCalls' \subseteq KeyCall /\ SecretsTold'
<1>. USE DEF AK!server
<1>1. ASSUME NEW op \in {"create", "revoke"}, NEW k \in Nat, AK!Send(op, k),
             UNCHANGED <<created, keyShown, lost>>
      PROVE  created' \in Nat /\ keyCalls' \subseteq KeyCall /\ SecretsTold'
  <2>. DEFINE c == [op |-> op, pc |-> "sent", key |-> k, list |-> {}]
  <2>1. c \in KeyCall /\ keyCalls' = keyCalls \cup {c}
    BY <1>1 DEF AK!Send, KeyCall
  <2>. QED BY <1>1, <2>1, StillTold
<1>2. CASE AK!createKey
  BY <1>1, <1>2 DEF AK!createKey
<1>3. ASSUME NEW k \in AK!Key, AK!revoke(k)
      PROVE  created' \in Nat /\ keyCalls' \subseteq KeyCall /\ SecretsTold'
  BY <1>1, <1>3 DEF AK!revoke, AK!Key
<1>4. ASSUME NEW c \in keyCalls, AK!Serve(c)
      PROVE  created' \in Nat /\ keyCalls' \subseteq KeyCall /\ SecretsTold'
  <2>1. c \in KeyCall /\ c.pc \in {"sent", "late"} /\ UNCHANGED keyShown
    BY <1>4 DEF AK!Serve
  <2>0. CASE created' = created + 1 /\ keyCalls' = keyCalls \ {c}
             /\ lost' = lost \cup {created'}
    <3>1. ASSUME NEW k \in 1 .. created'
          PROVE  \/ k \in keyShown' \cup lost'
                 \/ \E e \in keyCalls' : e.op = "create" /\ e.key = k /\ e.pc = "served"
      <4>1. k = created' \/ k \in 1 .. created
        BY <2>0
      <4>. QED BY <2>0, <2>1, <4>1 DEF SecretsTold
    <3>2. SecretsTold'
      BY <3>1 DEF SecretsTold
    <3>. QED BY <2>0, <3>2
  <2>2. CASE c.op = "create" /\ created' = created + 1 /\ UNCHANGED lost
             /\ keyCalls' = (keyCalls \ {c}) \cup {[c EXCEPT !.pc = "served", !.key = created']}
    <3>. DEFINE d == [c EXCEPT !.pc = "served", !.key = created']
    <3>1. created' \in Nat
      BY <2>2
    <3>2. d \in KeyCall /\ d.pc = "served" /\ d.key = created' /\ d.op = "create"
      BY <2>1, <2>2, <3>1 DEF KeyCall
    <3>. HIDE DEF d
    <3>3. keyCalls' = (keyCalls \ {c}) \cup {d}
      BY <2>2 DEF d
    <3>4. ASSUME NEW k \in 1 .. created'
          PROVE  \/ k \in keyShown' \cup lost'
                 \/ \E e \in keyCalls' : e.op = "create" /\ e.key = k /\ e.pc = "served"
      <4>1. CASE k = created'
        BY <3>2, <3>3, <4>1
      <4>2. CASE k \in 1 .. created
        <5>1. PICK e : \/ k \in keyShown \cup lost
                       \/ e \in keyCalls /\ e.op = "create" /\ e.key = k /\ e.pc = "served"
          BY <4>2 DEF SecretsTold
        <5>. QED BY <2>1, <2>2, <3>3, <5>1
      <4>. QED BY <2>2, <4>1, <4>2
    <3>5. SecretsTold'
      BY <3>4 DEF SecretsTold
    <3>. QED BY <3>1, <3>2, <3>3, <3>5
  <2>3. CASE UNCHANGED <<created, lost>>
             /\ keyCalls' = (keyCalls \ {c}) \cup {[c EXCEPT !.pc = "served"]}
    <3>1. [c EXCEPT !.pc = "served"] \in KeyCall
      BY <2>1 DEF KeyCall
    <3>. QED BY <2>1, <2>3, <3>1, StillTold
  <2>. QED BY <1>4, <2>0, <2>2, <2>3 DEF AK!Serve
<1>5. ASSUME NEW c \in keyCalls, AK!Changed(c)
      PROVE  created' \in Nat /\ keyCalls' \subseteq KeyCall /\ SecretsTold'
  <2>1. c \in KeyCall /\ UNCHANGED <<created, lost>>
        /\ keyCalls' = (keyCalls \ {c}) \cup {[c EXCEPT !.pc = "load"]}
        /\ IF c.op = "create" THEN keyShown' = keyShown \cup {c.key} ELSE UNCHANGED keyShown
    BY <1>5 DEF AK!Changed
  <2>2. [c EXCEPT !.pc = "load"] \in KeyCall
    BY <2>1 DEF KeyCall
  <2>. QED BY <2>1, <2>2, StillTold
<1>6. ASSUME NEW c \in keyCalls, AK!ServeLoad(c)
      PROVE  created' \in Nat /\ keyCalls' \subseteq KeyCall /\ SecretsTold'
  <2>1. c \in KeyCall /\ c.pc = "load" /\ UNCHANGED <<created, keyShown, lost>>
        /\ keyCalls' = (keyCalls \ {c}) \cup {[c EXCEPT !.pc = "listed", !.list = AK!Listed]}
    BY <1>6 DEF AK!ServeLoad
  <2>2. \A k \in 1 .. created :
          [key |-> k, is_active |-> k \notin revoked] \in [key : Nat, is_active : BOOLEAN]
    OBVIOUS
  <2>3. AK!Listed \in SUBSET [key : Nat, is_active : BOOLEAN]
    BY <2>2 DEF AK!Listed
  <2>4. [c EXCEPT !.pc = "listed", !.list = AK!Listed] \in KeyCall
    BY <2>1, <2>3 DEF KeyCall
  <2>. QED BY <2>1, <2>4, StillTold
<1>7. ASSUME NEW c \in keyCalls, AK!LoadDone(c) \/ AK!CallFails(c)
      PROVE  created' \in Nat /\ keyCalls' \subseteq KeyCall /\ SecretsTold'
  <2>1. [c EXCEPT !.pc = "late"] \in KeyCall
    BY DEF KeyCall
  <2>. QED BY <1>7, <2>1, StillTold DEF AK!LoadDone, AK!CallFails
<1>. QED BY <1>2, <1>3, <1>4, <1>5, <1>6, <1>7

\* The explorer.
LEMMA ExplorerKeeps ==
  ASSUME requests \subseteq Request, explorer \in Nat \X Nat, tries \in Nat, OneRequest,
         \/ AK!PasteKey \/ AK!ClearExplorer \/ AK!runApiExplorer
         \/ \E q \in requests : \/ AK!ExplorerStatus(q) \/ AK!ExplorerText(q)
                                \/ AK!ExplorerFails(q)
  PROVE  requests' \subseteq Request /\ explorer' \in Nat \X Nat /\ tries' \in Nat
         /\ OneRequest'
<1>1. CASE AK!PasteKey
  BY <1>1 DEF AK!PasteKey, OneRequest
<1>2. CASE AK!ClearExplorer
  BY <1>2 DEF AK!ClearExplorer, OneRequest
<1>3. CASE AK!runApiExplorer
  BY <1>3 DEF AK!runApiExplorer, AK!explorerLoading, OneRequest, Request
<1>4. ASSUME NEW q \in requests,
             AK!ExplorerStatus(q) \/ AK!ExplorerText(q) \/ AK!ExplorerFails(q)
      PROVE  requests' \subseteq Request /\ explorer' \in Nat \X Nat /\ tries' \in Nat
             /\ OneRequest'
  <2>1. requests = {q} /\ explorer[2] = 0 /\ explorer[1] \in {0, q.try} /\ q \in Request
    BY DEF OneRequest
  <2>2. [q EXCEPT !.pc = "status"] \in Request /\ [q EXCEPT !.pc = "status"].try = q.try
    BY <2>1 DEF Request
  <2>3. q.try \in Nat
    BY <2>1 DEF Request
  <2>4. CASE AK!ExplorerStatus(q)
    BY <2>1, <2>2, <2>3, <2>4 DEF AK!ExplorerStatus, OneRequest
  <2>5. CASE AK!ExplorerText(q) \/ AK!ExplorerFails(q)
    BY <2>1, <2>3, <2>5 DEF AK!ExplorerText, AK!ExplorerFails, OneRequest
  <2>. QED BY <1>4, <2>4, <2>5
<1>. QED BY <1>1, <1>2, <1>3, <1>4

LEMMA NextKeys == KeyInv /\ [Next]_vars => KeyInv'
<1>. SUFFICES ASSUME KeyInv, [Next]_vars, which = "api-keys" PROVE KeyInv'
  BY PageStep DEF KeyInv
<1>. USE DEF AK!keys, AK!explore, AK!server
<1>1. CASE UNCHANGED ak
  BY <1>1, PageStep DEF ak, KeyInv, SecretsTold, OneRequest
<1>2. CASE \/ AK!createKey \/ \E k \in AK!Key : AK!revoke(k)
           \/ \E c \in keyCalls : \/ AK!Serve(c) \/ AK!Changed(c) \/ AK!ServeLoad(c)
                                  \/ AK!LoadDone(c) \/ AK!CallFails(c)
  <2>1. UNCHANGED <<requests, explorer, tries>>
    BY <1>2 DEF AK!createKey, AK!revoke, AK!Serve, AK!Changed, AK!ServeLoad, AK!LoadDone,
                AK!CallFails
  <2>. QED BY <1>2, <2>1, KeysKeep, PageStep DEF KeyInv, OneRequest
<1>3. CASE \/ AK!PasteKey \/ AK!ClearExplorer \/ AK!runApiExplorer
           \/ \E q \in requests : \/ AK!ExplorerStatus(q) \/ AK!ExplorerText(q)
                                  \/ AK!ExplorerFails(q)
  <2>1. UNCHANGED <<created, keyCalls, keyShown, lost>>
    BY <1>3 DEF AK!PasteKey, AK!ClearExplorer, AK!runApiExplorer, AK!ExplorerStatus,
                AK!ExplorerText, AK!ExplorerFails
  <2>. QED BY <1>3, <2>1, ExplorerKeeps, PageStep DEF KeyInv, SecretsTold
<1>. QED BY <1>1, <1>2, <1>3, PageStep DEF KeyInv, AK!Next

----------------------------------------------------------------------------
(* Integrations. *)

ProviderCall ==
  [op : {"status", "connect", "disconnect", "abandoned"},
   waits : SUBSET Provider, seen : SUBSET Provider]

\* What is waited for is not seen yet.  A call other than a status call is about
\* one provider, and has its answer only when it disconnects.
OfOne(c) ==
  /\ c.waits \cap c.seen = {}
  /\ c.op # "status" =>
       \E p \in Provider : \/ c.waits = {p} /\ c.seen = {}
                           \/ c.waits = {} /\ c.seen = {p} /\ c.op = "disconnect"

IntegrationTypes ==
  /\ connected \in [Provider -> SUBSET Account]
  /\ \A p \in Provider : IsFiniteSet(connected[p])
  /\ integrationCalls \subseteq ProviderCall
  /\ \A c \in integrationCalls : OfOne(c)
  /\ away # None => \A c \in integrationCalls : c.op = "abandoned"

\* What a status call has read of p is so.
Read(p) ==
  \A c \in integrationCalls :
    c.op = "status" /\ p \notin c.waits => (p \in c.seen <=> connected[p] # {})

\* p is being disconnected by one call, with no status call in flight.
Alone(p) ==
  \A c \in integrationCalls :
    c.op = "disconnect" /\ p \in c.waits \cup c.seen =>
      /\ \A d \in integrationCalls :
           d.op = "status" \/ (d.op = "disconnect" /\ p \in d.waits \cup d.seen) => d = c
      /\ c.waits = {} => connected[p] = {}

\* A call without anyone to answer leaves p alone.
NotAbandoned(p) == \A c \in integrationCalls : c.op = "abandoned" => p \notin c.waits

\* An answer is on its way that will show what is so of p.
Coming(p) ==
  \E c \in integrationCalls : c.op = "status" \/ (c.op = "disconnect" /\ p \in c.seen)

Sure(p) ==
  /\ Read(p) /\ Alone(p) /\ NotAbandoned(p)
  /\ Coming(p) \/ (p \in profile <=> connected[p] # {})

AllSure == away = None => \A p \in Provider \ integrationUnsure : Sure(p)

IntegrationInv == which = "integrations" => IntegrationTypes /\ AllSure

LEMMA InitIntegrations == Init => IntegrationInv
<1>. SUFFICES ASSUME IG!Init, which = "integrations" PROVE IntegrationTypes /\ AllSure
  BY PageInit DEF IntegrationInv
<1>. USE DEF IG!Init, IG!Status
<1>1. ASSUME NEW p \in Provider PROVE IsFiniteSet(connected[p])
  <2>1. connected[p] = {} \/ \E a \in Account : connected[p] = {a}
    OBVIOUS
  <2>. QED BY <2>1, FS_EmptySet, FS_Singleton
<1>2. connected \in [Provider -> SUBSET Account]
  OBVIOUS
<1>3. IntegrationTypes
  BY <1>1, <1>2 DEF IntegrationTypes, ProviderCall, OfOne
<1>4. AllSure
  BY DEF AllSure, Sure, Read, Alone, NotAbandoned, Coming
<1>. QED BY <1>3, <1>4

\* A call is sent: whatever it crosses is unsure from then.
LEMMA Sending ==
  ASSUME IntegrationTypes, AllSure, NEW c \in ProviderCall, NEW flag, IG!Send(c, flag),
         \/ c = IG!Status
         \/ c.op \in {"connect", "disconnect"} /\ \E q \in Provider : c = IG!Call(c.op, q)
  PROVE  IntegrationTypes' /\ AllSure'
<1>1. /\ away = None /\ away' = None /\ UNCHANGED <<connected, profile>>
      /\ integrationCalls' = integrationCalls \cup {c}
  BY DEF IG!Send
<1>2. IntegrationTypes'
  BY <1>1 DEF IntegrationTypes, OfOne, IG!Status, IG!Call
<1>3. SUFFICES ASSUME NEW p \in Provider \ integrationUnsure' PROVE Sure(p)'
  BY <1>2 DEF AllSure
<1>4. CASE integrationCalls = {} /\ c = IG!Status
  <2>1. integrationCalls' = {c} /\ c.op = "status" /\ c.waits = Provider
    BY <1>1, <1>4 DEF IG!Status
  <2>. QED BY <2>1 DEF Sure, Read, Alone, NotAbandoned, Coming
<1>5. CASE ~(integrationCalls = {} /\ c = IG!Status)
  <2>1. p \notin integrationUnsure
        /\ \A d \in integrationCalls : p \notin IG!Crossed(c, d)
    BY <1>5 DEF IG!Send
  <2>2. Sure(p)
    BY <1>1, <2>1 DEF AllSure
  <2>3. \A d \in integrationCalls :
          c.op = "disconnect" \/ d.op = "disconnect"
            => p \notin IG!Targets(c) \/ p \notin IG!Targets(d)
    BY <2>1 DEF IG!Crossed
  <2>4. CASE c = IG!Status
    <3>1. c.op = "status" /\ c.waits = Provider /\ p \in IG!Targets(c)
      BY <2>4 DEF IG!Status, IG!Targets
    <3>2. \A d \in integrationCalls : d.op = "disconnect" => p \notin d.waits \cup d.seen
      BY <2>3, <3>1 DEF IG!Targets
    <3>. QED BY <1>1, <2>2, <3>1, <3>2 DEF Sure, Read, Alone, NotAbandoned, Coming
  <2>5. ASSUME NEW q \in Provider, c.op = "connect", c = IG!Call("connect", q) PROVE Sure(p)'
    BY <1>1, <2>2, <2>5 DEF Sure, Read, Alone, NotAbandoned, Coming
  <2>6. ASSUME NEW q \in Provider, c.op = "disconnect", c = IG!Call("disconnect", q)
        PROVE  Sure(p)'
    <3>1. c.waits = {q} /\ c.seen = {}
      BY <2>6 DEF IG!Call
    <3>2. CASE p # q
      BY <1>1, <2>2, <2>6, <3>1, <3>2 DEF Sure, Read, Alone, NotAbandoned, Coming
    <3>3. CASE p = q
      <4>1. \A d \in integrationCalls :
              d.op # "status" /\ ~(d.op = "disconnect" /\ p \in d.waits \cup d.seen)
        BY <2>3, <2>6, <3>1, <3>3 DEF IG!Targets
      <4>. QED BY <1>1, <2>2, <2>6, <3>1, <3>3, <4>1 DEF Sure, Read, Alone, NotAbandoned, Coming
    <3>. QED BY <3>2, <3>3
  <2>. QED BY <2>4, <2>5, <2>6
<1>. QED BY <1>4, <1>5

\* A provider's status is read.
LEMMA Reading ==
  ASSUME IntegrationTypes, AllSure, NEW c \in integrationCalls, NEW q \in Provider,
         IG!ServeProfile(c, q)
  PROVE  IntegrationTypes' /\ AllSure'
<1>1. PICK seen \in {c.seen} \cup IF connected[q] # {} THEN {c.seen \cup {q}} ELSE {} :
        /\ integrationCalls' = (integrationCalls \ {c}) \cup
             {[c EXCEPT !.waits = c.waits \ {q}, !.seen = seen]}
        /\ integrationUnsure' = IF connected[q] # {} /\ seen = c.seen
                                THEN integrationUnsure \cup {q} ELSE integrationUnsure
  BY DEF IG!ServeProfile
<1>. DEFINE d == [c EXCEPT !.waits = c.waits \ {q}, !.seen = seen]
<1>2. c.op = "status" /\ q \in c.waits /\ UNCHANGED <<connected, profile, away>>
  BY DEF IG!ServeProfile
<1>3. c \in ProviderCall /\ seen \in SUBSET Provider
  BY <1>1 DEF IntegrationTypes, ProviderCall
<1>4. d \in ProviderCall /\ d.op = "status" /\ d.waits = c.waits \ {q} /\ d.seen = seen
  BY <1>2, <1>3 DEF ProviderCall
<1>. HIDE DEF d
<1>5. integrationCalls' = (integrationCalls \ {c}) \cup {d}
  BY <1>1 DEF d
<1>6. IntegrationTypes'
  <2>1. d.waits \cap d.seen = {}
    BY <1>1, <1>4 DEF IntegrationTypes, OfOne
  <2>. QED BY <1>2, <1>4, <1>5, <2>1 DEF IntegrationTypes, OfOne
<1>7. ASSUME away = None, NEW p \in Provider \ integrationUnsure' PROVE Sure(p)'
  <2>1. Sure(p) /\ p \notin integrationUnsure
    BY <1>1, <1>7 DEF AllSure
  <2>2. p # q => (p \in seen <=> p \in c.seen)
    BY <1>1
  <2>3. p = q => (p \in seen <=> connected[q] # {})
    <3>1. CASE connected[q] = {}
      BY <1>1, <1>2, <3>1 DEF IntegrationTypes, OfOne
    <3>2. CASE connected[q] # {}
      BY <1>1, <1>7, <3>2
    <3>. QED BY <3>1, <3>2
  <2>4. Read(p)'
    BY <1>2, <1>4, <1>5, <2>1, <2>2, <2>3 DEF Sure, Read
  <2>5. Alone(p)' /\ NotAbandoned(p)' /\ Coming(p)'
    BY <1>2, <1>4, <1>5, <2>1 DEF Sure, Alone, NotAbandoned, Coming
  <2>. QED BY <2>4, <2>5 DEF Sure
<1>. QED BY <1>2, <1>6, <1>7 DEF AllSure

\* Of no more than one account, none is left after one went.
LEMMA NoneLeft ==
  ASSUME NEW S, IsFiniteSet(S), ~(Cardinality(S) > 1), NEW a \in S
  PROVE  S \ {a} = {}
<1>. SUFFICES ASSUME NEW b \in S, b # a PROVE FALSE
  OBVIOUS
<1>1. Cardinality({a}) = 1 /\ IsFiniteSet({a})
  BY FS_Singleton
<1>2. Cardinality({a} \cup {b}) = 2
  BY <1>1, FS_AddElement
<1>3. {a} \cup {b} \subseteq S
  OBVIOUS
<1>4. Cardinality({a} \cup {b}) <= Cardinality(S) /\ Cardinality(S) \in Nat
  BY <1>3, FS_Subset, FS_CardinalityType
<1>. QED BY <1>2, <1>4

\* The server disconnects an account, perhaps for a page that is gone.
LEMMA Disconnecting ==
  ASSUME IntegrationTypes, AllSure, NEW c \in integrationCalls, NEW q \in Provider,
         IG!disconnect_provider(c, q)
  PROVE  IntegrationTypes' /\ AllSure'
<1>. DEFINE d == [c EXCEPT !.waits = {}, !.seen = {q}]
<1>1. /\ c.op \in {"disconnect", "abandoned"} /\ c.waits = {q}
      /\ UNCHANGED <<profile, away>>
      /\ integrationCalls' = (integrationCalls \ {c}) \cup
           IF c.op = "disconnect" THEN {d} ELSE {}
      /\ \/ (connected[q] = {} \/ c.op = "abandoned") /\ UNCHANGED connected
         \/ \E a \in connected[q] : connected' = [connected EXCEPT ![q] = @ \ {a}]
      /\ integrationUnsure' = IF Cardinality(connected[q]) > 1
                              THEN integrationUnsure \cup {q} ELSE integrationUnsure
  BY DEF IG!disconnect_provider, IG!Cardinality, Cardinality
<1>2. c \in ProviderCall
  BY DEF IntegrationTypes
<1>3. d \in ProviderCall /\ d.op = c.op /\ d.waits = {} /\ d.seen = {q}
  BY <1>2 DEF ProviderCall
<1>. HIDE DEF d
<1>4. /\ connected' \in [Provider -> SUBSET Account]
      /\ \A p \in Provider : p # q => connected'[p] = connected[p]
      /\ \/ connected'[q] = connected[q] /\ (connected[q] = {} \/ c.op = "abandoned")
         \/ \E a \in connected[q] : connected'[q] = connected[q] \ {a}
  BY <1>1 DEF IntegrationTypes
<1>5. IntegrationTypes'
  <2>1. ASSUME NEW p \in Provider PROVE IsFiniteSet(connected'[p])
    <3>1. connected'[p] \subseteq connected[p]
      BY <1>4
    <3>. QED BY <3>1, FS_Subset DEF IntegrationTypes
  <2>2. c.op = "disconnect" => OfOne(d)
    BY <1>3 DEF OfOne
  <2>3. \A e \in integrationCalls' : e \in integrationCalls \/ (e = d /\ c.op = "disconnect")
    BY <1>1
  <2>4. integrationCalls' \subseteq ProviderCall /\ \A e \in integrationCalls' : OfOne(e)
    BY <1>3, <2>2, <2>3 DEF IntegrationTypes
  <2>5. away' # None => \A e \in integrationCalls' : e.op = "abandoned"
    BY <1>1, <1>3, <2>3 DEF IntegrationTypes
  <2>. QED BY <1>4, <2>1, <2>4, <2>5 DEF IntegrationTypes
<1>6. ASSUME away = None, NEW p \in Provider \ integrationUnsure' PROVE Sure(p)'
  <2>1. Sure(p) /\ p \notin integrationUnsure
    BY <1>1, <1>6 DEF AllSure
  <2>2. CASE p # q
    <3>1. c.seen = {} /\ connected'[p] = connected[p]
      BY <1>1, <1>4, <2>2 DEF IntegrationTypes, OfOne
    <3>2. \A e \in integrationCalls' :
            e \in integrationCalls \ {c} \/ (e.op = "disconnect" /\ p \notin e.waits \cup e.seen)
      BY <1>1, <1>3, <2>2
    <3>3. Read(p)' /\ Alone(p)' /\ NotAbandoned(p)'
      BY <2>1, <3>1, <3>2 DEF Sure, Read, Alone, NotAbandoned
    <3>4. Coming(p) => Coming(p)'
      BY <1>1, <3>1 DEF Coming
    <3>. QED BY <1>1, <2>1, <3>1, <3>3, <3>4 DEF Sure
  <2>3. CASE p = q
    <3>1. c.op = "disconnect" /\ ~(Cardinality(connected[q]) > 1)
      BY <1>1, <1>6, <2>1, <2>3 DEF Sure, NotAbandoned
    <3>2. connected'[q] = {}
      BY <1>4, <3>1, NoneLeft DEF IntegrationTypes
    <3>3. \A e \in integrationCalls \ {c} :
            ~(e.op = "status" \/ (e.op = "disconnect" /\ p \in e.waits \cup e.seen))
      BY <1>1, <2>1, <2>3, <3>1 DEF Sure, Alone
    <3>. QED BY <1>1, <1>3, <2>1, <2>3, <3>1, <3>2, <3>3
             DEF Sure, Read, Alone, NotAbandoned, Coming
  <2>. QED BY <2>2, <2>3
<1>. QED BY <1>1, <1>5, <1>6 DEF AllSure

\* A call is answered, or is not.
LEMMA Ending ==
  ASSUME IntegrationTypes, AllSure, NEW c \in integrationCalls,
         IG!StatusDone(c) \/ IG!DisconnectDone(c) \/ IG!CallFails(c)
  PROVE  IntegrationTypes' /\ AllSure'
<1>. DEFINE d == [c EXCEPT !.op = "abandoned"]
<1>1. /\ UNCHANGED <<connected, away>> /\ integrationUnsure \subseteq integrationUnsure'
      /\ \/ integrationCalls' = integrationCalls \ {c}
         \/ /\ integrationCalls' = (integrationCalls \ {c}) \cup {d}
            /\ c.op = "disconnect" /\ c.waits # {}
            /\ integrationUnsure' = integrationUnsure \cup c.waits
  BY DEF IG!StatusDone, IG!DisconnectDone, IG!CallFails
<1>0. c \in ProviderCall /\ OfOne(c)
  BY DEF IntegrationTypes
<1>4. d \in ProviderCall /\ d.op = "abandoned" /\ d.waits = c.waits /\ d.seen = c.seen
  BY <1>0 DEF ProviderCall
<1>. HIDE DEF d
<1>2. IntegrationTypes'
  BY <1>0, <1>1, <1>4 DEF IntegrationTypes, OfOne
<1>3. ASSUME away = None, NEW p \in Provider \ integrationUnsure' PROVE Sure(p)'
  <2>1. Sure(p)
    BY <1>1, <1>3 DEF AllSure
  <2>2. Read(p)' /\ Alone(p)' /\ NotAbandoned(p)'
    BY <1>1, <1>3, <1>4, <2>1 DEF Sure, Read, Alone, NotAbandoned
  <2>3. CASE IG!StatusDone(c)
    <3>1. p \in profile' <=> connected'[p] # {}
      BY <1>1, <2>1, <2>3 DEF IG!StatusDone, Sure, Read
    <3>. QED BY <2>2, <3>1 DEF Sure
  <2>4. CASE IG!DisconnectDone(c)
    <3>1. c.op = "disconnect" /\ c.waits = {} /\ profile' = profile \ c.seen
      BY <2>4 DEF IG!DisconnectDone
    <3>2. CASE p \in c.seen
      BY <1>1, <2>1, <2>2, <3>1, <3>2 DEF Sure, Alone
    <3>3. CASE p \notin c.seen
      BY <1>1, <2>1, <2>2, <3>1, <3>3 DEF Sure, Coming
    <3>. QED BY <3>2, <3>3
  <2>5. CASE IG!CallFails(c)
    <3>1. /\ c.op \in {"connect", "disconnect"} /\ UNCHANGED profile
          /\ c.waits = {} => integrationUnsure' = integrationUnsure \cup c.seen
      BY <2>5 DEF IG!CallFails
    <3>2. p \notin c.seen
      BY <1>3, <3>1 DEF IntegrationTypes, OfOne
    <3>. QED BY <1>1, <1>4, <2>1, <2>2, <3>1, <3>2 DEF Sure, Coming
  <2>. QED BY <2>3, <2>4, <2>5
<1>. QED BY <1>1, <1>2, <1>3 DEF AllSure

\* The page is left for the consent page of q.
LEMMA Leaving ==
  ASSUME IntegrationTypes, AllSure, NEW c \in integrationCalls, NEW q \in Provider,
         IG!Leave(c, q)
  PROVE  IntegrationTypes' /\ AllSure'
<1>1. /\ away' = q /\ UNCHANGED <<connected, profile, integrationUnsure>>
      /\ integrationCalls' = {[d EXCEPT !.op = "abandoned"] :
            d \in {e \in integrationCalls :
                    e.op \in {"disconnect", "abandoned"} /\ e.waits # {}}}
  BY DEF IG!Leave
<1>2. q # None
  BY PagesAssumption DEF IG!IntegrationsAssumption
<1>3. ASSUME NEW d \in integrationCalls, d.op \in {"disconnect", "abandoned"}, d.waits # {}
      PROVE  LET e == [d EXCEPT !.op = "abandoned"]
             IN e \in ProviderCall /\ e.op = "abandoned" /\ OfOne(e)
  <2>1. d \in ProviderCall /\ OfOne(d)
    BY DEF IntegrationTypes
  <2>2. LET e == [d EXCEPT !.op = "abandoned"]
        IN e \in ProviderCall /\ e.op = "abandoned" /\ e.waits = d.waits /\ e.seen = d.seen
    BY <2>1 DEF ProviderCall
  <2>. QED BY <1>3, <2>1, <2>2 DEF OfOne
<1>4. IntegrationTypes'
  BY <1>1, <1>3 DEF IntegrationTypes
<1>. QED BY <1>1, <1>2, <1>4 DEF AllSure

\* The page is opened afresh, with calls about whose outcome nobody is told.
LEMMA Mounting ==
  ASSUME IntegrationTypes, IG!Mount, connected' \in [Provider -> SUBSET Account],
         \A p \in Provider : IsFiniteSet(connected'[p])
  PROVE  IntegrationTypes' /\ AllSure'
<1>1. /\ away # None /\ away' = None
      /\ integrationCalls' = integrationCalls \cup {IG!Status}
      /\ integrationUnsure' = UNION {c.waits : c \in integrationCalls}
  BY DEF IG!Mount
<1>2. IG!Status \in ProviderCall /\ IG!Status.op = "status" /\ IG!Status.waits = Provider
      /\ IG!Status.seen = {}
  BY DEF IG!Status, ProviderCall
<1>3. IntegrationTypes'
  BY <1>1, <1>2 DEF IntegrationTypes, OfOne
<1>4. ASSUME NEW p \in Provider \ integrationUnsure' PROVE Sure(p)'
  <2>1. \A c \in integrationCalls : c.op = "abandoned" /\ p \notin c.waits
    BY <1>1, <1>4 DEF IntegrationTypes
  <2>. QED BY <1>1, <1>2, <2>1 DEF Sure, Read, Alone, NotAbandoned, Coming
<1>. QED BY <1>3, <1>4 DEF AllSure

LEMMA NextIntegrations == IntegrationInv /\ [Next]_vars => IntegrationInv'
<1>. SUFFICES ASSUME IntegrationTypes, AllSure, [Next]_vars, which = "integrations"
              PROVE  IntegrationTypes' /\ AllSure'
  BY PageStep DEF IntegrationInv
<1>1. CASE UNCHANGED ig
  BY <1>1 DEF ig, IntegrationTypes, AllSure, Sure, Read, Alone, NotAbandoned, Coming
<1>2. CASE IG!loadIntegrationStatus
  <2>1. IG!Status \in ProviderCall
    BY DEF IG!Status, ProviderCall
  <2>. QED BY <1>2, <2>1, Sending DEF IG!loadIntegrationStatus
<1>3. ASSUME NEW q \in Provider, IG!connect(q) \/ IG!disconnect(q)
      PROVE  IntegrationTypes' /\ AllSure'
  <2>1. \A op \in {"connect", "disconnect"} :
          IG!Call(op, q) \in ProviderCall /\ IG!Call(op, q).op = op
    BY DEF IG!Call, ProviderCall
  <2>. QED BY <1>3, <2>1, Sending DEF IG!connect, IG!disconnect
<1>4. ASSUME NEW q \in Provider, NEW a \in Account, IG!Consent(q, a)
      PROVE  IntegrationTypes' /\ AllSure'
  <2>1. connected' \in [Provider -> SUBSET Account]
    BY <1>4 DEF IG!Consent, IntegrationTypes
  <2>2. ASSUME NEW p \in Provider PROVE IsFiniteSet(connected'[p])
    <3>1. connected'[p] = connected[p] \/ connected'[p] = connected[p] \cup {a}
      BY <1>4 DEF IG!Consent, IntegrationTypes
    <3>. QED BY <3>1, FS_AddElement DEF IntegrationTypes
  <2>. QED BY <1>4, <2>1, <2>2, Mounting DEF IG!Consent
<1>5. CASE IG!Decline
  BY <1>5, Mounting DEF IG!Decline, IntegrationTypes
<1>. QED BY <1>1, <1>2, <1>3, <1>4, <1>5, Reading, Disconnecting, Ending, Leaving, PageStep
         DEF IG!Next

----------------------------------------------------------------------------
(* Tables of the administration. *)

\* Some rows with their status.
Rows == UNION {[S -> AT!Status] : S \in SUBSET Row}

TableCall ==
  [op : {"load", "set", "change", "delete"}, pc : {"sent", "served", "late"}, row : Row \cup {0},
   value : AT!Status, search : SUBSET Row, list : Rows]

TableTypes ==
  /\ table \in Rows /\ tableItems \in Rows /\ tableCalls \subseteq TableCall
  /\ tableSearch \in SUBSET Row
  /\ tableUnsure \in BOOLEAN
  /\ \A c \in tableCalls : tablePage \in AT!Searched => c.op = "load"

\* Rows are as the server has them, but for those changed in between.
AsServed(list) ==
  \A r \in DOMAIN list \ outdated : r \in DOMAIN table /\ list[r] = table[r]

\* They are those the search finds, on a page that asks the server to search.
AsFound(list) ==
  tablePage \in AT!Searched =>
    DOMAIN list \ outdated = (DOMAIN table \cap tableSearch) \ outdated

\* What the answer to c will leave shown.
Answer(c) ==
  IF c.op = "load" THEN c.list
  ELSE IF c.op = "delete" THEN AT!Only(tableItems, Row \ {c.row})
  ELSE [r \in DOMAIN tableItems |-> IF r = c.row THEN c.value ELSE tableItems[r]]

\* The one call in flight will leave what is so, and until the server has changed
\* a row what is shown is so.
OnTheWay(c) ==
  /\ c.op = "load" /\ c.pc = "sent" /\ tablePage \in AT!Searched => c.search = tableSearch
  /\ c.op # "load" /\ c.pc = "sent" => AsServed(tableItems)
  /\ c.op # "change" /\ c.pc = "served" => AsServed(Answer(c)) /\ AsFound(Answer(c))

Settled ==
  ~tableUnsure =>
    \/ AT!Awaited = {} /\ AsServed(tableItems) /\ AsFound(tableItems)
    \/ \E c \in tableCalls : AT!Awaited = {c} /\ OnTheWay(c)

TableInv == which = "admin-tables" => TableTypes /\ Settled

\* Tables are tables of some rows.
LEMMA RowsOf == \A f : f \in Rows <=> f \in [DOMAIN f -> AT!Status] /\ DOMAIN f \subseteq Row
BY DEF Rows

LEMMA SomeRows ==
  ASSUME NEW f \in Rows, NEW S
  PROVE  /\ AT!Only(f, S) \in Rows /\ DOMAIN AT!Only(f, S) = DOMAIN f \cap S
         /\ \A r \in DOMAIN f \cap S : AT!Only(f, S)[r] = f[r]
<1>1. f \in [DOMAIN f -> AT!Status] /\ DOMAIN f \subseteq Row
  BY RowsOf
<1>2. AT!Only(f, S) \in [DOMAIN f \cap S -> AT!Status]
  BY <1>1 DEF AT!Only
<1>. QED BY <1>1, <1>2 DEF AT!Only, Rows

LEMMA NoRows == <<>> \in Rows
<1>1. <<>> \in [{} -> AT!Status]
  OBVIOUS
<1>. QED BY <1>1 DEF Rows

LEMMA LoadOf ==
  ASSUME NEW s \in SUBSET Row
  PROVE  AT!Load(s) \in TableCall /\ AT!Load(s).op = "load" /\ AT!Load(s).pc = "sent"
         /\ AT!Load(s).search = s
BY NoRows DEF AT!Load, TableCall, AT!Status

LEMMA ChangeOf ==
  ASSUME tableSearch \in SUBSET Row, NEW op \in {"set", "change", "delete"}, NEW r \in Row,
         NEW v \in AT!Status
  PROVE  AT!Change(op, r, v) \in TableCall /\ AT!Change(op, r, v).op = op
         /\ AT!Change(op, r, v).pc = "sent"
BY NoRows DEF AT!Load, AT!Change, TableCall, AT!Status

LEMMA InitTables == Init => TableInv
<1>. SUFFICES ASSUME AT!Init, which = "admin-tables" PROVE TableTypes /\ Settled
  BY PageInit DEF TableInv
<1>. USE DEF AT!Init
<1>1. table \in Rows
  BY DEF Rows, AT!Status
<1>2. AT!Load(Row) \in TableCall /\ AT!Load(Row).op = "load" /\ AT!Load(Row).pc = "sent"
      /\ AT!Load(Row).search = Row
  BY LoadOf
<1>3. TableTypes
  BY <1>1, <1>2, NoRows DEF TableTypes
<1>4. Settled
  BY <1>2 DEF Settled, OnTheWay, AT!Awaited
<1>. QED BY <1>3, <1>4

\* A call is sent: a change of a row on a page that searches nothing, or a load
\* of what is searched for.
LEMMA TableAsks ==
  ASSUME TableTypes, Settled, NEW c \in TableCall, AT!Send(c), c.pc = "sent",
         tableSearch' \in SUBSET Row,
         \/ c.op = "load" /\ (tablePage \in AT!Searched => c.search = tableSearch')
         \/ c.op # "load" /\ tablePage \notin AT!Searched /\ UNCHANGED tableSearch
  PROVE  TableTypes' /\ Settled'
<1>1. /\ tableCalls' = tableCalls \cup {c} /\ UNCHANGED <<tablePage, table, tableItems, outdated>>
      /\ tableUnsure' = IF AT!Awaited = {} THEN tableUnsure /\ c.op # "load" ELSE TRUE
      /\ AT!Awaited' = AT!Awaited \cup {c}
  BY DEF AT!Send, AT!Awaited
<1>2. TableTypes'
  BY <1>1 DEF TableTypes, AT!Searched
<1>3. ASSUME ~tableUnsure' PROVE OnTheWay(c)' /\ AT!Awaited' = {c}
  <2>1. AT!Awaited = {} /\ (c.op = "load" \/ ~tableUnsure)
    BY <1>1, <1>3
  <2>2. c.op # "load" => AsServed(tableItems)
    BY <2>1 DEF Settled
  <2>. QED BY <1>1, <2>1, <2>2 DEF OnTheWay, AsServed
<1>. QED BY <1>1, <1>2, <1>3 DEF Settled

\* The server answers.
LEMMA TableServes ==
  ASSUME TableTypes, Settled, NEW c \in tableCalls, AT!Serve(c)
  PROVE  TableTypes' /\ Settled'
<1>. DEFINE d(list) == [c EXCEPT !.pc = "served", !.list = list]
<1>1. c \in TableCall /\ c.pc = "sent"
      /\ UNCHANGED <<tablePage, tableItems, tableSearch, tableUnsure>>
  BY DEF AT!Serve, TableTypes
<1>2. ASSUME NEW list \in Rows
      PROVE  /\ d(list) \in TableCall /\ d(list).pc = "served" /\ d(list).list = list
             /\ d(list).op = c.op /\ d(list).row = c.row /\ d(list).value = c.value
  BY <1>1, <1>2 DEF TableCall
<1>. HIDE DEF d
<1>0. ASSUME NEW list \in Rows, tableCalls' = (tableCalls \ {c}) \cup {d(list)}
      PROVE  AT!Awaited' = (AT!Awaited \ {c}) \cup {d(list)}
  BY <1>0, <1>2 DEF AT!Awaited
<1>3. CASE c.op = "load"
  <2>0. AT!Only(table, c.search) \in Rows
    BY SomeRows DEF TableTypes
  <2>. PICK list \in Rows : list = AT!Only(table, c.search)
    BY <2>0
  <2>1. tableCalls' = (tableCalls \ {c}) \cup {d(list)} /\ outdated' = {} /\ UNCHANGED table
    BY <1>3 DEF AT!Serve, d
  <2>2. DOMAIN list = DOMAIN table \cap c.search
        /\ \A r \in DOMAIN list : list[r] = table[r]
    BY DEF AT!Only
  <2>3. d(list) \in TableCall /\ d(list).pc = "served" /\ d(list).list = list
        /\ d(list).op = "load"
    BY <1>2, <1>3, <2>2
  <2>4. TableTypes'
    BY <1>1, <2>1, <2>3 DEF TableTypes, AT!Searched
  <2>5. ASSUME ~tableUnsure PROVE AT!Awaited' = {d(list)} /\ OnTheWay(d(list))'
    <3>1. AT!Awaited = {c} /\ OnTheWay(c)
      BY <1>1, <2>5 DEF Settled, AT!Awaited
    <3>2. tablePage \in AT!Searched => c.search = tableSearch
      BY <1>1, <1>3, <3>1 DEF OnTheWay
    <3>3. AsServed(list)' /\ AsFound(list)'
      BY <1>1, <2>1, <2>2, <3>2 DEF AsServed, AsFound, AT!Searched
    <3>. QED BY <1>0, <2>1, <2>3, <3>1, <3>3 DEF OnTheWay, Answer
  <2>. QED BY <1>1, <2>1, <2>4, <2>5 DEF Settled
<1>4. CASE c.op # "load"
  <2>1. /\ tableCalls' = (tableCalls \ {c}) \cup {d(<<>>)}
        /\ outdated' = outdated \ {c.row} /\ c.row \in DOMAIN table
        /\ \/ c.op \in {"set", "change"} /\ table' = [table EXCEPT ![c.row] = c.value]
           \/ c.op = "delete" /\ table' = AT!Only(table, Row \ {c.row})
    BY <1>4 DEF AT!Serve, d
  <2>2. /\ d(<<>>) \in TableCall /\ d(<<>>).pc = "served" /\ d(<<>>).op = c.op
        /\ d(<<>>).row = c.row /\ d(<<>>).value = c.value
    BY <1>2, NoRows
  <2>3. table \in [DOMAIN table -> AT!Status] /\ DOMAIN table \subseteq Row
        /\ c.value \in AT!Status
    BY <1>1, RowsOf DEF TableTypes, TableCall
  <2>4. table' \in Rows
    <3>1. CASE table' = [table EXCEPT ![c.row] = c.value]
      <4>1. table' \in [DOMAIN table -> AT!Status]
        BY <2>3, <3>1
      <4>. QED BY <2>3, <4>1 DEF Rows
    <3>2. CASE table' = AT!Only(table, Row \ {c.row})
      BY <3>2, SomeRows DEF TableTypes
    <3>. QED BY <2>1, <3>1, <3>2
  <2>5. TableTypes'
    BY <1>1, <2>1, <2>2, <2>4 DEF TableTypes, AT!Searched
  <2>6. \A r \in DOMAIN table : r # c.row => r \in DOMAIN table' /\ table'[r] = table[r]
    <3>1. CASE table' = [table EXCEPT ![c.row] = c.value]
      BY <2>3, <3>1
    <3>2. CASE table' = AT!Only(table, Row \ {c.row})
      BY <2>3, <3>2 DEF AT!Only
    <3>. QED BY <2>1, <3>1, <3>2
  <2>7. ASSUME ~tableUnsure PROVE AT!Awaited' = {d(<<>>)} /\ OnTheWay(d(<<>>))'
    <3>1. AT!Awaited = {c} /\ AsServed(tableItems) /\ tablePage \notin AT!Searched
      BY <1>1, <1>4, <2>7 DEF Settled, OnTheWay, TableTypes, AT!Awaited
    <3>2. AT!Awaited' = {d(<<>>)}
      BY <1>0, <2>1, <3>1, NoRows
    <3>3. \A r \in DOMAIN tableItems \ outdated' : r # c.row =>
            r \in DOMAIN table' /\ tableItems[r] = table'[r]
      BY <2>1, <2>6, <3>1 DEF AsServed
    <3>4. c.op = "set" => c.row \in DOMAIN table' /\ table'[c.row] = c.value
      BY <2>1, <2>3
    <3>5. CASE c.op = "set"
      <4>1. Answer(d(<<>>))' = [r \in DOMAIN tableItems |->
                                  IF r = c.row THEN c.value ELSE tableItems[r]]
        BY <1>1, <2>2, <3>5 DEF Answer
      <4>2. AsServed(Answer(d(<<>>)))'
        BY <3>3, <3>4, <3>5, <4>1 DEF AsServed
      <4>. QED BY <1>1, <2>2, <3>1, <3>2, <3>5, <4>2 DEF OnTheWay, AsFound, AT!Searched
    <3>6. CASE c.op = "delete"
      <4>1. Answer(d(<<>>))' = AT!Only(tableItems, Row \ {c.row})
        BY <1>1, <2>2, <3>6 DEF Answer, AT!Only
      <4>2. AsServed(Answer(d(<<>>)))'
        BY <3>3, <4>1 DEF AsServed, AT!Only
      <4>. QED BY <1>1, <2>2, <3>1, <3>2, <3>6, <4>2 DEF OnTheWay, AsFound, AT!Searched
    <3>7. CASE c.op = "change"
      BY <2>2, <3>2, <3>7 DEF OnTheWay
    <3>. QED BY <2>1, <3>5, <3>6, <3>7
  <2>. QED BY <1>1, <2>1, <2>5, <2>7 DEF Settled
<1>. QED BY <1>3, <1>4

\* A row is changed for which nobody waits: it is outdated from then.
LEMMA RowChanges ==
  ASSUME TableTypes, Settled, NEW r \in DOMAIN table, outdated' = outdated \cup {r},
         \/ \E v \in AT!Status : table' = [table EXCEPT ![r] = v]
         \/ table' = AT!Only(table, Row \ {r}),
         UNCHANGED <<tablePage, tableItems, tableSearch, tableUnsure>>,
         tableCalls' \subseteq tableCalls, UNCHANGED AT!Awaited
  PROVE  TableTypes' /\ Settled'
<1>1. /\ r \in DOMAIN table /\ outdated' = outdated \cup {r}
      /\ \/ \E v \in AT!Status : table' = [table EXCEPT ![r] = v]
         \/ table' = AT!Only(table, Row \ {r})
      /\ UNCHANGED <<tablePage, tableItems, tableSearch, tableUnsure>>
      /\ tableCalls' \subseteq tableCalls /\ AT!Awaited' = AT!Awaited
      /\ AT!Awaited \subseteq tableCalls'
  BY DEF AT!Awaited
<1>2. table \in [DOMAIN table -> AT!Status] /\ DOMAIN table \subseteq Row
  BY RowsOf DEF TableTypes
<1>3. table' \in Rows
  <2>1. ASSUME NEW v \in AT!Status, table' = [table EXCEPT ![r] = v] PROVE table' \in Rows
    <3>1. table' \in [DOMAIN table -> AT!Status]
      BY <1>2, <2>1
    <3>. QED BY <1>2, <3>1 DEF Rows
  <2>2. CASE table' = AT!Only(table, Row \ {r})
    BY <2>2, SomeRows DEF TableTypes
  <2>. QED BY <1>1, <2>1, <2>2
<1>4. /\ \A q \in DOMAIN table : q # r => q \in DOMAIN table' /\ table'[q] = table[q]
      /\ DOMAIN table' \ {r} = DOMAIN table \ {r}
  <2>1. ASSUME NEW v \in AT!Status, table' = [table EXCEPT ![r] = v] PROVE <1>4
    BY <1>2, <2>1
  <2>2. CASE table' = AT!Only(table, Row \ {r})
    BY <1>2, <2>2 DEF AT!Only
  <2>. QED BY <1>1, <2>1, <2>2
<1>5. ASSUME NEW list, AsServed(list)
      PROVE  \A q \in DOMAIN list \ outdated' : q \in DOMAIN table' /\ list[q] = table'[q]
  BY <1>1, <1>4, <1>5 DEF AsServed
<1>6. ASSUME NEW list, AsFound(list)
      PROVE  tablePage \in AT!Searched =>
               DOMAIN list \ outdated' = (DOMAIN table' \cap tableSearch) \ outdated'
  BY <1>1, <1>4, <1>6 DEF AsFound
<1>7. AsServed(tableItems) => AsServed(tableItems)'
  BY <1>1, <1>5 DEF AsServed
<1>8. AsFound(tableItems) => AsFound(tableItems)'
  BY <1>1, <1>6 DEF AsFound, AT!Searched
<1>9. ASSUME NEW c \in tableCalls, OnTheWay(c) PROVE OnTheWay(c)'
  <2>1. Answer(c)' = Answer(c)
    BY <1>1 DEF Answer, AT!Only
  <2>2. AsServed(Answer(c)) => AsServed(Answer(c))'
    BY <1>5, <2>1 DEF AsServed
  <2>3. AsFound(Answer(c)) => AsFound(Answer(c))'
    BY <1>1, <1>6, <2>1 DEF AsFound, AT!Searched
  <2>. QED BY <1>1, <1>7, <1>9, <2>2, <2>3 DEF OnTheWay, AT!Searched
<1>10. TableTypes'
  BY <1>1, <1>3 DEF TableTypes, AT!Searched
<1>11. Settled'
  BY <1>1, <1>7, <1>8, <1>9 DEF Settled
<1>. QED BY <1>10, <1>11

\* Others change a row, or a call given up does, or does nothing.
LEMMA OthersKeep ==
  ASSUME TableTypes, Settled,
         (\E r \in Row : AT!OthersChange(r)) \/ \E c \in tableCalls : AT!ServeLate(c)
  PROVE  TableTypes' /\ Settled'
<1>1. ASSUME NEW r \in Row, AT!OthersChange(r) PROVE TableTypes' /\ Settled'
  BY <1>1, RowChanges DEF AT!OthersChange, AT!Awaited
<1>2. ASSUME NEW c \in tableCalls, AT!ServeLate(c) PROVE TableTypes' /\ Settled'
  <2>1. /\ tableCalls' \subseteq tableCalls /\ AT!Awaited' = AT!Awaited
        /\ AT!Awaited \subseteq tableCalls'
        /\ UNCHANGED <<tablePage, tableItems, tableSearch, tableUnsure>>
    BY <1>2 DEF AT!ServeLate, AT!Awaited
  <2>2. CASE UNCHANGED <<table, outdated>>
    <3>1. TableTypes'
      BY <2>1, <2>2 DEF TableTypes, AT!Searched
    <3>2. ASSUME NEW d \in tableCalls, OnTheWay(d) PROVE OnTheWay(d)'
      BY <2>1, <2>2, <3>2 DEF OnTheWay, Answer, AsServed, AsFound, AT!Searched, AT!Only
    <3>3. Settled'
      BY <2>1, <2>2, <3>2 DEF Settled, AsServed, AsFound, AT!Searched
    <3>. QED BY <3>1, <3>3
  <2>3. CASE ~UNCHANGED <<table, outdated>>
    <3>1. /\ c.row \in DOMAIN table /\ outdated' = outdated \cup {c.row}
          /\ table' = IF c.op = "delete" THEN AT!Only(table, Row \ {c.row})
                      ELSE [table EXCEPT ![c.row] = c.value]
      BY <1>2, <2>3 DEF AT!ServeLate
    <3>2. c.value \in AT!Status
      BY DEF TableTypes, TableCall
    <3>. QED BY <2>1, <3>1, <3>2, RowChanges
  <2>. QED BY <2>2, <2>3
<1>. QED BY <1>1, <1>2

\* A call ends: what it leaves shown is what it was to leave.
LEMMA TableEnds ==
  ASSUME TableTypes, Settled, NEW c \in tableCalls,
         AT!LoadDone(c) \/ AT!RowDone(c) \/ AT!ReloadAfter(c) \/ AT!CallFails(c)
  PROVE  TableTypes' /\ Settled'
<1>1. c \in TableCall /\ UNCHANGED <<tablePage, table, tableSearch, outdated>>
  BY DEF AT!LoadDone, AT!RowDone, AT!ReloadAfter, AT!CallFails, TableTypes
<1>2. CASE AT!LoadDone(c) \/ AT!RowDone(c)
  <2>1. /\ c.pc = "served" /\ c.op # "change" /\ UNCHANGED tableUnsure
        /\ tableCalls' = tableCalls \ {c} /\ tableItems' = Answer(c)
        /\ AT!Awaited' = AT!Awaited \ {c}
    BY <1>2 DEF AT!LoadDone, AT!RowDone, Answer, AT!Awaited
  <2>2. tableItems' \in Rows
    <3>1. CASE c.op = "load"
      BY <1>1, <2>1, <3>1 DEF Answer, TableCall
    <3>2. CASE c.op = "delete"
      BY <2>1, <3>2, SomeRows DEF Answer, TableTypes
    <3>3. CASE c.op = "set"
      <4>1. /\ tableItems \in [DOMAIN tableItems -> AT!Status] /\ DOMAIN tableItems \subseteq Row
            /\ c.value \in AT!Status
        BY <1>1, RowsOf DEF TableTypes, TableCall
      <4>2. tableItems' \in [DOMAIN tableItems -> AT!Status]
        BY <2>1, <3>3, <4>1 DEF Answer
      <4>. QED BY <4>1, <4>2 DEF Rows
    <3>. QED BY <1>1, <2>1, <3>1, <3>2, <3>3 DEF TableCall
  <2>3. TableTypes'
    BY <1>1, <2>1, <2>2 DEF TableTypes, AT!Searched
  <2>4. ASSUME ~tableUnsure
        PROVE  AT!Awaited' = {} /\ AsServed(tableItems)' /\ AsFound(tableItems)'
    <3>1. AT!Awaited = {c} /\ OnTheWay(c)
      BY <2>1, <2>4 DEF Settled, AT!Awaited
    <3>2. AsServed(Answer(c)) /\ AsFound(Answer(c))
      BY <2>1, <3>1 DEF OnTheWay
    <3>3. AsServed(tableItems)'
      BY <1>1, <2>1, <3>2 DEF AsServed
    <3>4. AsFound(tableItems)'
      BY <1>1, <2>1, <3>2 DEF AsFound, AT!Searched
    <3>. QED BY <2>1, <3>1, <3>3, <3>4
  <2>. QED BY <2>1, <2>3, <2>4 DEF Settled
<1>3. CASE AT!ReloadAfter(c)
  <2>. DEFINE l == AT!Load(tableSearch)
  <2>1. /\ tableCalls' = (tableCalls \ {c}) \cup {l} /\ UNCHANGED tableItems
        /\ tableUnsure' = (tableUnsure /\ AT!Awaited # {c}) /\ c.pc = "served"
    BY <1>3 DEF AT!ReloadAfter
  <2>2. l \in TableCall /\ l.op = "load" /\ l.pc = "sent" /\ l.search = tableSearch
    BY LoadOf DEF TableTypes
  <2>. HIDE DEF l
  <2>3. TableTypes'
    BY <1>1, <2>1, <2>2 DEF TableTypes, AT!Searched
  <2>4. ASSUME ~tableUnsure' PROVE \E e \in tableCalls' : AT!Awaited' = {e} /\ OnTheWay(e)'
    <3>1. AT!Awaited = {c}
      <4>1. c \in AT!Awaited
        BY <2>1 DEF AT!Awaited
      <4>2. CASE ~tableUnsure
        BY <4>1, <4>2 DEF Settled
      <4>. QED BY <2>1, <2>4, <4>2
    <3>2. PICK e : e = l
      OBVIOUS
    <3>3. AT!Awaited' = {e} /\ e \in tableCalls'
      BY <2>1, <2>2, <3>1, <3>2 DEF AT!Awaited
    <3>4. OnTheWay(e)'
      BY <1>1, <2>1, <2>2, <3>2 DEF OnTheWay
    <3>. QED BY <3>3, <3>4
  <2>. QED BY <2>3, <2>4 DEF Settled
<1>4. CASE AT!CallFails(c)
  <2>1. /\ \/ tableCalls' = tableCalls \ {c}
           \/ /\ c.op # "load"
              /\ tableCalls' = (tableCalls \ {c}) \cup {[c EXCEPT !.pc = "late"]}
        /\ UNCHANGED tableItems /\ tableUnsure' = TRUE
    BY <1>4 DEF AT!CallFails
  <2>2. [c EXCEPT !.pc = "late"] \in TableCall /\ [c EXCEPT !.pc = "late"].op = c.op
    BY <1>1 DEF TableCall
  <2>3. TableTypes'
    BY <1>1, <2>1, <2>2 DEF TableTypes, AT!Searched
  <2>. QED BY <2>1, <2>3 DEF Settled
<1>. QED BY <1>2, <1>3, <1>4

LEMMA NextTables == TableInv /\ [Next]_vars => TableInv'
<1>. SUFFICES ASSUME TableTypes, Settled, [Next]_vars, which = "admin-tables"
              PROVE  TableTypes' /\ Settled'
  BY PageStep DEF TableInv
<1>1. CASE UNCHANGED at
  <2>1. UNCHANGED <<tablePage, table, tableItems, tableSearch, tableCalls, outdated, tableUnsure>>
    BY <1>1 DEF at
  <2>2. TableTypes'
    BY <2>1 DEF TableTypes, AT!Searched
  <2>3. AT!Awaited' = AT!Awaited
    BY <2>1 DEF AT!Awaited
  <2>4. ASSUME NEW d \in tableCalls, OnTheWay(d) PROVE OnTheWay(d)'
    BY <2>1, <2>4 DEF OnTheWay, Answer, AsServed, AsFound, AT!Searched, AT!Only
  <2>5. Settled'
    BY <2>1, <2>3, <2>4 DEF Settled, AsServed, AsFound, AT!Searched
  <2>. QED BY <2>2, <2>5
<1>2. ASSUME NEW r \in Row, NEW v \in AT!Status,
             \/ AT!subscriptionAction(r, v) \/ AT!commissionAction(r, v)
             \/ AT!revoke(r) \/ AT!deleteWorkflow(r)
      PROVE  TableTypes' /\ Settled'
  <2>1. \E op \in {"set", "change", "delete"}, w \in AT!Status :
          AT!Send(AT!Change(op, r, w)) /\ UNCHANGED tableSearch /\ tablePage \notin AT!Searched
    BY <1>2 DEF AT!subscriptionAction, AT!commissionAction, AT!revoke, AT!deleteWorkflow,
                AT!Searched, AT!Status
  <2>2. PICK op \in {"set", "change", "delete"}, w \in AT!Status :
          AT!Send(AT!Change(op, r, w)) /\ UNCHANGED tableSearch /\ tablePage \notin AT!Searched
    BY <2>1
  <2>3. PICK c : c = AT!Change(op, r, w)
    OBVIOUS
  <2>4. c \in TableCall /\ c.op # "load" /\ c.pc = "sent"
    BY <2>3, ChangeOf DEF TableTypes
  <2>5. AT!Send(c)
    <3>1. /\ Cardinality(tableCalls) < MaxFlight /\ c \notin tableCalls
          /\ tableCalls' = tableCalls \cup {c}
          /\ tableUnsure' = IF AT!Awaited = {} THEN tableUnsure /\ c.op # "load" ELSE TRUE
          /\ UNCHANGED <<tablePage, table, tableItems, others, outdated>>
      BY <2>2, <2>3 DEF AT!Send, AT!Cardinality, Cardinality
    <3>. QED BY <3>1 DEF AT!Send, AT!Cardinality, Cardinality
  <2>6. tableSearch' \in SUBSET Row
    BY <2>2 DEF TableTypes
  <2>. QED BY <2>2, <2>4, <2>5, <2>6, TableAsks
<1>3. ASSUME NEW s \in SUBSET Row, AT!Send(AT!Load(s)),
             \/ tableSearch' = s
             \/ UNCHANGED tableSearch /\ tablePage \notin AT!Searched
      PROVE  TableTypes' /\ Settled'
  <2>1. PICK c : c = AT!Load(s)
    OBVIOUS
  <2>2. c \in TableCall /\ c.op = "load" /\ c.pc = "sent" /\ c.search = s
    BY <2>1, LoadOf
  <2>3. AT!Send(c)
    BY <1>3, <2>1
  <2>4. tableSearch' \in SUBSET Row
    BY <1>3 DEF TableTypes
  <2>. QED BY <1>3, <2>2, <2>3, <2>4, TableAsks
<1>4. ASSUME NEW s \in {Row, Found},
             \/ AT!searchDeadLetters(s) \/ AT!searchFailedWorkflows(s)
             \/ AT!filterWorkflowRuns(s)
      PROVE  TableTypes' /\ Settled'
  <2>1. s \in SUBSET Row
    BY PagesAssumption DEF AT!AdminTablesAssumption
  <2>2. AT!Send(AT!Load(s)) /\ tableSearch' = s
    BY <1>4 DEF AT!searchDeadLetters, AT!searchFailedWorkflows, AT!filterWorkflowRuns,
                AT!searchNow
  <2>. QED BY <1>3, <2>1, <2>2
<1>5. ASSUME NEW s \in {Row, Found}, AT!typeAuditSearch(s) PROVE TableTypes' /\ Settled'
  <2>1. s \in SUBSET Row
    BY PagesAssumption DEF AT!AdminTablesAssumption
  <2>2. /\ tablePage \notin AT!Searched /\ tableSearch' = s
        /\ UNCHANGED <<tablePage, table, tableItems, tableCalls, outdated, tableUnsure>>
    BY <1>5 DEF AT!typeAuditSearch, AT!Searched
  <2>3. TableTypes'
    BY <2>1, <2>2 DEF TableTypes, AT!Searched
  <2>4. ASSUME NEW list
        PROVE  (AsServed(list) <=> \A r \in DOMAIN list \ outdated' :
                                     r \in DOMAIN table' /\ list[r] = table'[r])
    BY <2>2 DEF AsServed
  <2>5. ASSUME NEW c \in tableCalls PROVE Answer(c)' = Answer(c)
    BY <2>2 DEF Answer, AT!Only
  <2>6. AsServed(tableItems) => AsServed(tableItems)' /\ AsFound(tableItems)'
    BY <2>2 DEF AsServed, AsFound, AT!Searched
  <2>7. ASSUME NEW c \in tableCalls, AsServed(Answer(c))
        PROVE  AsServed(Answer(c))' /\ AsFound(Answer(c))'
    BY <2>2, <2>4, <2>5, <2>7 DEF AsServed, AsFound, AT!Searched
  <2>8. ASSUME NEW c \in tableCalls, OnTheWay(c) PROVE OnTheWay(c)'
    BY <2>2, <2>6, <2>7, <2>8 DEF OnTheWay, AT!Searched
  <2>9. Settled'
    BY <2>2, <2>6, <2>8 DEF Settled, AT!Awaited
  <2>. QED BY <2>3, <2>9
<1>6. CASE AT!loadLogs
  <2>1. tableSearch \in SUBSET Row /\ tablePage \notin AT!Searched
    BY <1>6 DEF TableTypes, AT!loadLogs, AT!Searched
  <2>2. PICK s : s = tableSearch
    OBVIOUS
  <2>3. AT!Send(AT!Load(s)) /\ UNCHANGED tableSearch
    BY <1>6, <2>2 DEF AT!loadLogs
  <2>. QED BY <1>3, <2>1, <2>2, <2>3
<1>. QED BY <1>1, <1>2, <1>4, <1>5, <1>6, OthersKeep, TableServes, TableEnds, PageStep
         DEF AT!Next, AT!Status

----------------------------------------------------------------------------
\* A page shows what the server has, for every number of providers, accounts,
\* rows, keys and calls in flight, in whatever order their answers come: a
\* provider as connected, a new secret until it was seen, the rows of a table,
\* unless one of the causes that the pages' properties name came in between.
THEOREM ServersShown == Spec => []ShownIsServers
<1>1. IntegrationInv => (which = "integrations" => IG!ShownAsConnected)
  BY DEF IntegrationInv, AllSure, Sure, Coming, IG!ShownAsConnected
<1>2. KeyInv => (which = "api-keys" => AK!NothingShownAmiss)
  BY DEF KeyInv, SecretsTold, OneRequest, AK!NothingShownAmiss
<1>3. TableInv => (which = "admin-tables" => AT!TableCurrent)
  BY DEF TableInv, TableTypes, Settled, AsServed, AsFound, AT!TableCurrent
<1>4. IntegrationInv /\ KeyInv /\ TableInv => ShownIsServers
  BY <1>1, <1>2, <1>3 DEF ShownIsServers
<1>. QED BY <1>4, InitIntegrations, NextIntegrations, InitKeys, NextKeys, InitTables,
            NextTables, PTL DEF Spec

----------------------------------------------------------------------------
(* The action list. *)

AnyType == Type \cup {"ADD_AUDIT_LOG"}

\* A draft has these fields.
Drafted(d) ==
  /\ DOMAIN d = {"type", "config", "trueBranch", "falseBranch", "opened"}
  /\ d.type \in AnyType

\* A list of drafts.
DraftList(ds) == \E S : ds \in Seq(S) /\ \A d \in S : Drafted(d)

\* The form shows what a draft has, in whichever spelling.
Shows(value, config) ==
  \A k \in AL!Field :
    /\ k \in DOMAIN config => value[k] = config[k]
    /\ k = "message" /\ k \notin DOMAIN config /\ "text" \in DOMAIN config
         => value[k] = config["text"]

\* While no action was moved, the one being edited is the one that was opened;
\* while the form was not touched either, it shows that action.
Edited ==
  /\ editing \in 0 .. Len(drafts)
  /\ editing # 0 /\ ~moved =>
       /\ drafts[editing].opened = TRUE
       /\ ~touched => /\ form.type = drafts[editing].type
                      /\ Shows(form.value, drafts[editing].config)

ActionsGood == DraftList(drafts) /\ form.type \in AnyType /\ Edited

ActionsInv == which = "actions" => ActionsGood

\* What a list of drafts has.
LEMMA ListFacts ==
  ASSUME NEW ds, DraftList(ds)
  PROVE  /\ Len(ds) \in Nat
         /\ DOMAIN ds = 1 .. Len(ds)
         /\ \A i \in DOMAIN ds : Drafted(ds[i])
         /\ ds # <<>> => DOMAIN ds # {}
<1>1. PICK S : ds \in Seq(S) /\ \A d \in S : Drafted(d)
  BY DEF DraftList
<1>2. ds # <<>> => Len(ds) \in Nat \ {0}
  BY <1>1, EmptySeq
<1>3. Len(ds) \in Nat /\ ds \in [1 .. Len(ds) -> S] /\ DOMAIN ds = 1 .. Len(ds)
  BY <1>1, LenProperties
<1>4. \A i \in DOMAIN ds : ds[i] \in S
  BY <1>3
<1>5. ASSUME ds # <<>> PROVE 1 \in DOMAIN ds
  BY <1>2, <1>3, <1>5
<1>. QED BY <1>1, <1>3, <1>4, <1>5

\* A function on 1 .. n whose values are drafts is a list of drafts.
LEMMA ListOf ==
  ASSUME NEW n \in Nat, NEW ds, ds = [i \in 1 .. n |-> ds[i]],
         \A i \in 1 .. n : Drafted(ds[i])
  PROVE  DraftList(ds) /\ Len(ds) = n
<1>. DEFINE S == {ds[i] : i \in 1 .. n}
<1>1. ds \in [1 .. n -> S]
  OBVIOUS
<1>2. ds \in Seq(S) /\ Len(ds) = n
  <2>. HIDE DEF S
  <2>. QED BY <1>1
<1>3. \A d \in S : Drafted(d)
  OBVIOUS
<1>. HIDE DEF S
<1>. QED BY <1>2, <1>3 DEF DraftList

LEMMA NoDrafts == ASSUME NEW ds, ds = <<>> PROVE DraftList(ds)
<1>1. ds \in Seq({}) /\ \A d \in {} : Drafted(d)
  BY EmptySeq
<1>. QED BY <1>1 DEF DraftList

LEMMA Blank == AL!blankForm.type \in AnyType
BY DEF AL!blankForm, AnyType

LEMMA InitActions == Init => ActionsInv
<1>. SUFFICES ASSUME Init, which = "actions" PROVE ActionsGood
  BY DEF ActionsInv
<1>1. AL!Init
  BY PageInit
<1>2. DraftList(drafts)
  BY <1>1, NoDrafts DEF AL!Init
<1>3. Len(drafts) = 0
  BY <1>1, EmptySeq DEF AL!Init
<1>. QED BY <1>1, <1>2, <1>3, Blank DEF ActionsGood, Edited, AL!Init

\* Without an edit only the list and the form's type are to be kept.
LEMMA NoEdit ==
  ASSUME editing' = 0, DraftList(drafts)', form'.type \in AnyType
  PROVE  ActionsGood'
<1>1. Len(drafts') \in Nat
  BY ListFacts
<1>. QED BY <1>1 DEF ActionsGood, Edited

\* What a form shows of a draft that it was filled with.
LEMMA Filled ==
  ASSUME NEW d, Drafted(d), NEW other
  PROVE  /\ AL!FormOf(d, other).type = d.type
         /\ Shows(AL!FormOf(d, other).value, d.config)
BY DEF AL!FormOf, Shows

\* The form is changed.
LEMMA FormKeeps ==
  ASSUME ActionsGood,
         \/ \E type \in Type : AL!ChooseType(type)
         \/ \E k \in AL!Field, v \in {"set", "blank"} : AL!TypeField(k, v)
  PROVE  ActionsGood'
<1>1. UNCHANGED <<drafts, editing, moved>> /\ touched' = TRUE
  BY DEF AL!ChooseType, AL!TypeField
<1>2. form'.type \in AnyType
  <2>1. CASE \E type \in Type : AL!ChooseType(type)
    <3>1. PICK type \in Type : AL!ChooseType(type)
      BY <2>1
    <3>2. form' = [form EXCEPT !.type = type]
      BY <3>1 DEF AL!ChooseType
    <3>. QED BY <3>2 DEF ActionsGood, AnyType
  <2>2. CASE \E k \in AL!Field, v \in {"set", "blank"} : AL!TypeField(k, v)
    <3>1. PICK k \in AL!Field, v \in {"set", "blank"} : AL!TypeField(k, v)
      BY <2>2
    <3>2. form' = [form EXCEPT !.value[k] = v]
      BY <3>1 DEF AL!TypeField
    <3>. QED BY <3>2 DEF ActionsGood
  <2>. QED BY <2>1, <2>2
<1>. QED BY <1>1, <1>2 DEF ActionsGood, Edited

\* Edits end, or the list is replaced.
LEMMA EndsKeep ==
  ASSUME ActionsGood,
         \/ AL!updateCurrentActionDraft \/ AL!cancelActionEdit \/ AL!clearActionDrafts
         \/ AL!handleSubmit
  PROVE  ActionsGood'
<1>. USE DEF ActionsGood
<1>1. editing' = 0
  BY DEF AL!updateCurrentActionDraft, AL!cancelActionEdit, AL!clearActionDrafts,
         AL!handleSubmit
<1>2. form'.type \in AnyType
  BY Blank DEF AL!updateCurrentActionDraft, AL!cancelActionEdit, AL!clearActionDrafts,
         AL!handleSubmit
<1>3. DraftList(drafts')
  <2>1. CASE drafts' \in {drafts, <<>>}
    BY <2>1, NoDrafts
  <2>2. CASE drafts' = [drafts EXCEPT ![editing].type = form.type,
                                      ![editing].config = AL!actionConfig]
    <3>1. /\ Len(drafts) \in Nat
          /\ DOMAIN drafts = 1 .. Len(drafts)
          /\ \A i \in DOMAIN drafts : Drafted(drafts[i])
      BY ListFacts
    <3>2. drafts' = [i \in 1 .. Len(drafts) |-> drafts'[i]]
      BY <3>1, <2>2
    <3>3. ASSUME NEW i \in 1 .. Len(drafts) PROVE Drafted(drafts'[i])
      <4>1. drafts'[i] = IF i = editing
                         THEN [drafts[i] EXCEPT !.type = form.type, !.config = AL!actionConfig]
                         ELSE drafts[i]
        BY <2>2, <3>1
      <4>2. Drafted(drafts[i])
        BY <3>1
      <4>. HIDE <2>2
      <4>. QED BY <4>1, <4>2 DEF Drafted
    <3>. QED BY <3>1, <3>2, <3>3, ListOf
  <2>3. drafts' \in {drafts, <<>>}
        \/ drafts' = [drafts EXCEPT ![editing].type = form.type,
                                    ![editing].config = AL!actionConfig]
    BY DEF AL!updateCurrentActionDraft, AL!cancelActionEdit, AL!clearActionDrafts,
           AL!handleSubmit
  <2>. QED BY <2>1, <2>2, <2>3
<1>. QED BY <1>1, <1>2, <1>3, NoEdit

\* A list of stored actions is loaded as a list of drafts.
LEMMA Loaded ==
  ASSUME NEW S, NEW as \in Seq(S), \A a \in S : a.type \in AnyType, as # <<>>
  PROVE  DraftList(AL!Deserialized(as)) /\ Drafted(Head(AL!Deserialized(as)))
<1>1. Len(as) \in Nat /\ DOMAIN as = 1 .. Len(as) /\ 1 \in DOMAIN as
  <2>1. Len(as) \in Nat /\ DOMAIN as = 1 .. Len(as)
    BY LenProperties
  <2>2. Len(as) \in Nat \ {0}
    BY EmptySeq
  <2>3. \A n \in Nat \ {0} : 1 \in 1 .. n
    OBVIOUS
  <2>. QED BY <2>1, <2>2, <2>3, Zenon
<1>. DEFINE ds == AL!Deserialized(as)
<1>2. ds = [i \in 1 .. Len(as) |-> AL!deserializeActionDraft(as[i])]
  BY <1>1 DEF AL!Deserialized
<1>3. ASSUME NEW i \in 1 .. Len(as) PROVE Drafted(ds[i])
  <2>1. as[i].type \in AnyType
    BY <1>1, ElementOfSeq
  <2>2. ds[i] = AL!deserializeActionDraft(as[i])
    BY <1>2
  <2>. HIDE DEF ds
  <2>3. ds[i].type = as[i].type
        /\ DOMAIN ds[i] = {"type", "config", "trueBranch", "falseBranch", "opened"}
    BY <2>2 DEF AL!deserializeActionDraft
  <2>. QED BY <2>1, <2>3 DEF Drafted
<1>4. ds = [i \in 1 .. Len(as) |-> ds[i]]
  BY <1>2
<1>. HIDE DEF ds
<1>5. DraftList(ds) /\ Len(ds) = Len(as)
  BY <1>1, <1>3, <1>4, ListOf
<1>6. Head(ds) = ds[1]
  <2>1. PICK T : ds \in Seq(T)
    BY <1>5 DEF DraftList
  <2>. QED BY <2>1, <1>1, <1>5
<1>. QED BY <1>1, <1>3, <1>5, <1>6 DEF ds

\* The presets are lists of actions of the types that there are.
LEMMA Presets ==
  ASSUME NEW p \in AL!quickStartPresets
  PROVE  p \in Seq(AL!Range(p)) /\ \A a \in AL!Range(p) : a.type \in AnyType
<1>1. \A i \in DOMAIN p : p[i].type \in Type
  BY DEF AL!quickStartPresets
<1>2. p \in Seq(AL!Range(p))
  <2>1. PICK a, b : p = <<a>> \/ p = <<a, b>>
    BY DEF AL!quickStartPresets
  <2>. QED BY <2>1 DEF AL!Range
<1>. QED BY <1>1, <1>2 DEF AL!Range, AnyType

\* A list is loaded.
LEMMA LoadKeeps ==
  ASSUME ActionsGood,
         \/ \E p \in AL!quickStartPresets : AL!applyQuickStartPreset(p)
         \/ \E actions \in Stored : AL!startEdit(actions)
  PROVE  ActionsGood'
<1>1. PICK as : /\ as \in Seq(AL!Range(as)) /\ \A a \in AL!Range(as) : a.type \in AnyType
                /\ AL!startEdit(as)
  <2>1. CASE \E p \in AL!quickStartPresets : AL!applyQuickStartPreset(p)
    BY <2>1, Presets DEF AL!applyQuickStartPreset
  <2>2. CASE \E actions \in Stored : AL!startEdit(actions)
    BY <2>2, PagesAssumption DEF AL!ActionListAssumption, AnyType
  <2>. QED BY <2>1, <2>2
<1>2. /\ drafts' = AL!Deserialized(as)
      /\ editing' = 0
      /\ form' = IF as = <<>> THEN AL!blankForm ELSE AL!FormOf(Head(drafts'), AL!blankForm)
  BY <1>1 DEF AL!startEdit
<1>3. CASE as = <<>>
  <2>1. drafts' = <<>>
    BY <1>2, <1>3 DEF AL!Deserialized
  <2>. QED BY <1>2, <1>3, <2>1, NoDrafts, Blank, NoEdit
<1>4. CASE as # <<>>
  <2>1. DraftList(drafts') /\ Drafted(Head(drafts'))
    BY <1>1, <1>2, <1>4, Loaded
  <2>2. form'.type = Head(drafts').type
    BY <1>2, <1>4, <2>1, Filled
  <2>. QED BY <1>2, <2>1, <2>2, NoEdit DEF Drafted
<1>. QED BY <1>3, <1>4

\* An action is added, to the list or to a branch; nothing is said of an edit.
LEMMA AddKeeps ==
  ASSUME ActionsGood, editing = 0, AL!addCurrentActionDraft
  PROVE  ActionsGood'
<1>. USE DEF ActionsGood
<1>. DEFINE d == AL!Draft(form.type, AL!actionConfig)
<1>1. Drafted(d)
  BY DEF AL!Draft, Drafted
<1>2. DraftList(drafts')
  <2>1. CASE drafts' = drafts
    BY <2>1
  <2>2. CASE drafts' = Append(drafts, d)
    <3>. HIDE DEF d
    <3>1. PICK S : drafts \in Seq(S) /\ \A x \in S : Drafted(x)
      BY DEF DraftList
    <3>. DEFINE T == S \cup {d}
    <3>2. drafts \in Seq(T) /\ d \in T /\ \A x \in T : Drafted(x)
      BY <1>1, <3>1
    <3>. HIDE DEF T
    <3>3. drafts' \in Seq(T)
      BY <2>2, <3>2
    <3>. QED BY <3>2, <3>3 DEF DraftList
  <2>. QED BY <2>1, <2>2 DEF AL!addCurrentActionDraft
<1>. QED BY <1>2, NoEdit DEF AL!addCurrentActionDraft

\* A step that changes no draft's type, config and mark, and leaves the form.
LEMMA SameDrafts ==
  ASSUME ActionsGood, UNCHANGED <<form, editing, moved, touched>>,
         DraftList(drafts'), Len(drafts') = Len(drafts),
         \A i \in 1 .. Len(drafts) :
           /\ drafts'[i].type = drafts[i].type
           /\ drafts'[i].config = drafts[i].config
           /\ drafts'[i].opened = drafts[i].opened
  PROVE  ActionsGood'
<1>1. Len(drafts) \in Nat
  BY ListFacts DEF ActionsGood
<1>2. editing # 0 => editing \in 1 .. Len(drafts)
  BY <1>1 DEF ActionsGood, Edited
<1>. QED BY <1>2 DEF ActionsGood, Edited

LEMMA BranchKeeps ==
  ASSUME ActionsGood, NEW i \in DOMAIN drafts, NEW branch \in {"trueBranch", "falseBranch"},
         AL!addBranchAction(i, branch)
  PROVE  ActionsGood'
<1>. DEFINE a == [type |-> form.type, config |-> AL!actionConfig]
<1>1. /\ Len(drafts) \in Nat
      /\ DOMAIN drafts = 1 .. Len(drafts)
      /\ \A j \in DOMAIN drafts : Drafted(drafts[j])
  BY ListFacts DEF ActionsGood
<1>2. UNCHANGED <<form, editing, moved, touched>>
  BY DEF AL!addBranchAction, AL!history
<1>3. CASE drafts' = drafts
  BY <1>2, <1>3, SameDrafts DEF ActionsGood
<1>4. CASE drafts' = [drafts EXCEPT ![i][branch] = Append(@, a)]
  <2>. HIDE DEF a
  <2>1. drafts' = [j \in 1 .. Len(drafts) |-> drafts'[j]]
    BY <1>1, <1>4
  <2>2. ASSUME NEW j \in 1 .. Len(drafts)
        PROVE  /\ Drafted(drafts'[j])
               /\ drafts'[j].type = drafts[j].type
               /\ drafts'[j].config = drafts[j].config
               /\ drafts'[j].opened = drafts[j].opened
    <3>1. drafts'[j] = IF j = i
                       THEN [drafts[j] EXCEPT ![branch] = Append(@, a)]
                       ELSE drafts[j]
      BY <1>1, <1>4
    <3>2. Drafted(drafts[j])
      BY <1>1
    <3>. HIDE <1>4
    <3>. QED BY <3>1, <3>2 DEF Drafted
  <2>. HIDE <1>4
  <2>3. DraftList(drafts') /\ Len(drafts') = Len(drafts)
    BY <1>1, <2>1, <2>2, ListOf
  <2>. QED BY <1>2, <2>2, <2>3, SameDrafts
<1>. QED BY <1>3, <1>4 DEF AL!addBranchAction

\* The arrows.
LEMMA SwapKeeps ==
  ASSUME ActionsGood, NEW i, NEW j, AL!Swap(i, j)
  PROVE  ActionsGood'
<1>1. /\ Len(drafts) \in Nat
      /\ DOMAIN drafts = 1 .. Len(drafts)
      /\ \A k \in DOMAIN drafts : Drafted(drafts[k])
  BY ListFacts DEF ActionsGood
<1>2. /\ i \in 1 .. Len(drafts) /\ j \in 1 .. Len(drafts)
      /\ drafts' = [drafts EXCEPT ![i] = drafts[j], ![j] = drafts[i]]
      /\ moved' = TRUE
      /\ UNCHANGED <<form, editing>>
  BY <1>1 DEF AL!Swap
<1>3. drafts' = [k \in 1 .. Len(drafts) |-> drafts'[k]]
  BY <1>1, <1>2
<1>4. \A k \in 1 .. Len(drafts) : drafts'[k] \in {drafts[i], drafts[j], drafts[k]}
  BY <1>1, <1>2
<1>5. \A k \in 1 .. Len(drafts) : Drafted(drafts'[k])
  BY <1>1, <1>2, <1>4
<1>6. DraftList(drafts') /\ Len(drafts') = Len(drafts)
  BY <1>1, <1>3, <1>5, ListOf
<1>. QED BY <1>2, <1>6 DEF ActionsGood, Edited

\* The pencil.
LEMMA EditKeeps ==
  ASSUME ActionsGood, NEW i \in DOMAIN drafts, AL!editActionDraft(i)
  PROVE  ActionsGood'
<1>1. /\ Len(drafts) \in Nat
      /\ DOMAIN drafts = 1 .. Len(drafts)
      /\ \A k \in DOMAIN drafts : Drafted(drafts[k])
  BY ListFacts DEF ActionsGood
<1>2. /\ editing' = i
      /\ form' = AL!FormOf(drafts[i], form)
      /\ drafts' = [j \in DOMAIN drafts |-> [drafts[j] EXCEPT !.opened = j = i]]
  BY DEF AL!editActionDraft
<1>3. ASSUME NEW j \in 1 .. Len(drafts)
      PROVE  /\ Drafted(drafts'[j])
             /\ drafts'[j].type = drafts[j].type
             /\ drafts'[j].config = drafts[j].config
             /\ j = i => drafts'[j].opened = TRUE
  <2>1. drafts'[j] = [drafts[j] EXCEPT !.opened = j = i]
    BY <1>1, <1>2
  <2>2. Drafted(drafts[j])
    BY <1>1
  <2>. QED BY <2>1, <2>2 DEF Drafted
<1>4. drafts' = [j \in 1 .. Len(drafts) |-> drafts'[j]]
  BY <1>1, <1>2
<1>5. DraftList(drafts') /\ Len(drafts') = Len(drafts)
  BY <1>1, <1>3, <1>4, ListOf
<1>6. form'.type = drafts[i].type /\ Shows(form'.value, drafts[i].config)
  BY <1>1, <1>2, Filled
<1>7. form'.type \in AnyType
  BY <1>1, <1>6 DEF Drafted
<1>8. i \in 1 .. Len(drafts)
  BY <1>1
<1>9. Edited'
  <2>1. /\ drafts'[i].opened = TRUE
        /\ drafts'[i].type = drafts[i].type
        /\ drafts'[i].config = drafts[i].config
    BY <1>3, <1>8
  <2>2. form'.type = drafts'[i].type /\ Shows(form'.value, drafts'[i].config)
    BY <1>6, <2>1
  <2>. QED BY <1>2, <1>5, <1>8, <2>1, <2>2 DEF Edited
<1>. QED BY <1>5, <1>7, <1>9 DEF ActionsGood

\* Taking an action out moves those after it up by one.
LEMMA Removed ==
  ASSUME NEW ds, DraftList(ds), NEW i \in 1 .. Len(ds)
  PROVE  /\ DraftList(AL!RemoveAt(ds, i))
         /\ Len(AL!RemoveAt(ds, i)) = Len(ds) - 1
         /\ \A j \in 1 .. Len(ds) - 1 :
              AL!RemoveAt(ds, i)[j] = ds[IF j < i THEN j ELSE j + 1]
<1>1. PICK S : ds \in Seq(S) /\ \A x \in S : Drafted(x)
  BY DEF DraftList
<1>2. Len(ds) \in Nat /\ \A j \in 1 .. Len(ds) : ds[j] \in S
  BY <1>1, LenProperties
<1>. DEFINE before == SubSeq(ds, 1, i - 1)
            after == SubSeq(ds, i + 1, Len(ds))
<1>3. before \in Seq(S) /\ Len(before) = i - 1
      /\ \A j \in 1 .. i - 1 : before[j] = ds[j]
  <2>1. 1 \in Int /\ i - 1 \in Int /\ \A j \in 1 .. i - 1 : ds[j] \in S
    BY <1>2
  <2>. QED BY <2>1, SubSeqProperties
<1>4. after \in Seq(S) /\ Len(after) = Len(ds) - i
      /\ \A j \in 1 .. Len(ds) - i : after[j] = ds[i + j]
  <2>1. i + 1 \in Int /\ Len(ds) \in Int /\ \A j \in i + 1 .. Len(ds) : ds[j] \in S
    BY <1>2
  <2>2. /\ after \in Seq(S)
        /\ Len(after) = IF i + 1 <= Len(ds) THEN Len(ds) - (i + 1) + 1 ELSE 0
        /\ \A j \in 1 .. Len(ds) - (i + 1) + 1 : after[j] = ds[(i + 1) + j - 1]
    BY <2>1, SubSeqProperties
  <2>. HIDE DEF after
  <2>. QED BY <1>2, <2>2
<1>. HIDE DEF before, after
<1>5. /\ before \o after \in Seq(S)
      /\ Len(before \o after) = Len(ds) - 1
      /\ \A j \in 1 .. Len(ds) - 1 :
           (before \o after)[j] = IF j <= i - 1 THEN before[j] ELSE after[j - (i - 1)]
  BY <1>2, <1>3, <1>4, ConcatProperties
<1>6. AL!RemoveAt(ds, i) = before \o after
  BY DEF AL!RemoveAt, before, after
<1>7. DraftList(AL!RemoveAt(ds, i))
  BY <1>1, <1>5, <1>6 DEF DraftList
<1>8. ASSUME NEW j \in 1 .. Len(ds) - 1
      PROVE  (before \o after)[j] = ds[IF j < i THEN j ELSE j + 1]
  <2>1. CASE j < i
    BY <1>2, <1>3, <1>5, <2>1
  <2>2. CASE j >= i
    <3>1. j - (i - 1) \in 1 .. Len(ds) - i /\ i + (j - (i - 1)) = j + 1
      BY <1>2, <2>2
    <3>. QED BY <1>2, <1>4, <1>5, <2>2, <3>1
  <2>3. j < i \/ j >= i
    BY <1>2
  <2>. QED BY <2>1, <2>2, <2>3
<1>. QED BY <1>5, <1>6, <1>7, <1>8

LEMMA RemoveKeeps ==
  ASSUME ActionsGood, NEW i \in DOMAIN drafts, AL!removeActionDraft(i)
  PROVE  ActionsGood'
<1>1. Len(drafts) \in Nat /\ DOMAIN drafts = 1 .. Len(drafts)
  BY ListFacts DEF ActionsGood
<1>2. /\ drafts' = AL!RemoveAt(drafts, i)
      /\ editing' = IF editing = i THEN 0 ELSE IF editing > i THEN editing - 1 ELSE editing
      /\ UNCHANGED <<form, moved, touched>>
  BY DEF AL!removeActionDraft, AL!history
<1>3. /\ DraftList(drafts')
      /\ Len(drafts') = Len(drafts) - 1
      /\ \A j \in 1 .. Len(drafts) - 1 :
           drafts'[j] = drafts[IF j < i THEN j ELSE j + 1]
  BY <1>1, <1>2, Removed DEF ActionsGood
<1>4. editing \in 0 .. Len(drafts)
  BY DEF ActionsGood, Edited
<1>5. editing' \in 0 .. Len(drafts') /\ (editing' # 0 => editing # 0)
  BY <1>1, <1>2, <1>3, <1>4
<1>6. ASSUME editing' # 0 PROVE drafts'[editing'] = drafts[editing]
  BY <1>1, <1>2, <1>3, <1>4, <1>6
<1>7. Edited'
  BY <1>2, <1>5, <1>6 DEF ActionsGood, Edited
<1>. QED BY <1>2, <1>3, <1>7 DEF ActionsGood

LEMMA NextActions == ActionsInv /\ [Next]_vars => ActionsInv'
<1>. SUFFICES ASSUME ActionsInv, [Next]_vars, which' = "actions" PROVE ActionsGood'
  BY DEF ActionsInv
<1>1. which = "actions" /\ ActionsGood /\ (AL!Next \/ UNCHANGED al)
  BY PageStep DEF ActionsInv
<1>2. CASE UNCHANGED al
  BY <1>1, <1>2 DEF al, ActionsGood, Edited
<1>3. CASE \/ \E type \in Type : AL!ChooseType(type)
           \/ \E k \in AL!Field, v \in {"set", "blank"} : AL!TypeField(k, v)
  BY <1>1, <1>3, FormKeeps
<1>4. CASE AL!EditorButtons
  BY <1>1, <1>4, AddKeeps, EndsKeep DEF AL!EditorButtons
<1>5. CASE AL!clearActionDrafts \/ AL!handleSubmit
  BY <1>1, <1>5, EndsKeep
<1>6. ASSUME NEW i \in DOMAIN drafts, AL!ActionRow(i) PROVE ActionsGood'
  <2>1. CASE \E branch \in {"trueBranch", "falseBranch"} : AL!addBranchAction(i, branch)
    BY <1>1, <2>1, BranchKeeps
  <2>2. CASE AL!moveActionUp(i) \/ AL!moveActionDown(i)
    BY <1>1, <2>2, SwapKeeps DEF AL!moveActionUp, AL!moveActionDown
  <2>3. CASE AL!editActionDraft(i)
    BY <1>1, <2>3, EditKeeps
  <2>4. CASE AL!removeActionDraft(i)
    BY <1>1, <2>4, RemoveKeeps
  <2>. QED BY <1>6, <2>1, <2>2, <2>3, <2>4 DEF AL!ActionRow
<1>7. CASE \/ \E p \in AL!quickStartPresets : AL!applyQuickStartPreset(p)
           \/ \E actions \in Stored : AL!startEdit(actions)
  BY <1>1, <1>7, LoadKeeps
<1>. QED BY <1>1, <1>2, <1>3, <1>4, <1>5, <1>6, <1>7 DEF AL!Next

\* Update Action rewrites the action whose pencil was clicked, whatever was added
\* or removed since, for every number of actions, unless an arrow was used.
THEOREM OpenedIsUpdated == Spec => []EditTargetsOpened
<1>1. ASSUME ActionsInv PROVE EditTargetsOpened
  <2>. SUFFICES ASSUME which = "actions", editing # 0, ~moved
                PROVE  editing \in DOMAIN drafts /\ drafts[editing].opened
    BY DEF EditTargetsOpened, AL!EditTargetsOpened
  <2>1. DOMAIN drafts = 1 .. Len(drafts) /\ Len(drafts) \in Nat
    BY <1>1, ListFacts DEF ActionsInv, ActionsGood
  <2>. QED BY <1>1, <2>1 DEF ActionsInv, ActionsGood, Edited
<1>. QED BY <1>1, InitActions, NextActions, PTL DEF Spec

\* Type by type, the server finds an action's own settings in order exactly when
\* the page's list does, where the page has a list; elsewhere it only asks for the
\* address of an HTTP request.
LEMMA ListsAgree ==
  ASSUME NEW d, NEW a, a.type = d.type, a.config = d.config
  PROVE  /\ d.type \in AL!Asked => (AL!OwnIssues(a) = {} <=> AL!complete(d))
         /\ d.type \notin AL!Asked \cup {"HTTP_REQUEST"} => AL!OwnIssues(a) = {}
<1>. DEFINE has(k) == AL!HasValue(d.config, k)
<1>1. AL!OwnIssues(a) = {} <=>
        \A names \in AL!Required(d.type) : \E k \in names : has(k)
  BY DEF AL!OwnIssues
<1>3. CASE d.type = "SLACK_SEND_MESSAGE"
  <2>1. AL!Required(d.type) = {{"channel", "channel_id"}, {"message", "text"}}
    BY <1>3 DEF AL!Required
  <2>2. d.type \in AL!Asked
    BY <1>3 DEF AL!Asked
  <2>3. AL!OwnIssues(a) = {} <=> (has("channel") \/ has("channel_id")) /\ (has("message") \/ has("text"))
    BY <1>1, <2>1 DEF AL!HasValue
  <2>4. AL!complete(d) <=> (has("channel") \/ has("channel_id")) /\ (has("message") \/ has("text"))
    BY <1>3 DEF AL!complete
  <2>. QED BY <2>2, <2>3, <2>4, Zenon
<1>4. CASE d.type = "GOOGLE_SHEETS_APPEND"
  <2>1. AL!Required(d.type) = {{"spreadsheet_id"}, {"sheet_name"}}
    BY <1>4 DEF AL!Required
  <2>2. d.type \in AL!Asked
    BY <1>4 DEF AL!Asked
  <2>3. AL!OwnIssues(a) = {} <=> has("spreadsheet_id") /\ has("sheet_name")
    BY <1>1, <2>1 DEF AL!HasValue
  <2>4. AL!complete(d) <=> has("spreadsheet_id") /\ has("sheet_name")
    BY <1>4 DEF AL!complete
  <2>. QED BY <2>2, <2>3, <2>4, Zenon
<1>5. CASE d.type = "SEND_EMAIL"
  <2>1. AL!Required(d.type) = {{"to"}, {"subject"}, {"body"}}
    BY <1>5 DEF AL!Required
  <2>2. d.type \in AL!Asked
    BY <1>5 DEF AL!Asked
  <2>3. AL!OwnIssues(a) = {} <=> has("to") /\ has("subject") /\ has("body")
    BY <1>1, <2>1 DEF AL!HasValue
  <2>4. AL!complete(d) <=> has("to") /\ has("subject") /\ has("body")
    BY <1>5 DEF AL!complete
  <2>. QED BY <2>2, <2>3, <2>4, Zenon
<1>6. CASE d.type = "SEND_WEBHOOK"
  <2>1. AL!Required(d.type) = {{"url"}}
    BY <1>6 DEF AL!Required
  <2>2. d.type \in AL!Asked
    BY <1>6 DEF AL!Asked
  <2>3. AL!OwnIssues(a) = {} <=> has("url")
    BY <1>1, <2>1 DEF AL!HasValue
  <2>4. AL!complete(d) <=> has("url")
    BY <1>6 DEF AL!complete
  <2>. QED BY <2>2, <2>3, <2>4, Zenon
<1>7. CASE d.type = "OPENAI_TEXT_GENERATE"
  <2>1. AL!Required(d.type) = {{"prompt"}, {"model"}}
    BY <1>7 DEF AL!Required
  <2>2. d.type \in AL!Asked
    BY <1>7 DEF AL!Asked
  <2>3. AL!OwnIssues(a) = {} <=> has("prompt") /\ has("model")
    BY <1>1, <2>1 DEF AL!HasValue
  <2>4. AL!complete(d) <=> has("prompt") /\ has("model")
    BY <1>7 DEF AL!complete
  <2>. QED BY <2>2, <2>3, <2>4, Zenon
<1>8. CASE d.type \notin AL!Asked
  BY <1>1, <1>8 DEF AL!Required, AL!Asked
<1>. QED BY <1>3, <1>4, <1>5, <1>6, <1>7, <1>8 DEF AL!Asked

\* For every list of actions the setup panel and activation, each with its own list
\* of settings, find the same actions incomplete, but for HTTP requests and the
\* branches of conditions, which only activation looks at.
THEOREM PanelAgrees == Spec => []SetupAgrees
<1>1. SetupAgrees
  <2>. SUFFICES ASSUME which = "actions", drafts # <<>>
                PROVE  /\ AL!missingSetup \subseteq AL!Refused
                       /\ \A i \in AL!Refused \ AL!missingSetup :
                            drafts[i].type \in {"HTTP_REQUEST", "CONDITION"}
    BY DEF SetupAgrees, AL!SetupAgrees
  <2>1. AL!missingSetup =
          {i \in DOMAIN drafts : drafts[i].type \in AL!Asked /\ ~AL!complete(drafts[i])}
    BY DEF AL!missingSetup, AL!setupRequirements
  <2>2. /\ DOMAIN AL!payload = DOMAIN drafts
        /\ \A i \in DOMAIN drafts : /\ AL!payload[i].type = drafts[i].type
                                    /\ AL!payload[i].config = drafts[i].config
    BY DEF AL!payload, AL!Serialized, AL!serializeActionDraft
  <2>3. ASSUME NEW i \in DOMAIN drafts
        PROVE  /\ drafts[i].type \in AL!Asked /\ ~AL!complete(drafts[i])
                    => AL!OwnIssues(AL!payload[i]) # {}
               /\ drafts[i].type \in AL!Asked /\ AL!complete(drafts[i])
                    => AL!OwnIssues(AL!payload[i]) = {}
               /\ drafts[i].type \notin AL!Asked \cup {"HTTP_REQUEST"}
                    => AL!OwnIssues(AL!payload[i]) = {}
    BY <2>2, <2>3, ListsAgree
  <2>4. ASSUME NEW a
        PROVE  /\ AL!OwnIssues(a) # {} => AL!collect_action_configuration_issues(a) # {}
               /\ a.type # "CONDITION" =>
                    AL!collect_action_configuration_issues(a) = AL!OwnIssues(a)
    BY DEF AL!collect_action_configuration_issues
  <2>5. \A i \in DOMAIN drafts :
          i \in AL!Refused <=> AL!collect_action_configuration_issues(AL!payload[i]) # {}
    BY <2>2 DEF AL!Refused
  <2>6. AL!Refused \subseteq DOMAIN drafts
    BY <2>2 DEF AL!Refused
  <2>7. AL!missingSetup \subseteq AL!Refused
    BY <2>1, <2>3, <2>4, <2>5
  <2>8. ASSUME NEW i \in AL!Refused \ AL!missingSetup
        PROVE  drafts[i].type \in {"HTTP_REQUEST", "CONDITION"}
    BY <2>1, <2>2, <2>3, <2>4, <2>5, <2>6
  <2>. QED BY <2>7, <2>8
<1>. QED BY <1>1, PTL

\* Reviewing a configured action and clicking Update Action without a change leaves
\* it configured, in whichever spelling it had its settings, but for one stored with
\* a message and a text.
THEOREM ReviewHarmless == Spec => ReviewKeepsSetup
<1>. DEFINE Kept ==
       AL!updateCurrentActionDraft /\ ~moved /\ ~touched /\ ~crashed'
           /\ ~{"message", "text"} \subseteq DOMAIN drafts[editing].config
           /\ editing \in DOMAIN AL!setupRequirements /\ AL!setupRequirements[editing]
         => AL!setupRequirements'[editing]
<1>1. ASSUME which = "actions", ActionsGood, AL!updateCurrentActionDraft, ~moved, ~touched,
             ~crashed', ~{"message", "text"} \subseteq DOMAIN drafts[editing].config,
             editing \in DOMAIN AL!setupRequirements, AL!setupRequirements[editing]
      PROVE  AL!setupRequirements'[editing]
  <2>. DEFINE type == form.type
              config == drafts[editing].config
  <2>1. /\ editing \in DOMAIN drafts
        /\ drafts[editing].type \in AL!Asked
        /\ AL!complete(drafts[editing])
    BY <1>1 DEF AL!setupRequirements
  <2>2. /\ Len(drafts) \in Nat
        /\ DOMAIN drafts = 1 .. Len(drafts)
        /\ Drafted(drafts[editing])
    BY <1>1, <2>1, ListFacts DEF ActionsGood
  <2>3. type = drafts[editing].type /\ Shows(form.value, config)
    BY <1>1, <2>1, <2>2 DEF ActionsGood, Edited
  <2>4. /\ drafts' = [drafts EXCEPT ![editing].type = type,
                                    ![editing].config = AL!actionConfig]
        /\ type = "SLACK_SEND_MESSAGE" => form.value["channel"] = "set"
    BY <1>1 DEF AL!updateCurrentActionDraft
  <2>5. /\ DOMAIN drafts' = DOMAIN drafts
        /\ drafts'[editing].type = type
        /\ drafts'[editing].config = AL!actionConfig
    <3>1. drafts'[editing] = [drafts[editing] EXCEPT !.type = type, !.config = AL!actionConfig]
      BY <2>1, <2>4
    <3>2. DOMAIN drafts[editing] = {"type", "config", "trueBranch", "falseBranch", "opened"}
      BY <2>2 DEF Drafted
    <3>3. DOMAIN drafts' = DOMAIN drafts
      BY <2>4
    <3>. HIDE DEF type
    <3>4. drafts'[editing].type = type
      BY <3>1, <3>2
    <3>5. drafts'[editing].config = AL!actionConfig
      BY <3>1, <3>2
    <3>. QED BY <3>3, <3>4, <3>5
  <2>6. AL!Written(type) \subseteq AL!Field
    BY <2>2, <2>3 DEF AL!Field, Drafted, AnyType
  <2>7. \A k \in AL!Written(type) :
          /\ k \in DOMAIN AL!actionConfig
          /\ AL!actionConfig[k] = IF k \in {"sheet_name", "model"} THEN "set"
                                  ELSE form.value[k]
    BY DEF AL!actionConfig
  <2>8. \A k \in AL!Written(type) : k \in DOMAIN config => form.value[k] = config[k]
    BY <2>3, <2>6 DEF Shows
  <2>9. AL!complete(drafts'[editing])
    <3>1. CASE type = "SLACK_SEND_MESSAGE"
      <4>1. AL!Written(type) = {"channel", "message"}
        BY <3>1 DEF AL!Written
      <4>2. \E k \in {"message", "text"} : k \in DOMAIN config /\ config[k] = "set"
        BY <2>1, <2>3, <3>1 DEF AL!complete, AL!HasValue
      <4>3. form.value["message"] = "set"
        <5>1. "message" \notin DOMAIN config \/ "text" \notin DOMAIN config
          BY <1>1
        <5>. QED BY <2>3, <2>6, <4>1, <4>2, <5>1 DEF Shows
      <4>. QED BY <2>4, <2>5, <2>7, <3>1, <4>1, <4>3 DEF AL!complete, AL!HasValue
    <3>2. CASE type = "GOOGLE_SHEETS_APPEND"
      BY <2>1, <2>3, <2>5, <2>7, <2>8, <3>2
      DEF AL!Written, AL!complete, AL!HasValue
    <3>3. CASE type = "SEND_EMAIL"
      BY <2>1, <2>3, <2>5, <2>7, <2>8, <3>3
      DEF AL!Written, AL!complete, AL!HasValue
    <3>4. CASE type = "SEND_WEBHOOK"
      BY <2>1, <2>3, <2>5, <2>7, <2>8, <3>4
      DEF AL!Written, AL!complete, AL!HasValue
    <3>5. CASE type = "OPENAI_TEXT_GENERATE"
      BY <2>1, <2>3, <2>5, <2>7, <2>8, <3>5
      DEF AL!Written, AL!complete, AL!HasValue
    <3>. QED BY <2>1, <2>3, <3>1, <3>2, <3>3, <3>4, <3>5 DEF AL!Asked
  <2>. QED BY <2>1, <2>3, <2>5, <2>9 DEF AL!setupRequirements
<1>2. ASSUME ActionsInv, [Next]_vars PROVE [Kept]_al
  <2>1. CASE which = "actions"
    BY <1>1, <1>2, <2>1 DEF ActionsInv
  <2>2. CASE which # "actions"
    BY <1>2, <2>2 DEF Next, vars, al
  <2>. QED BY <2>1, <2>2
<1>3. AL!ReviewKeepsSetup <=> [][Kept]_al
  BY DEF AL!ReviewKeepsSetup, AL!vars, al
<1>. QED BY <1>2, <1>3, InitActions, NextActions, PTL DEF Spec, ReviewKeepsSetup
=============================================================================
