------------------------------ MODULE Account ------------------------------
(***************************************************************************)
(* Creating an account and the two kinds of link mailed for it: the pages   *)
(* that ask for a link, the pages a link opens, and the server, which reads *)
(* the unused links of the account and commits later, without a lock.       *)
(* There is one account; its address is the one typed on every page.        *)
(***************************************************************************)
EXTENDS Naturals, Sequences

CONSTANTS
  Tab,        \* browser tabs in which a mailed link is opened
  MaxCalls,   \* bound: calls sent to the server
  LossLimit   \* bound: calls given up before their answer

\* What the constants have to be.
AccountAssumption == MaxCalls \in Nat /\ LossLimit \in Nat

VARIABLES
  exists,     \* server: the account is created
  verified,   \* server: its address is verified
  links,      \* server: the links issued, in order of their commit
  calls,      \* the calls sent, and how far the server is with each
  waiting,    \* waiting[p]: the call page p is busy with, or 0
  told,       \* the tabs, and the sign-up form, that were told of their success
  opened,     \* opened[t]: the link in the address of tab t, or 0
  doubled,    \* history: links two calls were using at the same time
  raced,      \* history: kinds of link two calls were asking for at the same time
  unanswered  \* bound: calls given up so far

server == <<exists, verified, links>>
browser == <<waiting, told, opened>>
history == <<doubled, raced>>
vars == <<server, calls, browser, history, unanswered>>

AskPage == {"signup", "resend", "forgot"}
Page == AskPage \cup Tab

\* Mutant of Unused: the account's links of both kinds.
UnusedOfAny(kind) == {i \in DOMAIN links : links[i].used = 0 /\ ~links[i].revoked}

\* What the server's queries select.
Unused(kind) ==
  {i \in DOMAIN links : links[i].kind = kind /\ links[i].used = 0 /\ ~links[i].revoked}
Works(i) == i \in Unused(links[i].kind)

Revoked(ls, is) ==
  [i \in DOMAIN ls |-> [ls[i] EXCEPT !.revoked = @ \/ i \in is]]

----------------------------------------------------------------------------
(* The pages: each has one call at a time, its button is disabled meanwhile. *)

Send(p, kind, link) ==
  /\ waiting[p] = 0
  /\ Len(calls) < MaxCalls
  /\ calls' = Append(calls, [kind |-> kind, link |-> link, pc |-> "sent", seen |-> {}])
  /\ waiting' = [waiting EXCEPT ![p] = Len(calls')]
  /\ UNCHANGED <<server, told, history, unanswered>>

\* The sign-up form; once there is an account the page is another.
signup == "signup" \notin told /\ Send("signup", "signup", 0) /\ UNCHANGED opened
handleResendVerification ==
  "signup" \in told /\ Send("signup", "verify", 0) /\ UNCHANGED opened

resendVerificationEmail == Send("resend", "verify", 0) /\ UNCHANGED opened
forgotPassword == Send("forgot", "reset", 0) /\ UNCHANGED opened

\* A verification link is used as soon as its page is shown.
OpenVerifyLink(t, i) ==
  /\ opened[t] = 0 /\ links[i].mailed /\ links[i].kind = "verify"
  /\ Send(t, "use", i)
  /\ opened' = [opened EXCEPT ![t] = i]

OpenResetLink(t, i) ==
  /\ opened[t] = 0 /\ links[i].mailed /\ links[i].kind = "reset"
  /\ opened' = [opened EXCEPT ![t] = i]
  /\ UNCHANGED <<server, calls, waiting, told, history, unanswered>>

\* A new password is submitted, again after an error.
resetPassword(t) ==
  /\ opened[t] # 0 /\ links[opened[t]].kind = "reset"
  /\ t \notin told
  /\ Send(t, "use", opened[t])
  /\ UNCHANGED opened

Answered(p) ==
  /\ waiting[p] # 0 /\ calls[waiting[p]].pc \in {"answered", "refused"}
  /\ waiting' = [waiting EXCEPT ![p] = 0]
  /\ told' = told \cup {q \in {p} : calls[waiting[p]].pc = "answered"
                                   /\ calls[waiting[p]].kind \in {"signup", "use"}}
  /\ UNCHANGED <<server, calls, opened, history, unanswered>>

\* No answer in 15 seconds: the page says so, the server goes on.
GiveUp(p) ==
  /\ unanswered < LossLimit
  /\ waiting[p] # 0
  /\ waiting' = [waiting EXCEPT ![p] = 0]
  /\ unanswered' = unanswered + 1
  /\ UNCHANGED <<server, calls, told, opened, history>>

----------------------------------------------------------------------------
(* The server: AuthService. *)

At(i, pc) == calls' = [calls EXCEPT ![i].pc = pc]

\* signup commits the account, and asks for a link in a transaction of its own.
CreateAccount(i) ==
  /\ calls[i].kind = "signup" /\ calls[i].pc = "sent"
  /\ exists' = TRUE
  /\ At(i, IF exists THEN "refused" ELSE "created")
  /\ UNCHANGED <<verified, links, browser, history, unanswered>>

Asks(i) == IF calls[i].kind = "reset" THEN "reset" ELSE "verify"

\* request_email_verification and request_password_reset, up to the commit; an
\* address with no account, or verified already, is answered like any other.
ReadLinks(i) ==
  /\ \/ calls[i].kind = "signup" /\ calls[i].pc = "created"
     \/ calls[i].kind \in {"verify", "reset"} /\ calls[i].pc = "sent"
  /\ IF ~exists \/ (Asks(i) = "verify" /\ verified)
     THEN At(i, "answered") /\ UNCHANGED raced
     ELSE /\ calls' = [calls EXCEPT ![i].pc = "read", ![i].seen = Unused(Asks(i))]
          /\ raced' = raced \cup
               {k \in {Asks(i)} : \E j \in DOMAIN calls :
                  calls[j].kind # "use" /\ Asks(j) = k /\ calls[j].pc = "read"}
  /\ UNCHANGED <<server, browser, doubled, unanswered>>

\* Mutant of CommitLink: the earlier links keep working.
CommitLinkOnly(i) ==
  /\ calls[i].kind # "use" /\ calls[i].pc = "read"
  /\ links' = Append(links,
       [kind |-> Asks(i), used |-> 0, revoked |-> FALSE, mailed |-> FALSE])
  /\ calls' = [calls EXCEPT ![i].pc = "committed", ![i].seen = {},
                            ![i].link = Len(links')]
  /\ UNCHANGED <<exists, verified, browser, history, unanswered>>

CommitLink(i) ==
  /\ calls[i].kind # "use" /\ calls[i].pc = "read"
  /\ links' = Append(Revoked(links, calls[i].seen),
       [kind |-> Asks(i), used |-> 0, revoked |-> FALSE, mailed |-> FALSE])
  /\ calls' = [calls EXCEPT ![i].pc = "committed", ![i].seen = {},
                            ![i].link = Len(links')]
  /\ UNCHANGED <<exists, verified, browser, history, unanswered>>

\* The mail is sent, or fails and the link is revoked; the answer is the same.
SendMail(i) ==
  /\ calls[i].pc = "committed"
  /\ At(i, "answered")
  /\ \/ links' = [links EXCEPT ![calls[i].link].mailed = TRUE]
     \/ links' = Revoked(links, {calls[i].link})
  /\ UNCHANGED <<exists, verified, browser, history, unanswered>>

\* Mutant of Refuses: whether the link was revoked is not asked.
RefusesOnlyExpired(l) == {TRUE, FALSE}

\* A link that has expired is refused as well: when it does is left open.
Refuses(l) == IF Works(l) THEN {TRUE, FALSE} ELSE {TRUE}

\* verify_email and reset_password: the link is looked up ...
CheckLink(i) ==
  LET l == calls[i].link
      others == {j \in DOMAIN calls : calls[j].kind = "use" /\ calls[j].link = l
                                        /\ calls[j].pc \in {"checked", "read"}}
  IN /\ calls[i].kind = "use" /\ calls[i].pc = "sent"
     /\ \E refused \in Refuses(l) :
          /\ At(i, IF refused THEN "refused" ELSE "checked")
          /\ doubled' = doubled \cup {k \in {l} : ~refused /\ others # {}}
     /\ UNCHANGED <<server, browser, raced, unanswered>>

\* ... then the account's other links ...
ReadOthers(i) ==
  /\ calls[i].pc = "checked"
  /\ calls' = [calls EXCEPT ![i].pc = "read",
                            ![i].seen = Unused(links[calls[i].link].kind)]
  /\ UNCHANGED <<server, browser, history, unanswered>>

\* ... and all of them are spent with the change they were for.
CommitUse(i) ==
  LET l == calls[i].link
  IN /\ calls[i].kind = "use" /\ calls[i].pc = "read"
     /\ links' = [Revoked(links, calls[i].seen \cup {l}) EXCEPT ![l].used = @ + 1]
     /\ verified' = (verified \/ links[l].kind = "verify")
     /\ calls' = [calls EXCEPT ![i].pc = "answered", ![i].seen = {}]
     /\ UNCHANGED <<exists, browser, history, unanswered>>

----------------------------------------------------------------------------
Init ==
  /\ exists \in BOOLEAN
  /\ verified = FALSE
  /\ links = <<>>
  /\ calls = <<>>
  /\ waiting = [p \in Page |-> 0]
  /\ told = {}
  /\ opened = [t \in Tab |-> 0]
  /\ doubled = {}
  /\ raced = {}
  /\ unanswered = 0

Next ==
  \/ signup
  \/ handleResendVerification
  \/ resendVerificationEmail
  \/ forgotPassword
  \/ \E t \in Tab, i \in DOMAIN links : OpenVerifyLink(t, i) \/ OpenResetLink(t, i)
  \/ \E t \in Tab : resetPassword(t)
  \/ \E p \in Page : Answered(p) \/ GiveUp(p)
  \/ \E i \in DOMAIN calls :
       \/ CreateAccount(i)
       \/ ReadLinks(i)
       \/ CommitLink(i)
       \/ SendMail(i)
       \/ CheckLink(i)
       \/ ReadOthers(i)
       \/ CommitUse(i)

Spec == Init /\ [][Next]_vars

----------------------------------------------------------------------------
(* Properties. *)

\* "can only be used once" (sign-up page): a link takes effect at most once,
\* however often it is opened and whatever answers are lost, unless the server
\* was handling two of its uses at the same moment.
UsedOnce == \A i \in DOMAIN links : links[i].used > 1 => i \in doubled

\* A new link replaces the unused ones before it: of each kind at most one
\* works, unless two requests for that kind were read before either was
\* committed.
OneLinkWorks ==
  \A i, j \in DOMAIN links :
    i # j /\ Works(i) /\ Works(j) /\ links[i].kind = links[j].kind
      => links[i].kind \in raced

\* A mailed link stops working only because a later one was issued or one of
\* its kind was used: asking for one kind of link never ends another, and a
\* failed mail only the link it was to carry.
LostForCause ==
  \A i \in DOMAIN links :
    links[i].mailed /\ links[i].revoked
      => \E j \in DOMAIN links :
           links[j].kind = links[i].kind /\ (j > i \/ links[j].used > 0)
=============================================================================
