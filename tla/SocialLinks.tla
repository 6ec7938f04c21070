----------------------------- MODULE SocialLinks ----------------------------
(***************************************************************************)
(* Student accounts and the Google and Apple identities that sign in to    *)
(* them (modules/authentication/auth.services.js): sign-up with a password *)
(* or an identity, an identity attached to an account and detached again.  *)
(* isOAuthUser repeats what the provider rows say; both are written by     *)
(* queries of their own, guarded by what was read before.                  *)
(***************************************************************************)
EXTENDS Integers

CONSTANTS
  Clients,      \* requests in flight
  Emails,       \* an account is known by its e-mail, which is unique
  Phones,
  Identities,   \* a provider and its uid
  ProviderOf, EmailOf,  \* of an identity
  Unset,
  MaxDeaths    \* bound on requests that die

ASSUME SocialLinksAssumption ==
  /\ EmailOf \in [Identities -> Emails]
  /\ Unset \notin Emails \cup Phones \cup Identities
  /\ MaxDeaths \in Nat

VARIABLES
  student,   \* student rows: the phone of the account of an e-mail
  flag,      \* isOAuthUser
  link,      \* studentOAuthProvider rows: (provider, providerUid) is unique
  client,    \* requests
  deaths,
  \* history, read by no guard
  mixed,   \* accounts two requests of which mixed each other
  halved       \* accounts a failure left between two writes

linkVars == <<student, flag, link, client, deaths, mixed, halved>>

\* `marks`: the last query sets isOAuthUser.
Client == [pc: {"idle", "spend", "create", "link", "attach", "mark", "detach", "look",
                "unmark"},
           email: Emails \cup {Unset}, phone: Phones \cup {Unset},
           identity: Identities \cup {Unset}, marks: BOOLEAN]

Away == [pc |-> "idle", email |-> Unset, phone |-> Unset, identity |-> Unset,
         marks |-> FALSE]

LinksInit ==
  /\ student = [e \in Emails |-> Unset]
  /\ flag = [e \in Emails |-> FALSE]
  /\ link = [i \in Identities |-> Unset]
  /\ client = [c \in Clients |-> Away]
  /\ deaths = 0 /\ mixed = {} /\ halved = {}

-----------------------------------------------------------------------------
Is(c, pc) == client[c].pc = pc
Moved(c, pc) == client' = [client EXCEPT ![c].pc = pc]
End(c) == client' = [client EXCEPT ![c] = Away]

Exists(e) == student[e] # Unset
Known(e, p) == Exists(e) \/ p \in {student[f] : f \in Emails}
LinksOf(e, provider) == {i \in Identities : link[i] = e /\ ProviderOf[i] = provider}
Linked(e) == \E i \in Identities : link[i] = e

Attaching == {"link", "attach", "mark"}
Detaching == {"detach", "look", "unmark"}

\* Both attach an identity of one provider, or one attaches and one detaches.
Cross(q, o) ==
  /\ q.email = o.email
  /\ \/ /\ q.pc = "attach" /\ o.pc \in Attaching
        /\ ProviderOf[q.identity] = ProviderOf[o.identity]
     \/ q.pc = "attach" /\ o.pc \in Detaching
     \/ q.pc = "detach" /\ o.pc \in Attaching

\* An idle client's request begins; `mixed` records those that cross.
Starts(c, q) ==
  /\ client' = [client EXCEPT ![c] = q]
  /\ mixed' = IF \E d \in Clients : Cross(q, client[d]) THEN mixed \cup {q.email}
                ELSE mixed
  /\ UNCHANGED <<student, flag, link, deaths, halved>>

-----------------------------------------------------------------------------
(* Sign-up                                                                   *)

\* With a password: signUp, signUpV2.
SignUp(c, e, p) ==
  /\ ~Known(e, p)
  /\ Starts(c, [Away EXCEPT !.pc = "create", !.email = e, !.phone = p])

\* With an identity.
SignUpV3(c, i, p) ==
  /\ ~Known(EmailOf[i], p) /\ link[i] = Unset
  /\ Starts(c, [Away EXCEPT !.pc = "create", !.email = EmailOf[i], !.phone = p,
                           !.identity = i])

\* With an identity and the code that was sent to the phone, which is spent
\* before the identity is looked for: if it has an account by now, that signs in.
VerifyOtpAndSignup(c, i, p) ==
  /\ ~Known(EmailOf[i], p)
  /\ Starts(c, [Away EXCEPT !.pc = "spend", !.email = EmailOf[i], !.phone = p,
                           !.identity = i])

MakeOtpNull(c) ==
  /\ Is(c, "spend")
  /\ IF link[client[c].identity] = Unset THEN Moved(c, "create") ELSE End(c)
  /\ UNCHANGED <<student, flag, link, deaths, mixed, halved>>

\* E-mail and phone are unique: the create fails when one was taken since.
CreateStudent(c) ==
  LET q == client[c] IN
  /\ Is(c, "create")
  /\ IF Known(q.email, q.phone)
     THEN End(c) /\ UNCHANGED <<student, flag>>
     ELSE /\ student' = [student EXCEPT ![q.email] = q.phone]
          /\ flag' = [flag EXCEPT ![q.email] = q.identity # Unset]
          /\ IF q.identity = Unset THEN End(c) ELSE Moved(c, "link")
  /\ UNCHANGED <<link, deaths, mixed, halved>>

\* The provider's row; the identity may be another account's by now.
LinkStudent(c) ==
  LET q == client[c] IN
  /\ Is(c, "link") /\ End(c)
  /\ IF link[q.identity] = Unset
     THEN link' = [link EXCEPT ![q.identity] = q.email] /\ UNCHANGED halved
     ELSE halved' = halved \cup {q.email} /\ UNCHANGED link
  /\ UNCHANGED <<student, flag, deaths, mixed>>

-----------------------------------------------------------------------------
(* An identity for an account                                                *)

Attach(c, e, i, marks) ==
  /\ Exists(e) /\ LinksOf(e, ProviderOf[i]) = {}
  /\ Starts(c, [Away EXCEPT !.pc = "attach", !.email = e, !.identity = i,
                           !.marks = marks])

\* The account of the identity's e-mail, unless one has the identity.
ExistingAccountSocialLogin(c, i) ==
  link[i] = Unset /\ Attach(c, EmailOf[i], i, TRUE)

\* The account whose access token the client shows.
SyncStudentOauth(c, e, i) == Attach(c, e, i, TRUE)

\* The signed-in account, if nobody else has the identity or its e-mail;
\* isOAuthUser is set when it was not read as set.
LinkSocialAccount(c, e, i) ==
  /\ link[i] = Unset /\ (Exists(EmailOf[i]) => EmailOf[i] = e)
  /\ Attach(c, e, i, ~flag[e])

CreateProvider(c) ==
  LET q == client[c] IN
  /\ Is(c, "attach")
  /\ IF link[q.identity] = Unset
     THEN /\ link' = [link EXCEPT ![q.identity] = q.email]
          /\ IF q.marks THEN Moved(c, "mark") ELSE End(c)
     ELSE End(c) /\ UNCHANGED link
  /\ UNCHANGED <<student, flag, deaths, mixed, halved>>

\* Mutant: the flag is not written.
MarkOAuthUser_Skipped(c) ==
  /\ Is(c, "mark") /\ End(c)
  /\ UNCHANGED <<student, flag, link, deaths, mixed, halved>>

MarkOAuthUser(c) ==
  LET e == client[c].email IN
  /\ Is(c, "mark") /\ End(c)
  /\ flag' = [flag EXCEPT ![e] = TRUE]
  /\ halved' = IF Linked(e) THEN halved \ {e} ELSE halved
  /\ UNCHANGED <<student, link, deaths, mixed>>

-----------------------------------------------------------------------------
(* unlinkSocialAccount                                                       *)

UnlinkSocialAccount(c, e, i) ==
  /\ link[i] = e
  /\ Starts(c, [Away EXCEPT !.pc = "detach", !.email = e, !.identity = i])

\* The row is deleted by its id, which fails when it is gone.
DeleteProvider(c) ==
  LET q == client[c] IN
  /\ Is(c, "detach")
  /\ IF link[q.identity] = q.email
     THEN link' = [link EXCEPT ![q.identity] = Unset] /\ Moved(c, "look")
     ELSE End(c) /\ UNCHANGED link
  /\ UNCHANGED <<student, flag, deaths, mixed, halved>>

\* Mutant: the flag goes with the first identity.
OtherProviders_None(q) == {}

OtherProviders(q) == {i \in Identities : link[i] = q.email
                                         /\ ProviderOf[i] # ProviderOf[q.identity]}

GetAnotherOAuth(c) ==
  /\ Is(c, "look")
  /\ IF OtherProviders(client[c]) = {} THEN Moved(c, "unmark") ELSE End(c)
  /\ UNCHANGED <<student, flag, link, deaths, mixed, halved>>

UnmarkOAuthUser(c) ==
  LET e == client[c].email IN
  /\ Is(c, "unmark") /\ End(c)
  /\ flag' = [flag EXCEPT ![e] = FALSE]
  /\ halved' = IF Linked(e) THEN halved ELSE halved \ {e}
  /\ UNCHANGED <<student, link, deaths, mixed>>

-----------------------------------------------------------------------------
\* The process dies, or a query fails.
Die(c) ==
  /\ ~Is(c, "idle") /\ deaths < MaxDeaths /\ deaths' = deaths + 1
  /\ End(c)
  /\ halved' = IF client[c].pc \in {"link", "mark", "look", "unmark"}
             THEN halved \cup {client[c].email} ELSE halved
  /\ UNCHANGED <<student, flag, link, mixed>>

Arrives(c) ==
  \/ \E e \in Emails, p \in Phones : SignUp(c, e, p)
  \/ \E i \in Identities :
       \/ \E p \in Phones : SignUpV3(c, i, p) \/ VerifyOtpAndSignup(c, i, p)
       \/ ExistingAccountSocialLogin(c, i)
       \/ \E e \in Emails : \/ SyncStudentOauth(c, e, i) \/ LinkSocialAccount(c, e, i)
                            \/ UnlinkSocialAccount(c, e, i)

GoesOn(c) ==
  \/ MakeOtpNull(c) \/ CreateStudent(c) \/ LinkStudent(c)
  \/ CreateProvider(c) \/ MarkOAuthUser(c)
  \/ DeleteProvider(c) \/ GetAnotherOAuth(c) \/ UnmarkOAuthUser(c)
  \/ Die(c)

LinksNext == \E c \in Clients : (Is(c, "idle") /\ Arrives(c)) \/ GoesOn(c)

LinksSpec == LinksInit /\ [][LinksNext]_linkVars

-----------------------------------------------------------------------------
LinksTypeOK ==
  /\ student \in [Emails -> Phones \cup {Unset}]
  /\ flag \in [Emails -> BOOLEAN]
  /\ link \in [Identities -> Emails \cup {Unset}]
  /\ client \in [Clients -> Client]
  /\ deaths \in 0..MaxDeaths
  /\ mixed \subseteq Emails /\ halved \subseteq Emails

Unsettled(e) == \E c \in Clients : client[c].email = e
                                    /\ client[c].pc \in {"link", "mark", "look", "unmark"}

\* isOAuthUser and the provider rows of an account say the same, it has one row
\* per provider, and no row is without its account, however sign-ups, logins and
\* links interleave; but for requests between two writes, for those that died
\* there or lost their identity to another account, and for an account to which two
\* identities of a provider were attached at once, or one while one was detached.
LinksAgree ==
  /\ \A e \in Emails : Linked(e) => Exists(e)
  /\ \A e \in Emails \ (halved \cup mixed) :
       /\ Unsettled(e) \/ flag[e] = Linked(e)
       /\ \A i, j \in Identities :
            link[i] = e /\ link[j] = e /\ ProviderOf[i] = ProviderOf[j] => i = j
=============================================================================
