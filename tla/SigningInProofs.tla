-------------------------- MODULE SigningInProofs --------------------------
(***************************************************************************)
(* Proofs about social accounts (SocialLinks) and one-time codes           *)
(* (OneTimeCodes).                                                         *)
(***************************************************************************)
EXTENDS SocialLinks, OneTimeCodes, FiniteSetTheorems, WellFoundedInduction, TLAPS

-----------------------------------------------------------------------------
(* Social accounts                                                           *)

\* A request is about an account: one that is there, unless it will make it.
RequestInv ==
  \A c \in Clients :
    LET q == client[c] IN
    /\ q.pc # "idle" => q.email \in Emails
    /\ q.pc \in Attaching \cup Detaching => student[q.email] # Unset
    /\ q.pc \in Attaching \cup Detaching \cup {"spend"} => q.identity \in Identities
    /\ q.pc \in {"spend", "create"} => q.phone \in Phones

RowsInv == \A i \in Identities : link[i] # Unset => student[link[i]] # Unset

\* While no two requests have crossed: nobody attaches while another detaches, who
\* attaches finds the place of the provider empty, who marks has attached, who
\* looks has detached, who unmarks has found nothing, and who will not mark need not.
CrossInv ==
  \A c, d \in Clients :
    client[c].email = client[d].email /\ client[c].email \notin mixed =>
      /\ ~(client[c].pc \in Attaching /\ client[d].pc \in Detaching)
      /\ c # d /\ client[c].pc \in {"link", "attach"} /\ client[d].pc \in {"link", "attach"} =>
           ProviderOf[client[c].identity] # ProviderOf[client[d].identity]

StepInv ==
  \A c \in Clients :
    LET q == client[c] IN
    q.email \notin mixed =>
      /\ q.pc \in {"link", "attach", "look"} =>
           \A i \in Identities : link[i] = q.email => ProviderOf[i] # ProviderOf[q.identity]
      /\ q.pc = "mark" => link[q.identity] = q.email
      /\ q.pc = "unmark" => \A i \in Identities : link[i] # q.email
      /\ q.pc = "link" \/ (q.pc = "attach" /\ ~q.marks) => flag[q.email] = TRUE
      /\ q.pc \in Detaching /\ q.email \notin halved =>
           flag[q.email] = TRUE \/ \A i \in Identities : link[i] # q.email

\* One row per provider, whatever died.
SingleInv ==
  \A i, j \in Identities :
    link[i] # Unset /\ link[i] \notin mixed /\ link[i] = link[j] /\ ProviderOf[i] = ProviderOf[j]
      => i = j

FlagInv ==
  \A e \in Emails \ (halved \cup mixed) :
    \/ Unsettled(e)
    \/ flag[e] = TRUE /\ \E i \in Identities : link[i] = e
    \/ flag[e] = FALSE /\ \A i \in Identities : link[i] # e

LinksInv ==
  LinksTypeOK /\ RequestInv /\ RowsInv /\ CrossInv /\ StepInv /\ SingleInv /\ FlagInv

\* A request arrives.
LEMMA Arrival ==
  ASSUME LinksInv, NEW c \in Clients, NEW q \in Client, Starts(c, q), Is(c, "idle"),
         q.pc \in {"spend", "create", "attach", "detach"}, q.email \in Emails,
         q.pc \in {"attach", "detach"} => student[q.email] # Unset,
         q.pc \in {"attach", "detach", "spend"} => q.identity \in Identities,
         q.pc \in {"spend", "create"} => q.phone \in Phones,
         q.pc = "attach" => LinksOf(q.email, ProviderOf[q.identity]) = {},
         q.pc = "attach" /\ ~q.marks => flag[q.email] = TRUE,
         q.pc = "detach" => link[q.identity] = q.email
  PROVE  LinksInv'
<1>0. LinksTypeOK /\ RequestInv /\ RowsInv /\ CrossInv /\ StepInv /\ SingleInv /\ FlagInv
  BY DEF LinksInv
<1>1. /\ client' \in [Clients -> Client]
      /\ \A d \in Clients : client'[d] = IF d = c THEN q ELSE client[d]
  BY <1>0 DEF Starts, LinksTypeOK
<1>2. /\ mixed \subseteq mixed' /\ mixed' \subseteq Emails
      /\ UNCHANGED <<student, flag, link, deaths, halved>>
      /\ q.email \notin mixed' => \A d \in Clients : ~Cross(q, client[d])
  BY <1>0 DEF Starts, LinksTypeOK
<1>3. client[c].pc = "idle"
  BY DEF Is
<1>4. LinksTypeOK'
  BY <1>0, <1>1, <1>2 DEF LinksTypeOK
<1>5. RequestInv' /\ RowsInv' /\ SingleInv'
  BY <1>0, <1>1, <1>2 DEF RequestInv, RowsInv, SingleInv, Attaching, Detaching
<1>6. CrossInv'
  <2> SUFFICES ASSUME NEW x \in Clients, NEW y \in Clients,
                      client'[x].email = client'[y].email, client'[x].email \notin mixed'
               PROVE  /\ ~(client'[x].pc \in Attaching /\ client'[y].pc \in Detaching)
                      /\ x # y /\ client'[x].pc \in {"link", "attach"}
                         /\ client'[y].pc \in {"link", "attach"} =>
                           ProviderOf[client'[x].identity] # ProviderOf[client'[y].identity]
    BY DEF CrossInv
  <2>1. CASE x # c /\ y # c
    BY <1>0, <1>1, <1>2, <2>1 DEF CrossInv
  <2>2. CASE x = c /\ y = c
    BY <1>1, <2>2 DEF Attaching, Detaching
  <2>3. CASE x = c /\ y # c
    <3>1. ~Cross(q, client[y]) /\ q.email = client[y].email
      BY <1>1, <1>2, <2>3
    <3> QED
      BY <1>1, <2>3, <3>1 DEF Cross, Attaching, Detaching
  <2>4. CASE x # c /\ y = c
    <3>1. ~Cross(q, client[x]) /\ q.email = client[x].email
      BY <1>1, <1>2, <2>4
    <3> QED
      BY <1>1, <2>4, <3>1 DEF Cross, Attaching, Detaching
  <2> QED
    BY <2>1, <2>2, <2>3, <2>4
<1>7. q.pc = "detach" /\ q.email \notin mixed' \cup halved =>
        flag[q.email] = TRUE \/ \A i \in Identities : link[i] # q.email
  <2> SUFFICES ASSUME q.pc = "detach", q.email \notin mixed', q.email \notin halved
               PROVE  flag[q.email] = TRUE \/ \A i \in Identities : link[i] # q.email
    OBVIOUS
  <2>1. CASE Unsettled(q.email)
    <3>1. PICK d \in Clients : /\ client[d].email = q.email
                               /\ client[d].pc \in {"link", "mark", "look", "unmark"}
      BY <2>1 DEF Unsettled
    <3>2. client[d].pc \in Detaching
      BY <1>2, <3>1 DEF Cross, Attaching, Detaching
    <3> QED
      BY <1>0, <1>2, <3>1, <3>2 DEF StepInv
  <2>2. CASE ~Unsettled(q.email)
    BY <1>0, <1>2, <2>2 DEF FlagInv
  <2> QED
    BY <2>1, <2>2
<1>8. StepInv'
  <2> SUFFICES ASSUME NEW x \in Clients, client'[x].email \notin mixed'
               PROVE  LET u == client'[x] IN
                      /\ u.pc \in {"link", "attach", "look"} =>
                           \A i \in Identities : link[i] = u.email => ProviderOf[i] # ProviderOf[u.identity]
                      /\ u.pc = "mark" => link[u.identity] = u.email
                      /\ u.pc = "unmark" => \A i \in Identities : link[i] # u.email
                      /\ u.pc = "link" \/ (u.pc = "attach" /\ ~u.marks) => flag[u.email] = TRUE
                      /\ u.pc \in Detaching /\ u.email \notin halved =>
                           flag[u.email] = TRUE \/ \A i \in Identities : link[i] # u.email
    BY <1>2 DEF StepInv
  <2>1. CASE x # c
    BY <1>0, <1>1, <1>2, <2>1 DEF StepInv
  <2>2. CASE x = c
    <3>1. client'[x] = q
      BY <1>1, <2>2
    <3>2. q.pc = "attach" => \A i \in Identities : link[i] = q.email => ProviderOf[i] # ProviderOf[q.identity]
      BY DEF LinksOf
    <3> QED
      BY <1>7, <3>1, <3>2 DEF Detaching
  <2> QED
    BY <2>1, <2>2
<1>9. FlagInv'
  <2>1. \A e : Unsettled(e) => Unsettled(e)'
    BY <1>1, <1>3 DEF Unsettled
  <2> QED
    BY <1>0, <1>2, <2>1 DEF FlagInv
<1> QED
  BY <1>4, <1>5, <1>6, <1>8, <1>9 DEF LinksInv

LEMMA Arrivals ==
  ASSUME LinksInv, NEW c \in Clients, Is(c, "idle"), Arrives(c)
  PROVE  LinksInv'
<1>0. /\ LinksTypeOK /\ Unset \notin Emails \cup Phones \cup Identities
      /\ \A i \in Identities : EmailOf[i] \in Emails
  BY SocialLinksAssumption DEF LinksInv
<1>1. ASSUME NEW e \in Emails, NEW p \in Phones, SignUp(c, e, p)
      PROVE  LinksInv'
  <2> DEFINE q == [Away EXCEPT !.pc = "create", !.email = e, !.phone = p]
  <2>1. q \in Client /\ q.pc = "create" /\ q.email = e /\ q.phone = p
    BY DEF Away, Client
  <2>2. Starts(c, q)
    BY <1>1 DEF SignUp
  <2> HIDE DEF q
  <2> QED
    BY <2>1, <2>2, Arrival
<1>2. ASSUME NEW i \in Identities, NEW p \in Phones, SignUpV3(c, i, p)
      PROVE  LinksInv'
  <2> DEFINE e == EmailOf[i]
             q == [Away EXCEPT !.pc = "create", !.email = e, !.phone = p, !.identity = i]
  <2>1. Starts(c, q) /\ e \in Emails
    BY <1>0, <1>2 DEF SignUpV3
  <2> HIDE DEF e
  <2>2. q \in Client /\ q.pc = "create" /\ q.email = e /\ q.phone = p
    BY <2>1 DEF Away, Client
  <2> HIDE DEF q
  <2> QED
    BY <2>1, <2>2, Arrival
<1>3. ASSUME NEW i \in Identities, NEW p \in Phones, VerifyOtpAndSignup(c, i, p)
      PROVE  LinksInv'
  <2> DEFINE e == EmailOf[i]
             q == [Away EXCEPT !.pc = "spend", !.email = e, !.phone = p, !.identity = i]
  <2>1. Starts(c, q) /\ e \in Emails
    BY <1>0, <1>3 DEF VerifyOtpAndSignup
  <2> HIDE DEF e
  <2>2. q \in Client /\ q.pc = "spend" /\ q.email = e /\ q.phone = p /\ q.identity = i
    BY <2>1 DEF Away, Client
  <2> HIDE DEF q
  <2> QED
    BY <2>1, <2>2, Arrival
<1>4. ASSUME NEW e \in Emails, NEW i \in Identities, NEW m \in BOOLEAN, Attach(c, e, i, m),
             ~m => flag[e] = TRUE
      PROVE  LinksInv'
  <2> DEFINE q == [Away EXCEPT !.pc = "attach", !.email = e, !.identity = i, !.marks = m]
  <2>1. Starts(c, q) /\ student[e] # Unset /\ LinksOf(e, ProviderOf[i]) = {}
    BY <1>4 DEF Attach, Exists
  <2>2. q \in Client /\ q.pc = "attach" /\ q.email = e /\ q.identity = i /\ q.marks = m
    BY DEF Away, Client
  <2> HIDE DEF q
  <2> QED
    BY <1>4, <2>1, <2>2, Arrival
<1>5. ASSUME NEW i \in Identities, ExistingAccountSocialLogin(c, i)
      PROVE  LinksInv'
  <2> DEFINE e == EmailOf[i]
  <2>1. e \in Emails /\ Attach(c, e, i, TRUE)
    BY <1>0, <1>5 DEF ExistingAccountSocialLogin
  <2> HIDE DEF e
  <2> QED
    BY <1>4, <2>1
<1>6. ASSUME NEW e \in Emails, NEW i \in Identities, SyncStudentOauth(c, e, i)
      PROVE  LinksInv'
  BY <1>4, <1>6 DEF SyncStudentOauth
<1>7. ASSUME NEW e \in Emails, NEW i \in Identities, LinkSocialAccount(c, e, i)
      PROVE  LinksInv'
  <2> DEFINE m == ~flag[e]
  <2>1. Attach(c, e, i, m) /\ m \in BOOLEAN /\ (~m => flag[e] = TRUE)
    BY <1>0, <1>7 DEF LinkSocialAccount, LinksTypeOK
  <2> HIDE DEF m
  <2> QED
    BY <1>4, <2>1
<1>8. ASSUME NEW e \in Emails, NEW i \in Identities, UnlinkSocialAccount(c, e, i)
      PROVE  LinksInv'
  <2> DEFINE q == [Away EXCEPT !.pc = "detach", !.email = e, !.identity = i]
  <2>1. Starts(c, q) /\ link[i] = e
    BY <1>8 DEF UnlinkSocialAccount
  <2>2. q \in Client /\ q.pc = "detach" /\ q.email = e /\ q.identity = i
    BY DEF Away, Client
  <2>3. student[e] # Unset
    BY <1>0, <2>1 DEF LinksInv, RowsInv
  <2> HIDE DEF q
  <2> QED
    BY <2>1, <2>2, <2>3, Arrival
<1> QED
  BY <1>1, <1>2, <1>3, <1>5, <1>6, <1>7, <1>8 DEF Arrives

\* A request goes on as u, still about the same account and identity, or ends.
LEMMA CrossKept ==
  ASSUME LinksInv, NEW c \in Clients, NEW u, client' = [client EXCEPT ![c] = u], UNCHANGED mixed,
         u.pc = "idle" \/ /\ u.email = client[c].email /\ u.identity = client[c].identity
                          /\ u.pc \in Attaching => client[c].pc \in Attaching
                          /\ u.pc \in Detaching => client[c].pc \in Detaching
                          /\ u.pc \in {"link", "attach"} => client[c].pc \in {"link", "attach"}
  PROVE  CrossInv'
<1>1. CrossInv /\ \A d \in Clients : client'[d] = IF d = c THEN u ELSE client[d]
  BY DEF LinksInv, LinksTypeOK
<1> SUFFICES ASSUME NEW x \in Clients, NEW y \in Clients,
                    client'[x].email = client'[y].email, client'[x].email \notin mixed
             PROVE  /\ ~(client'[x].pc \in Attaching /\ client'[y].pc \in Detaching)
                    /\ x # y /\ client'[x].pc \in {"link", "attach"}
                       /\ client'[y].pc \in {"link", "attach"} =>
                         ProviderOf[client'[x].identity] # ProviderOf[client'[y].identity]
  BY DEF CrossInv
<1>2. CASE u.pc = "idle"
  <2>1. CASE x = c \/ y = c
    BY <1>1, <1>2, <2>1 DEF Attaching, Detaching
  <2>2. CASE x # c /\ y # c
    BY <1>1, <2>2 DEF CrossInv
  <2> QED
    BY <2>1, <2>2
<1>3. CASE u.pc # "idle"
  <2>1. \A z \in Clients :
          /\ client'[z].email = client[z].email /\ client'[z].identity = client[z].identity
          /\ client'[z].pc \in Attaching => client[z].pc \in Attaching
          /\ client'[z].pc \in Detaching => client[z].pc \in Detaching
          /\ client'[z].pc \in {"link", "attach"} => client[z].pc \in {"link", "attach"}
    BY <1>1, <1>3
  <2> QED
    BY <1>1, <2>1 DEF CrossInv
<1> QED
  BY <1>2, <1>3

\* A request ends and changes no row.
LEMMA Leaves ==
  ASSUME LinksInv, NEW c \in Clients, End(c), UNCHANGED <<student, flag, link, mixed>>,
         halved \subseteq halved', halved' \subseteq Emails, deaths' \in 0..MaxDeaths,
         LET e == client[c].email
         IN  client[c].pc \in {"link", "mark", "look", "unmark"} /\ e \notin halved' \cup mixed =>
               \/ flag[e] = TRUE /\ \E i \in Identities : link[i] = e
               \/ flag[e] = FALSE /\ \A i \in Identities : link[i] # e
  PROVE  LinksInv'
<1>0. LinksTypeOK /\ RequestInv /\ RowsInv /\ CrossInv /\ StepInv /\ SingleInv /\ FlagInv
  BY DEF LinksInv
<1>1. /\ Away \in Client /\ Away.pc = "idle"
      /\ client' = [client EXCEPT ![c] = Away]
  BY DEF Away, Client, End
<1>2. /\ client' \in [Clients -> Client]
      /\ \A d \in Clients : client'[d] = IF d = c THEN Away ELSE client[d]
  BY <1>0, <1>1 DEF LinksTypeOK
<1>3. LinksTypeOK'
  BY <1>0, <1>2 DEF LinksTypeOK
<1>4. RequestInv' /\ RowsInv' /\ SingleInv'
  BY <1>0, <1>1, <1>2 DEF RequestInv, RowsInv, SingleInv, Attaching, Detaching
<1>5. CrossInv'
  BY <1>1, CrossKept
<1>6. StepInv'
  BY <1>0, <1>1, <1>2 DEF StepInv, Detaching
<1>7. FlagInv'
  <2> SUFFICES ASSUME NEW e \in Emails, e \notin halved', e \notin mixed, ~Unsettled(e)'
               PROVE  \/ flag[e] = TRUE /\ \E i \in Identities : link[i] = e
                      \/ flag[e] = FALSE /\ \A i \in Identities : link[i] # e
    BY DEF FlagInv
  <2>1. CASE Unsettled(e)
    <3>1. client[c].email = e /\ client[c].pc \in {"link", "mark", "look", "unmark"}
      BY <1>2, <2>1 DEF Unsettled
    <3> QED
      BY <3>1
  <2>2. CASE ~Unsettled(e)
    BY <1>0, <2>2 DEF FlagInv
  <2> QED
    BY <2>1, <2>2
<1> QED
  BY <1>3, <1>4, <1>5, <1>6, <1>7 DEF LinksInv

\* An identity's row is made, for a new account or an old one.
LEMMA Links ==
  ASSUME LinksInv, NEW c \in Clients, NEW u \in Client, client' = [client EXCEPT ![c] = u],
         client[c].pc \in {"link", "attach"}, link[client[c].identity] = Unset,
         link' = [link EXCEPT ![client[c].identity] = client[c].email],
         UNCHANGED <<student, flag, deaths, mixed, halved>>,
         \/ u.pc = "mark" /\ u.email = client[c].email /\ u.identity = client[c].identity
         \/ u.pc = "idle" /\ (client[c].pc = "link" \/ ~client[c].marks)
  PROVE  LinksInv'
<1> DEFINE e == client[c].email
           k == client[c].identity
<1>0. /\ LinksTypeOK /\ RequestInv /\ RowsInv /\ CrossInv /\ StepInv /\ SingleInv /\ FlagInv
      /\ Unset \notin Emails
  BY SocialLinksAssumption DEF LinksInv
<1>1. /\ client' \in [Clients -> Client]
      /\ \A d \in Clients : client'[d] = IF d = c THEN u ELSE client[d]
  BY <1>0 DEF LinksTypeOK
<1>2. e \in Emails /\ k \in Identities /\ student[e] # Unset /\ link[k] = Unset
  BY <1>0 DEF RequestInv, Attaching
<1>3. link' \in [Identities -> Emails \cup {Unset}]
      /\ \A j \in Identities : link'[j] = IF j = k THEN e ELSE link[j]
  BY <1>0, <1>2 DEF LinksTypeOK
<1>4. LinksTypeOK'
  BY <1>0, <1>1, <1>3 DEF LinksTypeOK
<1>5. RequestInv' /\ RowsInv'
  BY <1>0, <1>1, <1>2, <1>3 DEF RequestInv, RowsInv, Attaching, Detaching
<1>6. CrossInv'
  BY CrossKept DEF Attaching, Detaching
<1>7. e \notin mixed =>
        /\ \A j \in Identities : link[j] = e => ProviderOf[j] # ProviderOf[k]
        /\ client[c].pc = "link" \/ ~client[c].marks => flag[e] = TRUE
        /\ \A x \in Clients : x # c /\ client[x].email = e =>
             /\ client[x].pc \notin Detaching
             /\ client[x].pc \in {"link", "attach"} => ProviderOf[client[x].identity] # ProviderOf[k]
  BY <1>0 DEF StepInv, CrossInv, Attaching
<1> HIDE DEF e, k
<1>8. SingleInv'
  <2> SUFFICES ASSUME NEW i \in Identities, NEW j \in Identities, link'[i] # Unset, link'[i] \notin mixed,
                      link'[i] = link'[j], ProviderOf[i] = ProviderOf[j]
               PROVE  i = j
    BY DEF SingleInv
  <2> QED
    BY <1>0, <1>2, <1>3, <1>7 DEF SingleInv
<1>9. StepInv'
  <2> SUFFICES ASSUME NEW x \in Clients, client'[x].email \notin mixed
               PROVE  LET q == client'[x] IN
                      /\ q.pc \in {"link", "attach", "look"} =>
                           \A i \in Identities : link'[i] = q.email => ProviderOf[i] # ProviderOf[q.identity]
                      /\ q.pc = "mark" => link'[q.identity] = q.email
                      /\ q.pc = "unmark" => \A i \in Identities : link'[i] # q.email
                      /\ q.pc = "link" \/ (q.pc = "attach" /\ ~q.marks) => flag[q.email] = TRUE
                      /\ q.pc \in Detaching /\ q.email \notin halved =>
                           flag[q.email] = TRUE \/ \A i \in Identities : link'[i] # q.email
    BY DEF StepInv
  <2>1. CASE x = c
    <3>1. client'[x] = u
      BY <1>1, <2>1
    <3>2. u.pc = "mark" => link'[u.identity] = u.email
      BY <1>2, <1>3 DEF e, k
    <3> QED
      BY <3>1, <3>2 DEF Detaching
  <2>2. CASE x # c /\ client[x].email = e
    <3>1. client'[x] = client[x] /\ client[x].pc \notin Detaching
      BY <1>1, <1>7, <2>2
    <3>2. client[x].pc = "mark" => client[x].identity # k /\ client[x].identity \in Identities
      BY <1>0, <1>2, <2>2, <3>1 DEF StepInv, RequestInv, Attaching
    <3> QED
      BY <1>0, <1>1, <1>3, <1>7, <2>2, <3>1, <3>2 DEF StepInv, Detaching
  <2>3. CASE x # c /\ client[x].email # e
    <3>1. client'[x] = client[x]
      BY <1>1, <2>3
    <3>2. CASE client[x].pc = "idle"
      BY <3>1, <3>2 DEF Detaching
    <3>3. CASE client[x].pc # "idle"
      <4>1. client[x].email \in Emails
        BY <1>0, <3>3 DEF RequestInv
      <4>2. \A j \in Identities : link'[j] = client[x].email <=> link[j] = client[x].email
        BY <1>0, <1>2, <1>3, <2>3, <4>1
      <4>3. client[x].pc = "mark" => client[x].identity \in Identities
        BY <1>0 DEF RequestInv, Attaching
      <4> QED
        BY <1>0, <3>1, <4>2, <4>3 DEF StepInv
    <3> QED
      BY <3>2, <3>3
  <2> QED
    BY <2>1, <2>2, <2>3
<1>10. FlagInv'
  <2> SUFFICES ASSUME NEW f \in Emails, f \notin halved, f \notin mixed
               PROVE  \/ Unsettled(f)'
                      \/ flag[f] = TRUE /\ \E i \in Identities : link'[i] = f
                      \/ flag[f] = FALSE /\ \A i \in Identities : link'[i] # f
    BY DEF FlagInv
  <2>1. CASE f = e /\ u.pc = "mark"
    BY <1>1, <2>1 DEF Unsettled, e
  <2>2. CASE f = e /\ u.pc = "idle"
    BY <1>2, <1>3, <1>7, <2>2
  <2>3. CASE f # e
    <3>1. \A j \in Identities : link'[j] = f <=> link[j] = f
      BY <1>0, <1>2, <1>3, <2>3
    <3>2. Unsettled(f) => Unsettled(f)'
      BY <1>1, <2>3 DEF Unsettled, e
    <3> QED
      BY <1>0, <3>1, <3>2 DEF FlagInv
  <2> QED
    BY <2>1, <2>2, <2>3
<1> QED
  BY <1>4, <1>5, <1>6, <1>8, <1>9, <1>10 DEF LinksInv

\* An identity's row is deleted.
LEMMA Detaches ==
  ASSUME LinksInv, NEW c \in Clients, NEW u \in Client, client' = [client EXCEPT ![c] = u],
         client[c].pc = "detach", link[client[c].identity] = client[c].email,
         link' = [link EXCEPT ![client[c].identity] = Unset],
         UNCHANGED <<student, flag, deaths, mixed, halved>>,
         u.pc = "look", u.email = client[c].email, u.identity = client[c].identity
  PROVE  LinksInv'
<1> DEFINE e == client[c].email
           k == client[c].identity
<1>0. /\ LinksTypeOK /\ RequestInv /\ RowsInv /\ CrossInv /\ StepInv /\ SingleInv /\ FlagInv
      /\ Unset \notin Emails
  BY SocialLinksAssumption DEF LinksInv
<1>1. /\ client' \in [Clients -> Client]
      /\ \A d \in Clients : client'[d] = IF d = c THEN u ELSE client[d]
  BY <1>0 DEF LinksTypeOK
<1>2. e \in Emails /\ k \in Identities /\ student[e] # Unset /\ link[k] = e
  BY <1>0 DEF RequestInv, Detaching
<1>3. link' \in [Identities -> Emails \cup {Unset}]
      /\ \A j \in Identities : link'[j] = IF j = k THEN Unset ELSE link[j]
  BY <1>0, <1>2 DEF LinksTypeOK
<1>4. LinksTypeOK'
  BY <1>0, <1>1, <1>3 DEF LinksTypeOK
<1>5. RequestInv' /\ RowsInv' /\ SingleInv'
  BY <1>0, <1>1, <1>2, <1>3 DEF RequestInv, RowsInv, SingleInv, Attaching, Detaching
<1>6. CrossInv'
  BY CrossKept DEF Attaching, Detaching
<1>7. e \notin mixed =>
        /\ \A j \in Identities : link[j] = e /\ ProviderOf[j] = ProviderOf[k] => j = k
        /\ e \notin halved => flag[e] = TRUE \/ \A j \in Identities : link[j] # e
        /\ \A x \in Clients : client[x].email = e => client[x].pc \notin Attaching
  BY <1>0, <1>2 DEF StepInv, SingleInv, CrossInv, Detaching
<1> HIDE DEF e, k
<1>8. StepInv'
  <2> SUFFICES ASSUME NEW x \in Clients, client'[x].email \notin mixed
               PROVE  LET q == client'[x] IN
                      /\ q.pc \in {"link", "attach", "look"} =>
                           \A i \in Identities : link'[i] = q.email => ProviderOf[i] # ProviderOf[q.identity]
                      /\ q.pc = "mark" => link'[q.identity] = q.email
                      /\ q.pc = "unmark" => \A i \in Identities : link'[i] # q.email
                      /\ q.pc = "link" \/ (q.pc = "attach" /\ ~q.marks) => flag[q.email] = TRUE
                      /\ q.pc \in Detaching /\ q.email \notin halved =>
                           flag[q.email] = TRUE \/ \A i \in Identities : link'[i] # q.email
    BY DEF StepInv
  <2>1. CASE x = c
    <3>1. client'[x] = u /\ u.email = e /\ u.identity = k /\ e \notin mixed
      BY <1>1, <2>1 DEF e, k
    <3>2. \A i \in Identities : link'[i] = e => link[i] = e /\ i # k
      BY <1>0, <1>2, <1>3
    <3> QED
      BY <1>7, <3>1, <3>2
  <2>2. CASE x # c /\ client[x].email = e
    <3>1. client'[x] = client[x] /\ client[x].pc \notin Attaching
      BY <1>1, <1>7, <2>2
    <3>2. \A i \in Identities : link'[i] = e => link[i] = e
      BY <1>0, <1>2, <1>3
    <3> QED
      BY <1>0, <2>2, <3>1, <3>2 DEF StepInv, Attaching
  <2>3. CASE x # c /\ client[x].email # e
    <3>1. client'[x] = client[x]
      BY <1>1, <2>3
    <3>2. CASE client[x].pc = "idle"
      BY <3>1, <3>2 DEF Detaching
    <3>3. CASE client[x].pc # "idle"
      <4>1. client[x].email \in Emails
        BY <1>0, <3>3 DEF RequestInv
      <4>2. \A j \in Identities : link'[j] = client[x].email <=> link[j] = client[x].email
        BY <1>0, <1>2, <1>3, <2>3, <4>1
      <4>3. client[x].pc = "mark" => client[x].identity \in Identities
        BY <1>0 DEF RequestInv, Attaching
      <4> QED
        BY <1>0, <3>1, <4>2, <4>3 DEF StepInv
    <3> QED
      BY <3>2, <3>3
  <2> QED
    BY <2>1, <2>2, <2>3
<1>9. FlagInv'
  <2> SUFFICES ASSUME NEW f \in Emails, f \notin halved, f \notin mixed
               PROVE  \/ Unsettled(f)'
                      \/ flag[f] = TRUE /\ \E i \in Identities : link'[i] = f
                      \/ flag[f] = FALSE /\ \A i \in Identities : link'[i] # f
    BY DEF FlagInv
  <2>1. CASE f = e
    BY <1>1, <2>1 DEF Unsettled, e
  <2>2. CASE f # e
    <3>1. \A j \in Identities : link'[j] = f <=> link[j] = f
      BY <1>0, <1>2, <1>3, <2>2
    <3>2. Unsettled(f) => Unsettled(f)'
      BY <1>1, <2>2 DEF Unsettled, e
    <3> QED
      BY <1>0, <3>1, <3>2 DEF FlagInv
  <2> QED
    BY <2>1, <2>2
<1> QED
  BY <1>4, <1>5, <1>6, <1>8, <1>9 DEF LinksInv

\* isOAuthUser is written last.
LEMMA Marks ==
  ASSUME LinksInv, NEW c \in Clients, End(c), NEW b \in BOOLEAN,
         client[c].pc = IF b THEN "mark" ELSE "unmark",
         flag' = [flag EXCEPT ![client[c].email] = b],
         halved' \subseteq halved, \A f \in halved : f # client[c].email => f \in halved',
         UNCHANGED <<student, link, deaths, mixed>>
  PROVE  LinksInv'
<1> DEFINE e == client[c].email
<1>0. /\ LinksTypeOK /\ RequestInv /\ RowsInv /\ CrossInv /\ StepInv /\ SingleInv /\ FlagInv
      /\ Unset \notin Emails
  BY SocialLinksAssumption DEF LinksInv
<1>1. /\ Away \in Client /\ Away.pc = "idle"
      /\ client' = [client EXCEPT ![c] = Away]
  BY DEF Away, Client, End
<1>2. /\ client' \in [Clients -> Client]
      /\ \A d \in Clients : client'[d] = IF d = c THEN Away ELSE client[d]
  BY <1>0, <1>1 DEF LinksTypeOK
<1>3. e \in Emails
  BY <1>0 DEF RequestInv
<1>4. flag' \in [Emails -> BOOLEAN] /\ \A f \in Emails : flag'[f] = IF f = e THEN b ELSE flag[f]
  BY <1>0, <1>3 DEF LinksTypeOK
<1>5. LinksTypeOK'
  BY <1>0, <1>2, <1>4 DEF LinksTypeOK
<1>6. RequestInv' /\ RowsInv' /\ SingleInv'
  BY <1>0, <1>1, <1>2 DEF RequestInv, RowsInv, SingleInv, Attaching, Detaching
<1>7. CrossInv'
  BY <1>1, CrossKept
<1>8. e \notin mixed =>
        /\ b => \E i \in Identities : link[i] = e
        /\ ~b => \A i \in Identities : link[i] # e
        /\ \A x \in Clients : x # c /\ client[x].email = e =>
             /\ b => client[x].pc \notin Detaching
             /\ ~b => client[x].pc \notin Attaching
  BY <1>0 DEF StepInv, CrossInv, RequestInv, Attaching, Detaching
<1> HIDE DEF e
<1>9. StepInv'
  <2> SUFFICES ASSUME NEW x \in Clients, client'[x].email \notin mixed
               PROVE  LET q == client'[x] IN
                      /\ q.pc \in {"link", "attach", "look"} =>
                           \A i \in Identities : link[i] = q.email => ProviderOf[i] # ProviderOf[q.identity]
                      /\ q.pc = "mark" => link[q.identity] = q.email
                      /\ q.pc = "unmark" => \A i \in Identities : link[i] # q.email
                      /\ q.pc = "link" \/ (q.pc = "attach" /\ ~q.marks) => flag'[q.email] = TRUE
                      /\ q.pc \in Detaching /\ q.email \notin halved' =>
                           flag'[q.email] = TRUE \/ \A i \in Identities : link[i] # q.email
    BY DEF StepInv
  <2>1. CASE x = c
    BY <1>1, <1>2, <2>1 DEF Detaching
  <2>2. CASE x # c /\ client[x].email = e
    <3>1. client'[x] = client[x]
      BY <1>2, <2>2
    <3> QED
      BY <1>0, <1>3, <1>4, <1>8, <2>2, <3>1 DEF StepInv, Attaching
  <2>3. CASE x # c /\ client[x].email # e
    <3>1. client'[x] = client[x]
      BY <1>2, <2>3
    <3>2. CASE client[x].pc = "idle"
      BY <3>1, <3>2 DEF Detaching
    <3>3. CASE client[x].pc # "idle"
      <4>1. client[x].email \in Emails /\ flag'[client[x].email] = flag[client[x].email]
        BY <1>0, <1>4, <2>3, <3>3 DEF RequestInv
      <4>2. client[x].email \notin halved' => client[x].email \notin halved
        BY <2>3 DEF e
      <4> QED
        BY <1>0, <3>1, <4>1, <4>2 DEF StepInv
    <3> QED
      BY <3>2, <3>3
  <2> QED
    BY <2>1, <2>2, <2>3
<1>10. FlagInv'
  <2> SUFFICES ASSUME NEW f \in Emails, f \notin halved', f \notin mixed
               PROVE  \/ Unsettled(f)'
                      \/ flag'[f] = TRUE /\ \E i \in Identities : link[i] = f
                      \/ flag'[f] = FALSE /\ \A i \in Identities : link[i] # f
    BY DEF FlagInv
  <2>1. CASE f = e
    BY <1>3, <1>4, <1>8, <2>1
  <2>2. CASE f # e
    <3>1. f \notin halved /\ flag'[f] = flag[f]
      BY <1>4, <2>2 DEF e
    <3>2. Unsettled(f) => Unsettled(f)'
      BY <1>2, <2>2 DEF Unsettled, e
    <3> QED
      BY <1>0, <3>1, <3>2 DEF FlagInv
  <2> QED
    BY <2>1, <2>2
<1> QED
  BY <1>5, <1>6, <1>7, <1>9, <1>10 DEF LinksInv

\* A request goes on and changes no row: it will create, or it will unmark.
LEMMA Looks ==
  ASSUME LinksInv, NEW c \in Clients, NEW u \in Client, client' = [client EXCEPT ![c] = u],
         UNCHANGED <<student, flag, link, deaths, mixed, halved>>,
         u.email = client[c].email, u.identity = client[c].identity, u.phone = client[c].phone,
         \/ client[c].pc = "spend" /\ u.pc = "create"
         \/ /\ client[c].pc = "look" /\ u.pc = "unmark"
            /\ client[c].email \notin mixed => \A i \in Identities : link[i] # client[c].email
  PROVE  LinksInv'
<1>0. LinksTypeOK /\ RequestInv /\ RowsInv /\ CrossInv /\ StepInv /\ SingleInv /\ FlagInv
  BY DEF LinksInv
<1>1. /\ client' \in [Clients -> Client]
      /\ \A d \in Clients : client'[d] = IF d = c THEN u ELSE client[d]
  BY <1>0 DEF LinksTypeOK
<1>2. LinksTypeOK'
  BY <1>0, <1>1 DEF LinksTypeOK
<1>3. RequestInv' /\ RowsInv' /\ SingleInv'
  BY <1>0, <1>1 DEF RequestInv, RowsInv, SingleInv, Attaching, Detaching
<1>4. CrossInv'
  BY CrossKept DEF Attaching, Detaching
<1>5. StepInv'
  BY <1>0, <1>1 DEF StepInv, Detaching
<1>6. \A f : Unsettled(f) => Unsettled(f)'
  BY <1>1 DEF Unsettled
<1>7. FlagInv'
  BY <1>0, <1>6 DEF FlagInv
<1> QED
  BY <1>2, <1>3, <1>4, <1>5, <1>7 DEF LinksInv

\* An account is made; who is already about it, will fail.
LEMMA Creates ==
  ASSUME LinksInv, NEW c \in Clients, NEW u \in Client, client' = [client EXCEPT ![c] = u],
         client[c].pc = "create", student[client[c].email] = Unset,
         student' = [student EXCEPT ![client[c].email] = client[c].phone],
         flag' = [flag EXCEPT ![client[c].email] = client[c].identity # Unset],
         UNCHANGED <<link, deaths, mixed, halved>>,
         \/ client[c].identity = Unset /\ u.pc = "idle"
         \/ /\ client[c].identity # Unset /\ u.pc = "link"
            /\ u.email = client[c].email /\ u.identity = client[c].identity
  PROVE  LinksInv'
<1> DEFINE e == client[c].email
           k == client[c].identity
           b == k # Unset
<1>0. /\ LinksTypeOK /\ RequestInv /\ RowsInv /\ CrossInv /\ StepInv /\ SingleInv /\ FlagInv
      /\ Unset \notin Emails \cup Phones \cup Identities
  BY SocialLinksAssumption DEF LinksInv
<1>1. /\ client' \in [Clients -> Client]
      /\ \A d \in Clients : client'[d] = IF d = c THEN u ELSE client[d]
  BY <1>0 DEF LinksTypeOK
<1>2. /\ e \in Emails /\ client[c].phone \in Phones /\ k \in Identities \cup {Unset}
      /\ b \in BOOLEAN
  BY <1>0 DEF RequestInv, LinksTypeOK, Client
<1>3. /\ student' \in [Emails -> Phones \cup {Unset}] /\ student'[e] # Unset
      /\ \A f \in Emails : f # e => student'[f] = student[f]
  BY <1>0, <1>2 DEF LinksTypeOK
<1>4. flag' \in [Emails -> BOOLEAN] /\ \A f \in Emails : flag'[f] = IF f = e THEN b ELSE flag[f]
  BY <1>0, <1>2 DEF LinksTypeOK
<1>5. LinksTypeOK'
  BY <1>0, <1>1, <1>3, <1>4 DEF LinksTypeOK
<1>6. \A x \in Clients : client[x].email = e => client[x].pc \notin Attaching \cup Detaching
  BY <1>0 DEF RequestInv
<1>7. \A i \in Identities : link[i] # e
  BY <1>0, <1>2 DEF RowsInv
<1>8. \/ u.pc = "idle" /\ b = FALSE
      \/ u.pc = "link" /\ u.email = e /\ u.identity = k /\ k \in Identities /\ b = TRUE
  BY <1>2
<1> HIDE DEF e, k, b
<1>9. RequestInv'
  <2> SUFFICES ASSUME NEW x \in Clients
               PROVE  LET q == client'[x] IN
                      /\ q.pc # "idle" => q.email \in Emails
                      /\ q.pc \in Attaching \cup Detaching => student'[q.email] # Unset
                      /\ q.pc \in Attaching \cup Detaching \cup {"spend"} => q.identity \in Identities
                      /\ q.pc \in {"spend", "create"} => q.phone \in Phones
    BY DEF RequestInv
  <2>1. CASE x = c
    BY <1>1, <1>2, <1>3, <1>8, <2>1 DEF Attaching, Detaching
  <2>2. CASE x # c
    <3>1. client'[x] = client[x]
      BY <1>1, <2>2
    <3>2. client[x].pc \in Attaching \cup Detaching => client[x].email # e /\ client[x].email \in Emails
      BY <1>0, <1>6 DEF RequestInv, Attaching, Detaching
    <3> QED
      BY <1>0, <1>3, <3>1, <3>2 DEF RequestInv
  <2> QED
    BY <2>1, <2>2
<1>10. RowsInv' /\ SingleInv'
  BY <1>0, <1>3 DEF RowsInv, SingleInv, LinksTypeOK
<1>11. CrossInv'
  <2> SUFFICES ASSUME NEW x \in Clients, NEW y \in Clients,
                      client'[x].email = client'[y].email, client'[x].email \notin mixed
               PROVE  /\ ~(client'[x].pc \in Attaching /\ client'[y].pc \in Detaching)
                      /\ x # y /\ client'[x].pc \in {"link", "attach"}
                         /\ client'[y].pc \in {"link", "attach"} =>
                           ProviderOf[client'[x].identity] # ProviderOf[client'[y].identity]
    BY DEF CrossInv
  <2>1. CASE x # c /\ y # c
    BY <1>0, <1>1, <2>1 DEF CrossInv
  <2>2. CASE (x = c \/ y = c) /\ u.pc = "idle"
    BY <1>1, <2>2 DEF Attaching, Detaching
  <2>3. CASE (x = c \/ y = c) /\ u.pc = "link"
    <3>1. \A z \in Clients : z # c /\ client[z].email = e => client'[z].pc \notin Attaching \cup Detaching
      BY <1>1, <1>6
    <3> QED
      BY <1>1, <1>8, <2>3, <3>1 DEF Attaching, Detaching
  <2> QED
    BY <1>8, <2>1, <2>2, <2>3
<1>12. StepInv'
  <2> SUFFICES ASSUME NEW x \in Clients, client'[x].email \notin mixed'
               PROVE  LET q == client'[x] IN
                      /\ q.pc \in {"link", "attach", "look"} =>
                           \A i \in Identities : link'[i] = q.email => ProviderOf[i] # ProviderOf[q.identity]
                      /\ q.pc = "mark" => link'[q.identity] = q.email
                      /\ q.pc = "unmark" => \A i \in Identities : link'[i] # q.email
                      /\ q.pc = "link" \/ (q.pc = "attach" /\ ~q.marks) => flag'[q.email] = TRUE
                      /\ q.pc \in Detaching /\ q.email \notin halved' =>
                           flag'[q.email] = TRUE \/ \A i \in Identities : link'[i] # q.email
    BY DEF StepInv
  <2>1. CASE x = c
    BY <1>1, <1>2, <1>4, <1>7, <1>8, <2>1 DEF Detaching
  <2>2. CASE x # c
    <3>1. client'[x] = client[x]
      BY <1>1, <2>2
    <3>2. CASE client[x].pc \in Attaching \cup Detaching
      <4>1. client[x].email \in Emails /\ flag'[client[x].email] = flag[client[x].email]
        BY <1>0, <1>4, <1>6, <3>2 DEF RequestInv, Attaching, Detaching
      <4> QED
        BY <1>0, <3>1, <4>1 DEF StepInv
    <3>3. CASE client[x].pc \notin Attaching \cup Detaching
      BY <3>1, <3>3 DEF Attaching, Detaching
    <3> QED
      BY <3>2, <3>3
  <2> QED
    BY <2>1, <2>2
<1>13. FlagInv'
  <2> SUFFICES ASSUME NEW f \in Emails, f \notin halved, f \notin mixed
               PROVE  \/ Unsettled(f)'
                      \/ flag'[f] = TRUE /\ \E i \in Identities : link[i] = f
                      \/ flag'[f] = FALSE /\ \A i \in Identities : link[i] # f
    BY DEF FlagInv
  <2>1. CASE f = e
    BY <1>1, <1>4, <1>7, <1>8, <2>1 DEF Unsettled
  <2>2. CASE f # e
    <3>1. Unsettled(f) => Unsettled(f)'
      BY <1>1, <2>2 DEF Unsettled, e
    <3> QED
      BY <1>0, <1>4, <2>2, <3>1 DEF FlagInv
  <2> QED
    BY <2>1, <2>2
<1> QED
  BY <1>5, <1>9, <1>10, <1>11, <1>12, <1>13 DEF LinksInv

LEMMA GoingOn ==
  ASSUME LinksInv, NEW c \in Clients, GoesOn(c)
  PROVE  LinksInv'
<1>0. /\ LinksTypeOK /\ RequestInv /\ RowsInv /\ CrossInv /\ StepInv /\ SingleInv /\ FlagInv
      /\ client[c] \in Client /\ halved \subseteq Emails /\ deaths \in 0..MaxDeaths
      /\ MaxDeaths \in Nat
  BY SocialLinksAssumption DEF LinksInv, LinksTypeOK
<1>1. CASE MakeOtpNull(c)
  <2>1. /\ client[c].pc = "spend"
        /\ UNCHANGED <<student, flag, link, deaths, mixed, halved>>
        /\ Moved(c, "create") \/ End(c)
    BY <1>1 DEF MakeOtpNull, Is
  <2>2. CASE End(c)
    BY <1>0, <2>1, <2>2, Leaves
  <2>3. CASE Moved(c, "create")
    <3> DEFINE u == [client[c] EXCEPT !.pc = "create"]
    <3>1. /\ u \in Client /\ u.pc = "create" /\ u.email = client[c].email
          /\ u.identity = client[c].identity /\ u.phone = client[c].phone
      BY <1>0 DEF Client
    <3>2. client' = [client EXCEPT ![c] = u]
      BY <2>3 DEF Moved
    <3> HIDE DEF u
    <3> QED
      BY <2>1, <3>1, <3>2, Looks
  <2> QED
    BY <2>1, <2>2, <2>3
<1>2. CASE CreateStudent(c)
  <2> DEFINE q == client[c]
  <2>1. q.pc = "create" /\ UNCHANGED <<link, deaths, mixed, halved>>
    BY <1>2 DEF CreateStudent, Is
  <2>2. CASE Known(q.email, q.phone)
    <3>1. End(c) /\ UNCHANGED <<student, flag>>
      BY <1>2, <2>2 DEF CreateStudent
    <3> QED
      BY <1>0, <2>1, <3>1, Leaves
  <2>3. CASE ~Known(q.email, q.phone)
    <3>1. /\ student[q.email] = Unset
          /\ student' = [student EXCEPT ![q.email] = q.phone]
          /\ flag' = [flag EXCEPT ![q.email] = q.identity # Unset]
          /\ IF q.identity = Unset THEN End(c) ELSE Moved(c, "link")
      BY <1>2, <2>3 DEF CreateStudent, Known, Exists
    <3>2. CASE q.identity = Unset
      <4>1. Away \in Client /\ Away.pc = "idle" /\ client' = [client EXCEPT ![c] = Away]
        BY <3>1, <3>2 DEF Away, Client, End
      <4> QED
        BY <2>1, <3>1, <3>2, <4>1, Creates
    <3>3. CASE q.identity # Unset
      <4> DEFINE u == [q EXCEPT !.pc = "link"]
      <4>1. u \in Client /\ u.pc = "link" /\ u.email = q.email /\ u.identity = q.identity
        BY <1>0 DEF Client
      <4>2. client' = [client EXCEPT ![c] = u]
        BY <3>1, <3>3 DEF Moved
      <4> HIDE DEF u
      <4> QED
        BY <2>1, <3>1, <3>3, <4>1, <4>2, Creates
    <3> QED
      BY <3>2, <3>3
  <2> QED
    BY <2>2, <2>3
<1>3. CASE LinkStudent(c)
  <2>1. client[c].pc = "link" /\ End(c) /\ UNCHANGED <<student, flag, deaths, mixed>>
    BY <1>3 DEF LinkStudent, Is
  <2>2. CASE link[client[c].identity] = Unset
    <3>1. /\ link' = [link EXCEPT ![client[c].identity] = client[c].email] /\ UNCHANGED halved
          /\ client' = [client EXCEPT ![c] = Away] /\ Away \in Client /\ Away.pc = "idle"
      BY <1>3, <2>1, <2>2 DEF LinkStudent, End, Away, Client
    <3> QED
      BY <2>1, <2>2, <3>1, Links
  <2>3. CASE link[client[c].identity] # Unset
    <3>1. halved' = halved \cup {client[c].email} /\ UNCHANGED link
      BY <1>3, <2>3 DEF LinkStudent
    <3>2. client[c].email \in Emails
      BY <1>0, <2>1 DEF RequestInv
    <3> QED
      BY <1>0, <2>1, <3>1, <3>2, Leaves
  <2> QED
    BY <2>2, <2>3
<1>4. CASE CreateProvider(c)
  <2>1. client[c].pc = "attach" /\ UNCHANGED <<student, flag, deaths, mixed, halved>>
    BY <1>4 DEF CreateProvider, Is
  <2>2. CASE link[client[c].identity] # Unset
    <3>1. End(c) /\ UNCHANGED link
      BY <1>4, <2>2 DEF CreateProvider
    <3> QED
      BY <1>0, <2>1, <3>1, Leaves
  <2>3. CASE link[client[c].identity] = Unset
    <3>1. /\ link' = [link EXCEPT ![client[c].identity] = client[c].email]
          /\ IF client[c].marks THEN Moved(c, "mark") ELSE End(c)
      BY <1>4, <2>3 DEF CreateProvider
    <3>2. CASE client[c].marks
      <4> DEFINE u == [client[c] EXCEPT !.pc = "mark"]
      <4>1. /\ u \in Client /\ u.pc = "mark" /\ u.email = client[c].email
            /\ u.identity = client[c].identity
        BY <1>0 DEF Client
      <4>2. client' = [client EXCEPT ![c] = u]
        BY <3>1, <3>2 DEF Moved
      <4> HIDE DEF u
      <4> QED
        BY <2>1, <2>3, <3>1, <4>1, <4>2, Links
    <3>3. CASE ~client[c].marks
      <4>1. client' = [client EXCEPT ![c] = Away] /\ Away \in Client /\ Away.pc = "idle"
        BY <3>1, <3>3 DEF End, Away, Client
      <4> QED
        BY <2>1, <2>3, <3>1, <3>3, <4>1, Links
    <3> QED
      BY <3>2, <3>3
  <2> QED
    BY <2>2, <2>3
<1>5. CASE MarkOAuthUser(c)
  <2>1. /\ client[c].pc = "mark" /\ End(c) /\ flag' = [flag EXCEPT ![client[c].email] = TRUE]
        /\ halved' \in {halved \ {client[c].email}, halved}
        /\ UNCHANGED <<student, link, deaths, mixed>>
    BY <1>5 DEF MarkOAuthUser, Is
  <2> QED
    BY <2>1, Marks
<1>6. CASE DeleteProvider(c)
  <2>1. client[c].pc = "detach" /\ UNCHANGED <<student, flag, deaths, mixed, halved>>
    BY <1>6 DEF DeleteProvider, Is
  <2>2. CASE link[client[c].identity] # client[c].email
    <3>1. End(c) /\ UNCHANGED link
      BY <1>6, <2>2 DEF DeleteProvider
    <3> QED
      BY <1>0, <2>1, <3>1, Leaves
  <2>3. CASE link[client[c].identity] = client[c].email
    <3> DEFINE u == [client[c] EXCEPT !.pc = "look"]
    <3>1. /\ link' = [link EXCEPT ![client[c].identity] = Unset]
          /\ client' = [client EXCEPT ![c] = u]
      BY <1>6, <2>3 DEF DeleteProvider, Moved
    <3>2. /\ u \in Client /\ u.pc = "look" /\ u.email = client[c].email
          /\ u.identity = client[c].identity
      BY <1>0 DEF Client
    <3> HIDE DEF u
    <3> QED
      BY <2>1, <2>3, <3>1, <3>2, Detaches
  <2> QED
    BY <2>2, <2>3
<1>7. CASE GetAnotherOAuth(c)
  <2>1. client[c].pc = "look" /\ UNCHANGED <<student, flag, link, deaths, mixed, halved>>
    BY <1>7 DEF GetAnotherOAuth, Is
  <2>2. CASE OtherProviders(client[c]) # {}
    <3>1. End(c)
      BY <1>7, <2>2 DEF GetAnotherOAuth
    <3>2. \E i \in Identities : link[i] = client[c].email
      BY <2>2 DEF OtherProviders
    <3>3. client[c].email \notin halved \cup mixed => flag[client[c].email] = TRUE
      BY <1>0, <2>1, <3>2 DEF StepInv, Detaching
    <3> QED
      BY <1>0, <2>1, <3>1, <3>2, <3>3, Leaves
  <2>3. CASE OtherProviders(client[c]) = {}
    <3> DEFINE u == [client[c] EXCEPT !.pc = "unmark"]
    <3>1. client' = [client EXCEPT ![c] = u]
      BY <1>7, <2>3 DEF GetAnotherOAuth, Moved
    <3>2. /\ u \in Client /\ u.pc = "unmark" /\ u.email = client[c].email
          /\ u.identity = client[c].identity /\ u.phone = client[c].phone
      BY <1>0 DEF Client
    <3>3. client[c].email \notin mixed => \A i \in Identities : link[i] # client[c].email
      BY <1>0, <2>1, <2>3 DEF StepInv, OtherProviders
    <3> HIDE DEF u
    <3> QED
      BY <2>1, <3>1, <3>2, <3>3, Looks
  <2> QED
    BY <2>2, <2>3
<1>8. CASE UnmarkOAuthUser(c)
  <2>1. /\ client[c].pc = "unmark" /\ End(c) /\ flag' = [flag EXCEPT ![client[c].email] = FALSE]
        /\ halved' \in {halved \ {client[c].email}, halved}
        /\ UNCHANGED <<student, link, deaths, mixed>>
    BY <1>8 DEF UnmarkOAuthUser, Is
  <2> QED
    BY <2>1, Marks
<1>9. CASE Die(c)
  <2>1. /\ client[c].pc # "idle" /\ End(c) /\ deaths' = deaths + 1 /\ deaths < MaxDeaths
        /\ UNCHANGED <<student, flag, link, mixed>>
        /\ halved' = IF client[c].pc \in {"link", "mark", "look", "unmark"}
                     THEN halved \cup {client[c].email} ELSE halved
    BY <1>9 DEF Die, Is
  <2>2. deaths' \in 0..MaxDeaths
    BY <1>0, <2>1
  <2>3. client[c].email \in Emails
    BY <1>0, <2>1 DEF RequestInv
  <2> QED
    BY <1>0, <2>1, <2>2, <2>3, Leaves
<1> QED
  BY <1>1, <1>2, <1>3, <1>4, <1>5, <1>6, <1>7, <1>8, <1>9 DEF GoesOn

\* The invariant holds in every state.
LEMMA LinksAlways == LinksSpec => []LinksInv
<1>1. LinksInit => LinksInv
  <2> SUFFICES ASSUME LinksInit PROVE LinksInv
    OBVIOUS
  <2>1. Away \in Client /\ Away.pc = "idle"
    BY DEF Away, Client
  <2>2. MaxDeaths \in Nat /\ Unset \notin Emails
    BY SocialLinksAssumption
  <2>3. LinksTypeOK
    BY <2>1, <2>2 DEF LinksInit, LinksTypeOK
  <2> QED
    BY <2>1, <2>2, <2>3 DEF LinksInit, LinksInv, RequestInv, RowsInv, CrossInv, StepInv, SingleInv,
                            FlagInv, Attaching, Detaching
<1>2. LinksInv /\ [LinksNext]_linkVars => LinksInv'
  <2> SUFFICES ASSUME LinksInv, [LinksNext]_linkVars PROVE LinksInv'
    OBVIOUS
  <2>1. ASSUME NEW c \in Clients, Is(c, "idle"), Arrives(c) PROVE LinksInv'
    BY <2>1, Arrivals
  <2>2. ASSUME NEW c \in Clients, GoesOn(c) PROVE LinksInv'
    BY <2>2, GoingOn
  <2>3. CASE UNCHANGED linkVars
    <3>1. UNCHANGED <<student, flag, link, client, deaths, mixed, halved>>
      BY <2>3 DEF linkVars
    <3> QED
      BY <3>1 DEF LinksInv, LinksTypeOK, RequestInv, RowsInv, CrossInv, StepInv, SingleInv,
                  FlagInv, Unsettled
  <2> QED
    BY <2>1, <2>2, <2>3 DEF LinksNext
<1> QED
  BY <1>1, <1>2, PTL DEF LinksSpec

\* Every variable of the accounts and the requests about them keeps its type.
THEOREM AccountsTyped == LinksSpec => []LinksTypeOK
<1>1. LinksInv => LinksTypeOK
  BY DEF LinksInv
<1> QED
  BY <1>1, LinksAlways, PTL

\* isOAuthUser says what the provider rows say, an account has one row per provider
\* and no row is without its account: for any number of sign-ups, log-ins, links and
\* unlinks in flight, but for those that LinksAgree names.
THEOREM AccountsAgree == LinksSpec => []LinksAgree
<1>1. LinksInv => LinksAgree
  <2> SUFFICES ASSUME LinksInv PROVE LinksAgree
    OBVIOUS
  <2>1. LinksTypeOK /\ RowsInv /\ SingleInv /\ FlagInv /\ Unset \notin Emails
    BY SocialLinksAssumption DEF LinksInv
  <2>2. \A e \in Emails : Linked(e) => Exists(e)
    BY <2>1 DEF Linked, Exists, RowsInv
  <2>3. \A e \in Emails \ (halved \cup mixed) : Unsettled(e) \/ flag[e] = Linked(e)
    <3> SUFFICES ASSUME NEW e \in Emails \ (halved \cup mixed), ~Unsettled(e)
                 PROVE  flag[e] = Linked(e)
      OBVIOUS
    <3>1. CASE flag[e] = TRUE /\ \E i \in Identities : link[i] = e
      BY <3>1 DEF Linked
    <3>2. CASE flag[e] = FALSE /\ \A i \in Identities : link[i] # e
      BY <3>2 DEF Linked
    <3> QED
      BY <2>1, <3>1, <3>2 DEF FlagInv
  <2>4. \A e \in Emails \ mixed, i, j \in Identities :
          link[i] = e /\ link[j] = e /\ ProviderOf[i] = ProviderOf[j] => i = j
    BY <2>1 DEF SingleInv
  <2> QED
    BY <2>2, <2>3, <2>4 DEF LinksAgree
<1> QED
  BY <1>1, LinksAlways, PTL

-----------------------------------------------------------------------------
(* One-time codes                                                            *)

Storing == {c \in Callers : At(c, "store")}

\* Every row that was made took a code that was sent.
RowCountInv == made + Cardinality(Storing) <= sends

\* Codes come from messages, and rows that are not there hold none.
SourceInv ==
  /\ \A c \in Callers : /\ At(c, "store") \/ At(c, "spend") => caller[c].code \in 1..sends
                        /\ At(c, "spend") => caller[c].row \in Records
                        /\ InAsk(c) /\ caller[c].row \in Texts => caller[c].row <= made
                        /\ InAsk(c) /\ caller[c].row = Guest => guest # "none"
  /\ \A i \in Records : attempt[i].code <= sends
  /\ \A i \in Texts : i > made => attempt[i].code = NoCode
  /\ guest = "none" => attempt[Guest].code = NoCode
  /\ \A k \in Texts : k > sends => used[k] = 0

\* A code is in one place: on its way to a record, or in one record.
PlaceInv ==
  /\ \A c, d \in Callers : At(c, "store") /\ At(d, "store") /\ caller[c].code = caller[d].code => c = d
  /\ \A c \in Callers, i \in Records : At(c, "store") => attempt[i].code # caller[c].code
  /\ \A i, j \in Records : attempt[i].code # NoCode /\ attempt[i].code = attempt[j].code => i = j

\* A request that has read a code will clear the record that holds it; a code that
\* was used is nowhere, and who still has it, read it before.
SpentInv ==
  /\ \A c, d \in Callers : At(c, "spend") /\ At(d, "store") => caller[c].code # caller[d].code
  /\ \A c \in Callers, i \in Records :
       At(c, "spend") /\ attempt[i].code = caller[c].code => i = caller[c].row
  /\ \A c, d \in Callers :
       At(c, "spend") /\ At(d, "spend") /\ caller[c].code = caller[d].code
         => c = d \/ caller[c].code \in doubled
  /\ \A k \in Texts : used[k] # 0 =>
       /\ \A c \in Callers : At(c, "store") => caller[c].code # k
       /\ \A i \in Records : attempt[i].code # k
       /\ \A c \in Callers : At(c, "spend") /\ caller[c].code = k => k \in doubled
  /\ \A k \in Texts : used[k] > 1 => k \in doubled

\* A code that nobody used is somewhere, or it was replaced or spoilt.
KeptInv ==
  \A k \in (1..sends) \ (replaced \cup spoilt) :
    used[k] = 0 => \/ \E c \in Callers : At(c, "store") /\ caller[c].code = k
                   \/ \E i \in Records : attempt[i].code = k

\* A request for a code that was not marked is alone, and what it read of its row
\* still holds.
AloneInv ==
  \A c, d \in Callers : InAsk(c) /\ ~caller[c].crowded /\ InAsk(d) => c = d

LimitInv ==
  /\ \A i \in Records \ rushed : attempt[i].count <= Limit
  /\ \A c \in Callers :
       InAsk(c) /\ ~caller[c].crowded /\ caller[c].row \in Records \ rushed
         => attempt[caller[c].row].count < Limit

WorksInv ==
  /\ \A i, j \in Texts \ rushed : Works(i) /\ Works(j) => i = j
  /\ \A c \in Callers :
       InAsk(c) /\ ~caller[c].crowded =>
         /\ caller[c].row = Unmade => \A i \in Texts : ~Works(i)
         /\ caller[c].row \in Texts \ rushed => \A i \in Texts \ rushed : Works(i) => i = caller[c].row

CodesInv ==
  /\ CodesTypeOK /\ RowCountInv /\ SourceInv /\ PlaceInv /\ SpentInv /\ KeptInv
  /\ AloneInv /\ LimitInv /\ WorksInv

LEMMA CodeNumbers ==
  /\ Limit \in Nat \ {0} /\ Lifetime \in Nat \ {0} /\ MaxSends \in Nat /\ IsFiniteSet(Callers)
  /\ Texts \subseteq Nat /\ \A k : k \in Texts <=> k \in Nat /\ 0 < k /\ k <= MaxSends
  /\ NoCode = 0 /\ Guest = 0 /\ \A i : i \in Records <=> i = 0 \/ i \in Texts
  /\ Unmade \in Nat /\ Unsigned \in Nat /\ Unmade > MaxSends /\ Unsigned > MaxSends
  /\ Unmade # Unsigned
BY OneTimeCodesAssumption DEF Texts, NoCode, Guest, Records, Unmade, Unsigned

\* One request starts or stops being about to store its code.
LEMMA RowCountStep ==
  ASSUME CodesTypeOK, RowCountInv, NEW c \in Callers,
         \A d \in Callers : d # c => (At(d, "store")' <=> At(d, "store")),
         made' \in Nat, sends' \in Nat,
         \/ ~At(c, "store")' /\ made' = made /\ sends' = sends
         \/ At(c, "store") /\ ~At(c, "store")' /\ made' = made + 1 /\ sends' = sends
         \/ ~At(c, "store") /\ made' = made /\ sends' = sends + 1
  PROVE  RowCountInv'
<1>1. IsFiniteSet(Storing) /\ Storing \subseteq Callers /\ made \in Nat /\ sends \in Nat
  <2>1. Storing \subseteq Callers
    BY DEF Storing
  <2> QED
    BY <2>1, CodeNumbers, FS_Subset DEF CodesTypeOK
<1>2. Cardinality(Storing) \in Nat /\ made + Cardinality(Storing) <= sends
  BY <1>1, FS_CardinalityType DEF RowCountInv
<1>3. /\ c \in Storing => Cardinality(Storing \ {c}) = Cardinality(Storing) - 1
      /\ c \notin Storing => Storing \ {c} = Storing
      /\ c \notin Storing => Cardinality(Storing \cup {c}) = Cardinality(Storing) + 1
  BY <1>1, FS_AddElement, FS_RemoveElement
<1>4. CASE ~At(c, "store")'
  <2>1. Storing' = Storing \ {c}
    BY <1>4 DEF Storing
  <2> QED
    BY <1>1, <1>2, <1>3, <1>4, <2>1 DEF RowCountInv, Storing
<1>5. CASE At(c, "store")'
  <2>1. ~At(c, "store") /\ made' = made /\ sends' = sends + 1
    BY <1>5
  <2>2. Storing' = Storing \cup {c} /\ c \notin Storing
    BY <1>5, <2>1 DEF Storing
  <2> QED
    BY <1>1, <1>2, <1>3, <2>1, <2>2 DEF RowCountInv
<1> QED
  BY <1>4, <1>5

\* A request for a code has read its row.
LEMMA AskStep ==
  ASSUME CodesInv, NEW c \in Callers, NEW row \in Records \cup {Unmade, Unsigned}, Asks(c, row),
         row \in Texts => row <= made /\ Works(row),
         row = Guest => guest # "none",
         row \in Records => attempt[row].count < Limit,
         row = Unmade => \A i \in Texts : ~Works(i)
  PROVE  CodesInv'
<1> DEFINE others == {d \in Callers : InAsk(d)}
           u == [Gone EXCEPT !.pc = "send", !.row = row, !.crowded = others # {}]
<1>0. /\ CodesTypeOK /\ RowCountInv /\ SourceInv /\ PlaceInv /\ SpentInv /\ KeptInv
      /\ AloneInv /\ LimitInv /\ WorksInv
  BY DEF CodesInv
<1>1. /\ caller[c].pc = "idle"
      /\ caller' = [d \in Callers |-> IF d = c THEN u
                                      ELSE [caller[d] EXCEPT !.crowded = @ \/ d \in others]]
      /\ UNCHANGED <<attempt, made, guest, sends, due, used, doubled, rushed, replaced, spoilt>>
  BY DEF Asks, At
<1>2. /\ u \in Caller /\ u.pc = "send" /\ u.row = row
      /\ u.crowded = FALSE => \A d \in Callers : ~InAsk(d)
  BY DEF Gone, Caller, NoCode
<1>3. \A x \in Caller, b \in BOOLEAN :
        LET y == [x EXCEPT !.crowded = @ \/ b]
        IN  /\ y \in Caller /\ y.pc = x.pc /\ y.row = x.row /\ y.code = x.code
            /\ ~y.crowded => ~x.crowded /\ ~b
  BY DEF Caller
<1>4. /\ caller' \in [Callers -> Caller] /\ caller'[c] = u
      /\ \A d \in Callers : d # c =>
           /\ caller'[d].pc = caller[d].pc /\ caller'[d].row = caller[d].row
           /\ caller'[d].code = caller[d].code
           /\ ~caller'[d].crowded => ~caller[d].crowded /\ ~InAsk(d)
  <2>1. ASSUME NEW d \in Callers, d # c
        PROVE  /\ caller'[d] \in Caller
               /\ caller'[d].pc = caller[d].pc /\ caller'[d].row = caller[d].row
               /\ caller'[d].code = caller[d].code
               /\ ~caller'[d].crowded => ~caller[d].crowded /\ ~InAsk(d)
    <3> DEFINE b == d \in others
    <3>1. caller[d] \in Caller /\ b \in BOOLEAN /\ (~b => ~InAsk(d))
      BY <1>0 DEF CodesTypeOK
    <3>2. caller'[d] = [caller[d] EXCEPT !.crowded = @ \/ b]
      BY <1>1, <2>1
    <3> HIDE DEF b
    <3> QED
      BY <1>3, <3>1, <3>2
  <2> HIDE DEF u
  <2> QED
    BY <1>1, <1>2, <2>1
<1> HIDE DEF u, others
<1>5. CodesTypeOK'
  BY <1>0, <1>1, <1>4 DEF CodesTypeOK
<1>6. RowCountInv'
  BY <1>0, <1>1, <1>2, <1>4, RowCountStep DEF At, CodesTypeOK
<1>7. SourceInv'
  BY <1>0, <1>1, <1>2, <1>4 DEF SourceInv, At, InAsk
<1>8. PlaceInv' /\ SpentInv'
  BY <1>0, <1>1, <1>2, <1>4 DEF PlaceInv, SpentInv, At
<1>9. KeptInv'
  BY <1>0, <1>1, <1>2, <1>4 DEF KeptInv, At
<1>10. AloneInv'
  <2> SUFFICES ASSUME NEW x \in Callers, NEW y \in Callers, InAsk(x)', ~caller'[x].crowded, InAsk(y)'
               PROVE  x = y
    BY DEF AloneInv
  <2>1. CASE x = c
    BY <1>2, <1>4, <2>1 DEF InAsk, At
  <2>2. CASE x # c
    BY <1>2, <1>4, <2>2 DEF InAsk, At
  <2> QED
    BY <2>1, <2>2
<1>11. \A x \in Callers : x # c /\ InAsk(x)' => caller'[x].crowded
  BY <1>4 DEF InAsk, At
<1>12. LimitInv'
  BY <1>0, <1>1, <1>2, <1>4, <1>11 DEF LimitInv
<1>13. \A i : Works(i)' <=> Works(i)
  BY <1>1 DEF Works
<1>14. WorksInv'
  <2>1. row \in Texts \ rushed => \A i \in Texts \ rushed : Works(i) => i = row
    BY <1>0 DEF WorksInv
  <2> QED
    BY <1>0, <1>1, <1>2, <1>4, <1>11, <1>13, <2>1 DEF WorksInv
<1> QED
  BY <1>5, <1>6, <1>7, <1>8, <1>9, <1>10, <1>12, <1>14 DEF CodesInv

\* A message leaves.
LEMMA SendStep ==
  ASSUME CodesInv, NEW c \in Callers, SendOtpToPhone(c)
  PROVE  CodesInv'
<1> DEFINE n == sends + 1
           u == [caller[c] EXCEPT !.pc = "store", !.code = n]
<1>0. /\ CodesTypeOK /\ RowCountInv /\ SourceInv /\ PlaceInv /\ SpentInv /\ KeptInv
      /\ AloneInv /\ LimitInv /\ WorksInv /\ caller[c] \in Caller /\ sends \in 0..MaxSends
      /\ made \in 0..sends
  BY DEF CodesInv, CodesTypeOK
<1>1. /\ caller[c].pc = "send" /\ sends' = n /\ n \in Texts /\ n \in Nat /\ sends < n
      /\ caller' = [caller EXCEPT ![c].pc = "store", ![c].code = n]
      /\ due' = [due EXCEPT ![n] = Lifetime]
      /\ UNCHANGED <<attempt, made, guest, used, doubled, rushed, replaced, spoilt>>
  BY <1>0, CodeNumbers DEF SendOtpToPhone, At
<1>2. \A k : k \in 1..n <=> k \in 1..sends \/ k = n
  BY <1>0
<1> HIDE DEF n
<1>3. /\ u \in Caller /\ u.pc = "store" /\ u.row = caller[c].row /\ u.code = n
      /\ u.crowded = caller[c].crowded
  BY <1>0, <1>1 DEF Caller
<1>4. caller' \in [Callers -> Caller] /\ \A d \in Callers : caller'[d] = IF d = c THEN u ELSE caller[d]
  BY <1>0, <1>1, <1>3 DEF CodesTypeOK
<1> HIDE DEF u
<1>5. due' \in [Texts -> 0..Lifetime] /\ \A k \in Texts : k # n => due'[k] = due[k]
  BY <1>0, <1>1, CodeNumbers DEF CodesTypeOK
<1>6. CodesTypeOK'
  BY <1>0, <1>1, <1>4, <1>5, CodeNumbers DEF CodesTypeOK, n
<1>7. RowCountInv'
  <2>1. made' \in Nat /\ sends' \in Nat /\ made' = made /\ sends' = sends + 1
    BY <1>0, <1>1 DEF n
  <2> QED
    BY <1>0, <1>1, <1>4, <2>1, RowCountStep DEF At
<1>8. \A x \in Callers : /\ InAsk(x)' <=> InAsk(x)
                         /\ caller'[x].row = caller[x].row /\ caller'[x].crowded = caller[x].crowded
                         /\ At(x, "spend")' <=> At(x, "spend")
                         /\ At(x, "store")' <=> At(x, "store") \/ x = c
                         /\ x # c => caller'[x] = caller[x]
  BY <1>1, <1>3, <1>4 DEF InAsk, At
<1>9. /\ \A x \in Callers : At(x, "store") \/ At(x, "spend") => caller[x].code # n
      /\ \A i \in Records : attempt[i].code # n
      /\ \A x \in Callers : At(x, "spend") => x # c
      /\ used[n] = 0
  BY <1>0, <1>1, CodeNumbers DEF SourceInv, At, CodesTypeOK, Attempt
<1>10. SourceInv'
  <2>1. \A i \in Records : attempt[i].code \in Nat /\ attempt[i].code <= sends
    BY <1>0, CodeNumbers DEF SourceInv, CodesTypeOK, Attempt
  <2>2. \A i \in Records : attempt[i].code <= n
    BY <1>0, <1>1, <2>1
  <2>3. \A k \in Texts : k > n => k > sends
    BY <1>0, <1>1, CodeNumbers
  <2>4. ASSUME NEW x \in Callers
        PROVE  /\ At(x, "store")' \/ At(x, "spend")' => caller'[x].code \in 1..n
               /\ At(x, "spend")' => caller'[x].row \in Records
               /\ InAsk(x)' /\ caller'[x].row \in Texts => caller'[x].row <= made
               /\ InAsk(x)' /\ caller'[x].row = Guest => guest # "none"
    BY <1>0, <1>2, <1>3, <1>4, <1>8, <1>9 DEF SourceInv
  <2> QED
    BY <1>0, <1>1, <2>2, <2>3, <2>4 DEF SourceInv
<1>11. PlaceInv'
  BY <1>0, <1>1, <1>3, <1>4, <1>8, <1>9 DEF PlaceInv
<1>12. SpentInv'
  BY <1>0, <1>1, <1>3, <1>4, <1>8, <1>9 DEF SpentInv
<1>13. KeptInv'
  <2> SUFFICES ASSUME NEW k \in (1..n) \ (replaced \cup spoilt), used[k] = 0
               PROVE  \/ \E x \in Callers : At(x, "store")' /\ caller'[x].code = k
                      \/ \E i \in Records : attempt[i].code = k
    BY <1>1 DEF KeptInv
  <2>1. CASE k = n
    BY <1>3, <1>4, <1>8, <2>1
  <2>2. CASE k # n
    <3>1. \/ \E x \in Callers : At(x, "store") /\ caller[x].code = k
          \/ \E i \in Records : attempt[i].code = k
      BY <1>0, <1>2, <2>2 DEF KeptInv
    <3>2. ~At(c, "store")
      BY <1>1 DEF At
    <3> QED
      BY <1>8, <3>1, <3>2
  <2> QED
    BY <2>1, <2>2
<1>14. AloneInv' /\ LimitInv'
  BY <1>0, <1>1, <1>8 DEF AloneInv, LimitInv
<1>15. \A i \in Texts : Works(i)' <=> Works(i)
  <2> SUFFICES ASSUME NEW i \in Texts PROVE Works(i)' <=> Works(i)
    OBVIOUS
  <2>1. attempt[i].code # n /\ attempt[i].code \in {NoCode} \cup Texts
    BY <1>0, <1>9, CodeNumbers DEF CodesTypeOK, Attempt
  <2> QED
    BY <1>1, <1>5, <2>1 DEF Works
<1>16. WorksInv'
  BY <1>0, <1>1, <1>8, <1>15 DEF WorksInv
<1> QED
  BY <1>6, <1>7, <1>10, <1>11, <1>12, <1>13, <1>14, <1>16 DEF CodesInv

\* A code is shown and found.
LEMMA ShowStep ==
  ASSUME CodesInv, NEW c \in Callers, NEW k \in Texts, NEW i \in Records, Shows(c, k, i)
  PROVE  CodesInv'
<1> DEFINE u == [Gone EXCEPT !.pc = "spend", !.row = i, !.code = k]
<1>0. /\ CodesTypeOK /\ RowCountInv /\ SourceInv /\ PlaceInv /\ SpentInv /\ KeptInv
      /\ AloneInv /\ LimitInv /\ WorksInv
  BY DEF CodesInv
<1>1. /\ caller[c].pc = "idle" /\ attempt[i].code = k /\ caller' = [caller EXCEPT ![c] = u]
      /\ doubled' = IF \E d \in Callers : At(d, "spend") /\ caller[d].code = k
                    THEN doubled \cup {k} ELSE doubled
      /\ UNCHANGED <<attempt, made, guest, sends, due, used, rushed, replaced, spoilt>>
  BY DEF Shows, At
<1>2. u \in Caller /\ u.pc = "spend" /\ u.row = i /\ u.code = k
  BY DEF Gone, Caller
<1>3. caller' \in [Callers -> Caller] /\ \A d \in Callers : caller'[d] = IF d = c THEN u ELSE caller[d]
  BY <1>0, <1>1, <1>2 DEF CodesTypeOK
<1> HIDE DEF u
<1>4. CodesTypeOK'
  BY <1>0, <1>1, <1>3 DEF CodesTypeOK
<1>5. \A x \in Callers : /\ InAsk(x)' <=> InAsk(x)
                         /\ At(x, "store")' <=> At(x, "store")
                         /\ At(x, "spend")' <=> At(x, "spend") \/ x = c
                         /\ InAsk(x) \/ At(x, "store") \/ At(x, "spend") => caller'[x] = caller[x] /\ x # c
  BY <1>1, <1>2, <1>3 DEF InAsk, At
<1>6. RowCountInv'
  BY <1>0, <1>1, <1>5, RowCountStep DEF CodesTypeOK, At
<1>7. k \in 1..sends
  BY <1>0, <1>1, CodeNumbers DEF SourceInv, CodesTypeOK
<1>8. SourceInv'
  BY <1>0, <1>1, <1>2, <1>3, <1>5, <1>7 DEF SourceInv
<1>9. PlaceInv'
  BY <1>0, <1>1, <1>5 DEF PlaceInv
<1>10. \A x \in Callers : At(x, "spend") /\ caller[x].code = k => k \in doubled'
  BY <1>1
<1>11. \A j \in Records : attempt[j].code = k => j = i
  BY <1>0, <1>1, CodeNumbers DEF PlaceInv
<1>12. /\ \A x \in Callers : At(x, "store") => caller[x].code # k
       /\ used[k] = 0 /\ doubled \subseteq doubled'
  BY <1>0, <1>1 DEF PlaceInv, SpentInv
<1>13. SpentInv'
  <2>1. \A x, y \in Callers : At(x, "spend")' /\ At(y, "store")' => caller'[x].code # caller'[y].code
    BY <1>0, <1>2, <1>3, <1>5, <1>12 DEF SpentInv
  <2>2. \A x \in Callers, j \in Records :
          At(x, "spend")' /\ attempt'[j].code = caller'[x].code => j = caller'[x].row
    BY <1>0, <1>1, <1>2, <1>3, <1>5, <1>11 DEF SpentInv
  <2>3. \A x, y \in Callers :
          At(x, "spend")' /\ At(y, "spend")' /\ caller'[x].code = caller'[y].code
            => x = y \/ caller'[x].code \in doubled'
    BY <1>0, <1>2, <1>3, <1>5, <1>10, <1>12 DEF SpentInv
  <2>4. \A n \in Texts : used'[n] # 0 =>
          /\ \A x \in Callers : At(x, "store")' => caller'[x].code # n
          /\ \A j \in Records : attempt'[j].code # n
          /\ \A x \in Callers : At(x, "spend")' /\ caller'[x].code = n => n \in doubled'
    BY <1>0, <1>1, <1>2, <1>3, <1>5, <1>12 DEF SpentInv
  <2>5. \A n \in Texts : used'[n] > 1 => n \in doubled'
    BY <1>0, <1>1, <1>12 DEF SpentInv
  <2> QED
    BY <2>1, <2>2, <2>3, <2>4, <2>5 DEF SpentInv
<1>14. KeptInv'
  BY <1>0, <1>1, <1>5 DEF KeptInv
<1>15. AloneInv' /\ LimitInv'
  BY <1>0, <1>1, <1>5 DEF AloneInv, LimitInv
<1>16. WorksInv'
  BY <1>0, <1>1, <1>5 DEF WorksInv, Works
<1> QED
  BY <1>4, <1>6, <1>8, <1>9, <1>13, <1>14, <1>15, <1>16 DEF CodesInv

\* A request fails, or starts again as a log-in of a guest who is there.
LEMMA BackStep ==
  ASSUME CodesInv, NEW c \in Callers, NEW u \in Caller, caller' = [caller EXCEPT ![c] = u],
         UNCHANGED <<attempt, made, guest, sends, due, used, doubled, rushed, replaced>>,
         spoilt \subseteq spoilt', spoilt' \subseteq Texts,
         At(c, "store") => caller[c].code \in spoilt',
         \/ u.pc = "idle"
         \/ /\ u.pc = "send" /\ u.row = Guest /\ u.crowded = caller[c].crowded /\ InAsk(c)
            /\ guest # "none" /\ attempt[Guest].count < Limit
  PROVE  CodesInv'
<1>0. /\ CodesTypeOK /\ RowCountInv /\ SourceInv /\ PlaceInv /\ SpentInv /\ KeptInv
      /\ AloneInv /\ LimitInv /\ WorksInv
  BY DEF CodesInv
<1>1. /\ caller' \in [Callers -> Caller] /\ \A d \in Callers : caller'[d] = IF d = c THEN u ELSE caller[d]
  BY <1>0 DEF CodesTypeOK
<1>2. \A x \in Callers : /\ InAsk(x)' => InAsk(x) /\ caller'[x].crowded = caller[x].crowded
                         /\ At(x, "store")' <=> At(x, "store") /\ x # c
                         /\ At(x, "spend")' <=> At(x, "spend") /\ x # c
                         /\ x # c => caller'[x] = caller[x]
  BY <1>1 DEF InAsk, At
<1>3. InAsk(c)' => caller'[c].row = Guest /\ guest # "none" /\ attempt[Guest].count < Limit
  BY <1>1 DEF InAsk, At
<1>4. Guest \notin Texts /\ Guest # Unmade
  BY CodeNumbers
<1>5. CodesTypeOK'
  BY <1>0, <1>1 DEF CodesTypeOK
<1>6. RowCountInv'
  BY <1>0, <1>2, RowCountStep DEF CodesTypeOK
<1>7. SourceInv'
  BY <1>0, <1>2, <1>3, <1>4 DEF SourceInv
<1>8. PlaceInv' /\ SpentInv'
  BY <1>0, <1>2 DEF PlaceInv, SpentInv
<1>9. KeptInv'
  BY <1>0, <1>2 DEF KeptInv
<1>10. AloneInv'
  BY <1>0, <1>2 DEF AloneInv
<1>11. LimitInv'
  BY <1>0, <1>2, <1>3 DEF LimitInv
<1>12. WorksInv'
  <2>1. \A i : Works(i)' <=> Works(i)
    BY DEF Works
  <2> QED
    BY <1>0, <1>2, <1>3, <1>4, <2>1 DEF WorksInv
<1> QED
  BY <1>5, <1>6, <1>7, <1>8, <1>9, <1>10, <1>11, <1>12 DEF CodesInv

\* A record gets its code.
LEMMA StoreStep ==
  ASSUME CodesInv, NEW c \in Callers, At(c, "store"), Ends(c),
         NEW i \in Records, NEW y \in Attempt, y.code = caller[c].code,
         attempt' = [attempt EXCEPT ![i] = y],
         rushed' = IF caller[c].crowded THEN rushed \cup {i} ELSE rushed,
         i \notin rushed' => y.count <= Limit,
         i \in Texts \ rushed' => \A j \in Texts \ rushed : Works(j) => j = i,
         attempt[i].code = NoCode \/ attempt[i].code \in replaced' \cup spoilt',
         replaced \subseteq replaced', replaced' \subseteq Texts,
         spoilt \subseteq spoilt', spoilt' \subseteq Texts,
         made' = made \/ made' = made + 1, i \in Texts => i <= made',
         guest' \in {"none", "new", "verified"}, guest # "none" => guest' # "none",
         i = Guest => guest' # "none",
         UNCHANGED <<sends, due, used, doubled>>
  PROVE  CodesInv'
<1> DEFINE n == caller[c].code
<1>0. /\ CodesTypeOK /\ RowCountInv /\ SourceInv /\ PlaceInv /\ SpentInv /\ KeptInv
      /\ AloneInv /\ LimitInv /\ WorksInv
  BY DEF CodesInv
<1>1. /\ Gone \in Caller /\ Gone.pc = "idle" /\ caller' = [caller EXCEPT ![c] = Gone]
  BY DEF Ends, Gone, Caller, NoCode
<1>2. /\ caller' \in [Callers -> Caller]
      /\ \A d \in Callers : caller'[d] = IF d = c THEN Gone ELSE caller[d]
  BY <1>0, <1>1 DEF CodesTypeOK
<1>3. \A x \in Callers : /\ InAsk(x)' <=> InAsk(x) /\ x # c
                         /\ At(x, "store")' <=> At(x, "store") /\ x # c
                         /\ At(x, "spend")' <=> At(x, "spend") /\ x # c
                         /\ x # c => caller'[x] = caller[x]
  BY <1>1, <1>2 DEF InAsk, At
<1>4. /\ attempt' \in [Records -> Attempt] /\ \A j \in Records : attempt'[j] = IF j = i THEN y ELSE attempt[j]
  BY <1>0 DEF CodesTypeOK
<1>5. n \in 1..sends /\ sends \in 0..MaxSends /\ made \in 0..sends /\ made' \in Nat /\ n # NoCode
  BY <1>0, CodeNumbers DEF SourceInv, CodesTypeOK
<1>6. RowCountInv'
  BY <1>0, <1>3, <1>5, RowCountStep
<1>7. made' \in 0..sends
  <2>1. IsFiniteSet(Storing')
    <3>1. Storing' \subseteq Callers
      BY DEF Storing
    <3> QED
      BY <3>1, CodeNumbers, FS_Subset
  <2>2. Cardinality(Storing') \in Nat
    BY <2>1, FS_CardinalityType
  <2> QED
    BY <1>5, <1>6, <2>2 DEF RowCountInv
<1>8. rushed' \subseteq Records /\ rushed \subseteq rushed'
  BY <1>0 DEF CodesTypeOK
<1>9. CodesTypeOK'
  BY <1>0, <1>2, <1>4, <1>7, <1>8 DEF CodesTypeOK
<1>10. \A j \in Records : attempt[j].code # n
  BY <1>0 DEF PlaceInv
<1>11. InAsk(c)
  BY DEF InAsk
<1>12. \A x \in Callers : InAsk(x)' => caller'[x].crowded
  BY <1>0, <1>3, <1>11 DEF AloneInv
<1> HIDE DEF n
<1>13. SourceInv'
  <2>1. ASSUME NEW x \in Callers
        PROVE  /\ At(x, "store")' \/ At(x, "spend")' => caller'[x].code \in 1..sends
               /\ At(x, "spend")' => caller'[x].row \in Records
               /\ InAsk(x)' /\ caller'[x].row \in Texts => caller'[x].row <= made'
               /\ InAsk(x)' /\ caller'[x].row = Guest => guest' # "none"
    <3>1. InAsk(x)' /\ caller'[x].row \in Texts => caller[x].row \in Nat /\ caller[x].row <= made
      BY <1>0, <1>3, CodeNumbers DEF SourceInv
    <3> QED
      BY <1>0, <1>3, <1>5, <3>1 DEF SourceInv
  <2>2. \A j \in Records : attempt'[j].code <= sends
    BY <1>0, <1>4, <1>5 DEF SourceInv, n
  <2>3. \A j \in Texts : j > made' => attempt'[j].code = NoCode
    <3>1. \A j \in Texts : j > made' => j > made /\ j # i /\ j \in Records
      BY <1>5, CodeNumbers
    <3> QED
      BY <1>0, <1>4, <3>1 DEF SourceInv
  <2>4. guest' = "none" => attempt'[Guest].code = NoCode
    BY <1>0, <1>4, CodeNumbers DEF SourceInv
  <2> QED
    BY <1>0, <2>1, <2>2, <2>3, <2>4 DEF SourceInv
<1>14. PlaceInv'
  <2>1. \A x, z \in Callers : At(x, "store")' /\ At(z, "store")' /\ caller'[x].code = caller'[z].code => x = z
    BY <1>0, <1>3 DEF PlaceInv
  <2>2. \A x \in Callers, j \in Records : At(x, "store")' => attempt'[j].code # caller'[x].code
    BY <1>0, <1>3, <1>4 DEF PlaceInv
  <2>3. \A j, l \in Records : attempt'[j].code # NoCode /\ attempt'[j].code = attempt'[l].code => j = l
    BY <1>0, <1>4, <1>10 DEF PlaceInv, n
  <2> QED
    BY <2>1, <2>2, <2>3 DEF PlaceInv
<1>15. SpentInv'
  <2>1. \A x, z \in Callers : At(x, "spend")' /\ At(z, "store")' => caller'[x].code # caller'[z].code
    BY <1>0, <1>3 DEF SpentInv
  <2>2. \A x \in Callers, j \in Records :
          At(x, "spend")' /\ attempt'[j].code = caller'[x].code => j = caller'[x].row
    BY <1>0, <1>3, <1>4 DEF SpentInv
  <2>3. \A x, z \in Callers :
          At(x, "spend")' /\ At(z, "spend")' /\ caller'[x].code = caller'[z].code
            => x = z \/ caller'[x].code \in doubled'
    BY <1>0, <1>3 DEF SpentInv
  <2>4. \A k \in Texts : used'[k] # 0 =>
          /\ \A x \in Callers : At(x, "store")' => caller'[x].code # k
          /\ \A j \in Records : attempt'[j].code # k
          /\ \A x \in Callers : At(x, "spend")' /\ caller'[x].code = k => k \in doubled'
    BY <1>0, <1>3, <1>4 DEF SpentInv
  <2>5. \A k \in Texts : used'[k] > 1 => k \in doubled'
    BY <1>0 DEF SpentInv
  <2> QED
    BY <2>1, <2>2, <2>3, <2>4, <2>5 DEF SpentInv
<1>16. KeptInv'
  <2> SUFFICES ASSUME NEW k \in (1..sends) \ (replaced' \cup spoilt'), used[k] = 0
               PROVE  \/ \E x \in Callers : At(x, "store")' /\ caller'[x].code = k
                      \/ \E j \in Records : attempt'[j].code = k
    BY DEF KeptInv
  <2>1. \/ \E x \in Callers : At(x, "store") /\ caller[x].code = k
        \/ \E j \in Records : attempt[j].code = k
    BY <1>0 DEF KeptInv
  <2>2. k # NoCode
    BY CodeNumbers
  <2>3. CASE k = n
    BY <1>4, <2>3 DEF n
  <2>4. CASE k # n
    BY <1>3, <1>4, <2>1, <2>2, <2>4 DEF n
  <2> QED
    BY <2>3, <2>4
<1>17. AloneInv'
  BY <1>12 DEF AloneInv
<1>18. LimitInv'
  <2>1. \A j \in Records \ rushed' : attempt'[j].count <= Limit
    BY <1>0, <1>4, <1>8 DEF LimitInv
  <2> QED
    BY <1>12, <2>1 DEF LimitInv
<1>19. WorksInv'
  <2>1. \A j \in Texts : j # i => (Works(j)' <=> Works(j))
    BY <1>4, CodeNumbers DEF Works
  <2>2. \A j, l \in Texts \ rushed' : Works(j)' /\ Works(l)' => j = l
    <3>1. ASSUME NEW j \in Texts \ rushed', NEW l \in Texts \ rushed', Works(j)', Works(l)', l # i
          PROVE  j = l
      <4>1. Works(l) /\ j \notin rushed /\ l \notin rushed
        BY <1>8, <2>1, <3>1
      <4>2. CASE j = i
        BY <4>1, <4>2
      <4>3. CASE j # i
        BY <1>0, <2>1, <3>1, <4>1, <4>3 DEF WorksInv
      <4> QED
        BY <4>2, <4>3
    <3> QED
      BY <3>1
  <2> QED
    BY <1>12, <2>2 DEF WorksInv
<1> QED
  BY <1>6, <1>9, <1>13, <1>14, <1>15, <1>16, <1>17, <1>18, <1>19 DEF CodesInv

\* A code is spent, whatever its record holds by now.
LEMMA SpendStep ==
  ASSUME CodesInv, NEW c \in Callers, Spends(c), NEW y \in Attempt, y.code = NoCode,
         y.count <= attempt[caller[c].row].count,
         attempt' = [attempt EXCEPT ![caller[c].row] = y],
         guest' \in {guest, "verified"}
  PROVE  CodesInv'
<1> DEFINE k == caller[c].code
           i == caller[c].row
           now == attempt[i].code
<1>0. /\ CodesTypeOK /\ RowCountInv /\ SourceInv /\ PlaceInv /\ SpentInv /\ KeptInv
      /\ AloneInv /\ LimitInv /\ WorksInv
  BY DEF CodesInv
<1>1. /\ Gone \in Caller /\ Gone.pc = "idle" /\ caller' = [caller EXCEPT ![c] = Gone]
      /\ caller[c].pc = "spend"
      /\ used' = [used EXCEPT ![k] = IF @ = 0 THEN 1 ELSE 2]
      /\ spoilt' = IF now \in {NoCode, k} THEN spoilt ELSE spoilt \cup {now}
      /\ UNCHANGED <<made, sends, due, doubled, rushed, replaced>>
  BY DEF Spends, At, Ends, Gone, Caller, NoCode
<1>2. /\ caller' \in [Callers -> Caller]
      /\ \A d \in Callers : caller'[d] = IF d = c THEN Gone ELSE caller[d]
  BY <1>0, <1>1 DEF CodesTypeOK
<1>3. \A x \in Callers : /\ InAsk(x)' <=> InAsk(x)
                         /\ At(x, "store")' <=> At(x, "store")
                         /\ At(x, "spend")' <=> At(x, "spend") /\ x # c
                         /\ InAsk(x) \/ At(x, "store") => x # c
                         /\ x # c => caller'[x] = caller[x]
  BY <1>1, <1>2 DEF InAsk, At
<1>4. i \in Records /\ k \in 1..sends /\ k \in Texts
  <2>1. i \in Records /\ k \in 1..sends
    BY <1>0, <1>1 DEF SourceInv, At
  <2> QED
    BY <1>0, <2>1, CodeNumbers DEF CodesTypeOK
<1>5. /\ attempt' \in [Records -> Attempt] /\ \A j \in Records : attempt'[j] = IF j = i THEN y ELSE attempt[j]
  BY <1>0, <1>4 DEF CodesTypeOK
<1>6. /\ used' \in [Texts -> 0..2] /\ \A n \in Texts : n # k => used'[n] = used[n]
      /\ used'[k] # 0 /\ (used'[k] > 1 => used[k] # 0)
  BY <1>0, <1>1, <1>4 DEF CodesTypeOK
<1>7. now \in {NoCode} \cup Texts /\ spoilt \subseteq spoilt' /\ (now \notin {NoCode, k} => now \in spoilt')
      /\ spoilt' \subseteq spoilt \cup {now} /\ (now = NoCode => spoilt' = spoilt)
  BY <1>0, <1>1, <1>4 DEF CodesTypeOK, Attempt
<1>8. CodesTypeOK'
  BY <1>0, <1>1, <1>2, <1>5, <1>6, <1>7 DEF CodesTypeOK
<1>9. RowCountInv'
  BY <1>0, <1>1, <1>3, RowCountStep DEF CodesTypeOK, At
<1>10. /\ \A x \in Callers : At(x, "store") => caller[x].code # k
       /\ \A j \in Records : attempt[j].code = k => j = i
       /\ \A x \in Callers : At(x, "spend") /\ caller[x].code = k => x = c \/ k \in doubled
       /\ used[k] # 0 => k \in doubled
  BY <1>0, <1>1, <1>4 DEF SpentInv, At
<1>11. y.code # k /\ k # NoCode
  BY <1>4, CodeNumbers
<1>12. Guest \in Records /\ Texts \subseteq Records
  BY CodeNumbers
<1> HIDE DEF k, i, now
<1>13. SourceInv'
  <2>1. ASSUME NEW x \in Callers
        PROVE  /\ At(x, "store")' \/ At(x, "spend")' => caller'[x].code \in 1..sends
               /\ At(x, "spend")' => caller'[x].row \in Records
               /\ InAsk(x)' /\ caller'[x].row \in Texts => caller'[x].row <= made
               /\ InAsk(x)' /\ caller'[x].row = Guest => guest' # "none"
    BY <1>0, <1>3 DEF SourceInv
  <2>2. \A j \in Records : attempt'[j].code <= sends
    BY <1>0, <1>5, CodeNumbers DEF SourceInv, CodesTypeOK
  <2>3. \A j \in Texts : j > made => attempt'[j].code = NoCode
    BY <1>0, <1>5, <1>12 DEF SourceInv
  <2>4. guest' = "none" => attempt'[Guest].code = NoCode
    BY <1>0, <1>5, <1>12 DEF SourceInv
  <2>5. \A n \in Texts : n > sends => used'[n] = 0
    <3>1. \A n \in Texts : n > sends => n # k
      BY <1>0, <1>4 DEF CodesTypeOK
    <3> QED
      BY <1>0, <1>6, <3>1 DEF SourceInv
  <2> QED
    BY <1>1, <2>1, <2>2, <2>3, <2>4, <2>5 DEF SourceInv
<1>14. PlaceInv'
  BY <1>0, <1>3, <1>5, CodeNumbers DEF PlaceInv, SourceInv
<1>15. SpentInv'
  <2>1. \A x, z \in Callers : At(x, "spend")' /\ At(z, "store")' => caller'[x].code # caller'[z].code
    BY <1>0, <1>3 DEF SpentInv
  <2>2. \A x \in Callers, j \in Records :
          At(x, "spend")' /\ attempt'[j].code = caller'[x].code => j = caller'[x].row
    <3> SUFFICES ASSUME NEW x \in Callers, NEW j \in Records, At(x, "spend")',
                        attempt'[j].code = caller'[x].code
                 PROVE  j = caller'[x].row
      OBVIOUS
    <3>1. caller'[x] = caller[x] /\ At(x, "spend") /\ caller[x].code \in 1..sends
      BY <1>0, <1>3 DEF SourceInv
    <3>2. j # i
      BY <1>5, <3>1, CodeNumbers
    <3> QED
      BY <1>0, <1>5, <3>1, <3>2 DEF SpentInv
  <2>3. \A x, z \in Callers :
          At(x, "spend")' /\ At(z, "spend")' /\ caller'[x].code = caller'[z].code
            => x = z \/ caller'[x].code \in doubled'
    BY <1>0, <1>1, <1>3 DEF SpentInv
  <2>4. \A n \in Texts : used'[n] # 0 =>
          /\ \A x \in Callers : At(x, "store")' => caller'[x].code # n
          /\ \A j \in Records : attempt'[j].code # n
          /\ \A x \in Callers : At(x, "spend")' /\ caller'[x].code = n => n \in doubled'
    <3> SUFFICES ASSUME NEW n \in Texts, used'[n] # 0
                 PROVE  /\ \A x \in Callers : At(x, "store")' => caller'[x].code # n
                        /\ \A j \in Records : attempt'[j].code # n
                        /\ \A x \in Callers : At(x, "spend")' /\ caller'[x].code = n => n \in doubled'
      OBVIOUS
    <3>1. CASE n = k
      BY <1>1, <1>3, <1>5, <1>10, <1>11, <3>1
    <3>2. CASE n # k
      <4>1. n # NoCode
        BY CodeNumbers
      <4> QED
        BY <1>0, <1>1, <1>3, <1>5, <1>6, <3>2, <4>1 DEF SpentInv
    <3> QED
      BY <3>1, <3>2
  <2>5. \A n \in Texts : used'[n] > 1 => n \in doubled'
    BY <1>0, <1>1, <1>6, <1>10 DEF SpentInv
  <2> QED
    BY <2>1, <2>2, <2>3, <2>4, <2>5 DEF SpentInv
<1>16. KeptInv'
  <2> SUFFICES ASSUME NEW n \in (1..sends) \ (replaced \cup spoilt'), used'[n] = 0
               PROVE  \/ \E x \in Callers : At(x, "store")' /\ caller'[x].code = n
                      \/ \E j \in Records : attempt'[j].code = n
    BY <1>1 DEF KeptInv
  <2>1. n \in Texts /\ n # NoCode
    BY <1>0, CodeNumbers DEF CodesTypeOK
  <2>2. n # k /\ used[n] = 0 /\ n \notin spoilt
    BY <1>6, <1>7, <2>1
  <2>3. \/ \E x \in Callers : At(x, "store") /\ caller[x].code = n
        \/ \E j \in Records : attempt[j].code = n
    BY <1>0, <2>2 DEF KeptInv
  <2>4. attempt[i].code # n
    BY <1>7, <2>1, <2>2 DEF now
  <2> QED
    BY <1>3, <1>5, <2>3, <2>4
<1>17. AloneInv'
  BY <1>0, <1>3 DEF AloneInv
<1>18. LimitInv'
  <2>1. \A j \in Records : /\ attempt'[j].count \in Nat /\ attempt[j].count \in Nat
                           /\ attempt'[j].count <= attempt[j].count
    BY <1>0, <1>5 DEF CodesTypeOK, Attempt, i
  <2>2. \A j \in Records \ rushed : attempt'[j].count <= Limit
    BY <1>0, <2>1, CodeNumbers DEF LimitInv
  <2>3. \A x \in Callers :
          InAsk(x)' /\ ~caller'[x].crowded /\ caller'[x].row \in Records \ rushed
            => attempt'[caller'[x].row].count < Limit
    BY <1>0, <1>3, <2>1, CodeNumbers DEF LimitInv
  <2> QED
    BY <1>1, <2>2, <2>3 DEF LimitInv
<1>19. WorksInv'
  <2>1. \A j \in Texts : Works(j)' => Works(j)
    BY <1>1, <1>5, <1>12 DEF Works
  <2> QED
    BY <1>0, <1>1, <1>3, <2>1 DEF WorksInv
<1> QED
  BY <1>8, <1>9, <1>13, <1>14, <1>15, <1>16, <1>17, <1>18, <1>19 DEF CodesInv

LEMMA TimeStep ==
  ASSUME CodesInv, TimePasses
  PROVE  CodesInv'
<1>0. /\ CodesTypeOK /\ RowCountInv /\ SourceInv /\ PlaceInv /\ SpentInv /\ KeptInv
      /\ AloneInv /\ LimitInv /\ WorksInv
  BY DEF CodesInv
<1>1. /\ due' = [k \in Texts |-> IF due[k] = 0 THEN 0 ELSE due[k] - 1]
      /\ attempt' = [j \in Records |-> [attempt[j] EXCEPT !.recent = FALSE]]
      /\ UNCHANGED <<made, guest, caller, sends, used, doubled, rushed, replaced, spoilt>>
  BY DEF TimePasses
<1>2. \A x \in Attempt : /\ [x EXCEPT !.recent = FALSE] \in Attempt
                         /\ [x EXCEPT !.recent = FALSE].code = x.code
                         /\ [x EXCEPT !.recent = FALSE].count = x.count
  BY DEF Attempt
<1>3. /\ attempt' \in [Records -> Attempt]
      /\ \A j \in Records : attempt'[j].code = attempt[j].code /\ attempt'[j].count = attempt[j].count
  BY <1>0, <1>1, <1>2 DEF CodesTypeOK
<1>4. due' \in [Texts -> 0..Lifetime] /\ \A k \in Texts : due'[k] > 0 => due[k] > 0
  BY <1>0, <1>1, CodeNumbers DEF CodesTypeOK
<1>5. CodesTypeOK'
  BY <1>0, <1>1, <1>3, <1>4 DEF CodesTypeOK
<1>7. Storing' = Storing
  BY <1>1 DEF Storing, At
<1>8. RowCountInv'
  BY <1>0, <1>1, <1>7 DEF RowCountInv
<1>9. Guest \in Records /\ Texts \subseteq Records
  BY CodeNumbers
<1>10. SourceInv' /\ PlaceInv' /\ SpentInv' /\ KeptInv'
  <2>1. SourceInv'
    BY <1>0, <1>1, <1>3, <1>9 DEF SourceInv, At, InAsk
  <2>2. PlaceInv'
    <3>1. \A c, d \in Callers : At(c, "store")' /\ At(d, "store")' /\ caller'[c].code = caller'[d].code => c = d
      BY <1>0, <1>1 DEF PlaceInv, At
    <3>2. \A c \in Callers, i \in Records : At(c, "store")' => attempt'[i].code # caller'[c].code
      BY <1>0, <1>1, <1>3 DEF PlaceInv, At
    <3>3. \A i, j \in Records : attempt'[i].code # NoCode /\ attempt'[i].code = attempt'[j].code => i = j
      BY <1>0, <1>3 DEF PlaceInv
    <3> QED
      BY <3>1, <3>2, <3>3 DEF PlaceInv
  <2>3. SpentInv'
    <3>1. \A c \in Callers, i \in Records :
            At(c, "spend")' /\ attempt'[i].code = caller'[c].code => i = caller'[c].row
      BY <1>0, <1>1, <1>3 DEF SpentInv, At
    <3>2. \A k \in Texts : used'[k] # 0 => \A i \in Records : attempt'[i].code # k
      BY <1>0, <1>1, <1>3 DEF SpentInv
    <3> QED
      BY <1>0, <1>1, <3>1, <3>2 DEF SpentInv, At
  <2>4. KeptInv'
    <3> SUFFICES ASSUME NEW k \in (1..sends) \ (replaced \cup spoilt), used[k] = 0
                 PROVE  \/ \E c \in Callers : At(c, "store")' /\ caller'[c].code = k
                        \/ \E i \in Records : attempt'[i].code = k
      BY <1>1 DEF KeptInv
    <3>1. \/ \E c \in Callers : At(c, "store") /\ caller[c].code = k
          \/ \E i \in Records : attempt[i].code = k
      BY <1>0 DEF KeptInv
    <3> QED
      BY <1>1, <1>3, <3>1 DEF At
  <2> QED
    BY <2>1, <2>2, <2>3, <2>4
<1>11. AloneInv' /\ LimitInv'
  BY <1>0, <1>1, <1>3 DEF AloneInv, LimitInv, At, InAsk
<1>12. \A j \in Texts : Works(j)' => Works(j)
  <2> SUFFICES ASSUME NEW j \in Texts, Works(j)' PROVE Works(j)
    OBVIOUS
  <2>1. attempt[j].code \in {NoCode} \cup Texts /\ attempt'[j].code = attempt[j].code
    BY <1>0, <1>3, <1>9 DEF CodesTypeOK, Attempt
  <2> QED
    BY <1>4, <2>1 DEF Works
<1>13. WorksInv'
  BY <1>0, <1>1, <1>12 DEF WorksInv, At, InAsk
<1> QED
  BY <1>5, <1>8, <1>10, <1>11, <1>13 DEF CodesInv

\* The newest row with a working code is there when any is.
LEMMA LatestThere ==
  ASSUME CodesTypeOK, Live # {}
  PROVE  LatestRow \in Live
<1> DEFINE Age(i) == made - i
           T == {Age(i) : i \in Live}
<1>1. made \in Nat /\ \A i \in Live : i \in Nat /\ i <= made /\ Age(i) \in Nat
  BY CodeNumbers DEF CodesTypeOK, Live
<1>2. PICK m \in T : \A n \in T : ~(<<n, m>> \in OpToRel(<, Nat))
  <2>1. T \subseteq Nat /\ T # {}
    BY <1>1
  <2> HIDE DEF T
  <2> QED
    BY <2>1, WFMin, NatLessThanWellFounded
<1>3. \A n \in T : n \in Nat /\ m \in Nat /\ ~(n < m)
  BY <1>1, <1>2 DEF OpToRel
<1>4. PICK i \in Live : m = Age(i)
  OBVIOUS
<1>5. \A j \in Live : j <= i
  BY <1>1, <1>3, <1>4
<1> QED
  BY <1>5 DEF LatestRow

\* What a query that stores a code, and one that clears it, make of a row.
LEMMA RowsWritten ==
  ASSUME NEW x \in Attempt
  PROVE  /\ \A k \in Texts : /\ Stored(x, k) \in Attempt /\ Stored(x, k).code = k
                             /\ Stored(x, k).count = x.count + 1
         /\ LET y == [x EXCEPT !.code = NoCode, !.recent = TRUE]
            IN  y \in Attempt /\ y.code = NoCode /\ y.count = x.count
<1>1. ASSUME NEW k \in {NoCode} \cup Texts, NEW n \in Nat
      PROVE  LET y == [x EXCEPT !.code = k, !.count = n, !.recent = TRUE]
             IN  y \in Attempt /\ y.code = k /\ y.count = n
  BY DEF Attempt
<1>2. ASSUME NEW k \in Texts
      PROVE  /\ Stored(x, k) \in Attempt /\ Stored(x, k).code = k
             /\ Stored(x, k).count = x.count + 1
  <2> DEFINE n == x.count + 1
             y == [x EXCEPT !.code = k, !.count = n, !.recent = TRUE]
  <2>1. n \in Nat /\ k \in {NoCode} \cup Texts
    BY DEF Attempt
  <2>2. Stored(x, k) = y
    BY DEF Stored
  <2> HIDE DEF n
  <2>3. y \in Attempt /\ y.code = k /\ y.count = n
    BY <1>1, <2>1
  <2> HIDE DEF y
  <2> QED
    BY <2>2, <2>3 DEF n
<1>3. LET y == [x EXCEPT !.code = NoCode, !.recent = TRUE]
      IN  y \in Attempt /\ y.code = NoCode /\ y.count = x.count
  BY DEF Attempt
<1> QED
  BY <1>2, <1>3

\* Every step of a request, of the phone's codes and of time keeps the invariant.
LEMMA CodesStep ==
  ASSUME CodesInv, [CodesNext]_codeVars
  PROVE  CodesInv'
<1>0. /\ CodesTypeOK /\ RowCountInv /\ SourceInv /\ PlaceInv /\ SpentInv /\ KeptInv
      /\ AloneInv /\ LimitInv /\ WorksInv
  BY DEF CodesInv
<1>n. /\ made \in 0..sends /\ sends \in 0..MaxSends /\ made \in Nat /\ sends \in Nat
      /\ MaxSends \in Nat /\ Texts = 1..MaxSends
      /\ guest \in {"none", "new", "verified"}
      /\ Guest \in Records /\ Texts \subseteq Records /\ Guest \notin Texts
      /\ \A i \in Records : attempt[i] \in Attempt
      /\ \A c \in Callers : caller[c] \in Caller
  <2>1. Guest \in Records /\ Texts \subseteq Records /\ Guest \notin Texts
    BY CodeNumbers
  <2>2. MaxSends \in Nat /\ Texts = 1..MaxSends
    BY CodeNumbers DEF Texts
  <2> QED
    BY <1>0, <2>1, <2>2 DEF CodesTypeOK
<1>f. \A i \in Records : /\ attempt[i].code \in {NoCode} \cup Texts /\ attempt[i].count \in Nat
                         /\ attempt[i].recent \in BOOLEAN
  BY <1>n DEF Attempt
<1>1. ASSUME NEW c \in Callers, SendSignUpOtp(c)
      PROVE  CodesInv'
  <2> DEFINE row == IF Live = {} THEN Unmade ELSE LatestRow
  <2>1. Asks(c, row) /\ (Live # {} => Allowed(LatestRow))
    BY <1>1 DEF SendSignUpOtp
  <2>2. CASE Live = {}
    <3>1. \A i \in Texts : ~Works(i)
      BY <1>0, <1>n, <2>2 DEF Live, SourceInv, Works
    <3>2. Asks(c, Unmade)
      BY <2>1, <2>2
    <3>3. Unmade \notin Texts /\ Unmade # Guest /\ Unmade \notin Records
      BY CodeNumbers
    <3> QED
      BY <3>1, <3>2, <3>3, AskStep
  <2>3. CASE Live # {}
    <3>1. LatestRow \in Texts /\ LatestRow <= made /\ Works(LatestRow)
      BY <1>0, <1>n, <2>3, LatestThere DEF Live
    <3>2. Asks(c, LatestRow) /\ attempt[LatestRow].count < Limit
      BY <2>1, <2>3 DEF Allowed
    <3>3. LatestRow # Guest /\ LatestRow # Unmade
      BY <3>1, CodeNumbers
    <3> QED
      BY <1>n, <3>1, <3>2, <3>3, AskStep
  <2> QED
    BY <2>2, <2>3
<1>2. ASSUME NEW c \in Callers, CreateOtp(c)
      PROVE  CodesInv'
  <2> DEFINE i == made + 1
             y == [code |-> caller[c].code, count |-> 0, recent |-> TRUE]
  <2>1. /\ At(c, "store") /\ caller[c].row = Unmade /\ made' = i /\ Ends(c)
        /\ attempt' = [attempt EXCEPT ![i] = y]
        /\ rushed' = IF caller[c].crowded THEN rushed \cup {i} ELSE rushed
        /\ UNCHANGED <<guest, sends, due, used, doubled, replaced, spoilt>>
    BY <1>2 DEF CreateOtp
  <2>2. i \in Texts
    <3>1. c \in Storing /\ Storing \subseteq Callers /\ IsFiniteSet(Storing)
      <4>1. c \in Storing /\ Storing \subseteq Callers
        BY <2>1 DEF Storing
      <4> QED
        BY <4>1, CodeNumbers, FS_Subset
    <3>2. Cardinality(Storing) \in Nat /\ Cardinality(Storing) # 0
      BY <3>1, FS_CardinalityType, FS_EmptySet
    <3> QED
      BY <1>0, <1>n, <3>2 DEF RowCountInv
  <2>3. /\ caller[c].code \in {NoCode} \cup Texts
        /\ y \in Attempt /\ y.code = caller[c].code /\ y.count = 0
    BY <1>n DEF Caller, Attempt
  <2>4. attempt[i].code = NoCode
    BY <1>0, <1>n, <2>2 DEF SourceInv
  <2>5. i \in Texts \ rushed' => \A j \in Texts \ rushed : Works(j) => j = i
    <3> SUFFICES ASSUME i \in Texts \ rushed' PROVE \A j \in Texts : ~Works(j)
      OBVIOUS
    <3>1. ~caller[c].crowded /\ InAsk(c)
      BY <2>1 DEF InAsk
    <3> QED
      BY <1>0, <2>1, <3>1 DEF WorksInv
  <2>6. i # Guest /\ y.count <= Limit /\ i <= made'
    BY <1>n, <2>1, <2>2, <2>3, CodeNumbers
  <2>7. replaced \subseteq Texts /\ spoilt \subseteq Texts
    BY <1>0 DEF CodesTypeOK
  <2>8. i \in Records
    BY <1>n, <2>2
  <2> HIDE DEF i, y
  <2> QED
    BY <1>n, <2>1, <2>2, <2>3, <2>4, <2>5, <2>6, <2>7, <2>8, StoreStep DEF i
<1>3. ASSUME NEW c \in Callers, SpendOtp(c)
      PROVE  CodesInv'
  <2> DEFINE i == caller[c].row
             y == [attempt[i] EXCEPT !.code = NoCode, !.recent = TRUE]
  <2>1. Spends(c) /\ At(c, "spend") /\ guest' = guest
        /\ attempt' = [attempt EXCEPT ![i].code = NoCode, ![i].recent = TRUE]
    BY <1>3 DEF SpendOtp, Spends
  <2>2. i \in Records
    BY <1>0, <2>1 DEF SourceInv
  <2>3. y \in Attempt /\ y.code = NoCode /\ y.count = attempt[i].count
    <3>1. attempt[i] \in Attempt
      BY <1>n, <2>2
    <3> QED
      BY <3>1, RowsWritten
  <2>4. attempt' = [attempt EXCEPT ![i] = y]
    <3>1. attempt \in [Records -> Attempt] /\ attempt[i] \in Attempt
      BY <1>0, <2>2 DEF CodesTypeOK
    <3> QED
      BY <2>1, <2>2, <3>1 DEF Attempt
  <2>5. y.count <= attempt[i].count
    BY <1>f, <2>2, <2>3
  <2> HIDE DEF y
  <2> QED
    BY <1>n, <2>1, <2>3, <2>4, <2>5, SpendStep
<1>4. ASSUME NEW c \in Callers, NEW k \in Texts, VerifyLoginV2(c, k) \/ GrandCelebrationLogin(c, k)
      PROVE  CodesInv'
  <2>1. PICK i \in Records : Shows(c, k, i)
    <3>1. 1..made \subseteq Records
      BY <1>n
    <3> QED
      BY <1>4, <1>n, <3>1 DEF VerifyLoginV2, GrandCelebrationLogin
  <2> QED
    BY <2>1, ShowStep
<1>5. ASSUME NEW c \in Callers, GranCelebrationSignUp(c)
      PROVE  CodesInv'
  <2>1. Asks(c, Unsigned)
    BY <1>5 DEF GranCelebrationSignUp
  <2>2. Unsigned \notin Records /\ Unsigned \notin Texts /\ Unsigned # Guest /\ Unsigned # Unmade
    BY CodeNumbers
  <2> QED
    BY <2>1, <2>2, AskStep
<1>6. ASSUME NEW c \in Callers, GrandCelebrationResendOtp(c)
      PROVE  CodesInv'
  <2>1. Asks(c, Guest) /\ guest # "none" /\ attempt[Guest].count < Limit
    BY <1>6 DEF GrandCelebrationResendOtp, Allowed
  <2>2. Guest # Unmade
    BY CodeNumbers
  <2> QED
    BY <1>n, <2>1, <2>2, AskStep
<1>7. ASSUME NEW c \in Callers, CreateGuest(c)
      PROVE  CodesInv'
  <2>1. At(c, "store") /\ InAsk(c) /\ caller[c].code \in Texts
    BY <1>0, <1>7, <1>n DEF CreateGuest, InAsk, SourceInv
  <2>2. replaced \subseteq Texts /\ spoilt \subseteq Texts
    BY <1>0 DEF CodesTypeOK
  <2>3. CASE guest = "none"
    <3> DEFINE y == Stored(Absent, caller[c].code)
    <3>1. /\ guest' = "new" /\ attempt' = [attempt EXCEPT ![Guest] = y] /\ Ends(c)
          /\ rushed' = IF caller[c].crowded THEN rushed \cup {Guest} ELSE rushed
          /\ UNCHANGED <<made, sends, due, used, doubled, replaced, spoilt>>
      BY <1>7, <2>3 DEF CreateGuest
    <3>2. y \in Attempt /\ y.code = caller[c].code /\ y.count = 1
      <4>1. Absent \in Attempt /\ Absent.count = 0
        BY DEF Absent, Attempt
      <4>2. y \in Attempt /\ y.code = caller[c].code /\ y.count = Absent.count + 1
        BY <2>1, <4>1, RowsWritten
      <4> QED
        BY <4>1, <4>2
    <3>3. y.count <= Limit
      <4>1. Limit \in Nat \ {0}
        BY CodeNumbers
      <4> HIDE DEF y
      <4> QED
        BY <3>2, <4>1
    <3>4. attempt[Guest].code = NoCode
      BY <1>0, <2>3 DEF SourceInv
    <3> HIDE DEF y
    <3> QED
      BY <1>n, <2>1, <2>2, <3>1, <3>2, <3>3, <3>4, StoreStep
  <2>4. CASE guest # "none"
    <3>1. /\ spoilt' = spoilt \cup {caller[c].code}
          /\ UNCHANGED <<attempt, guest, rushed, made, sends, due, used, doubled, replaced>>
          /\ IF guest = "verified" /\ Allowed(Guest)
             THEN caller' = [caller EXCEPT ![c].pc = "send", ![c].row = Guest, ![c].code = NoCode]
             ELSE Ends(c)
      BY <1>7, <2>4 DEF CreateGuest
    <3>2. spoilt \subseteq spoilt' /\ spoilt' \subseteq Texts /\ caller[c].code \in spoilt'
      BY <2>1, <2>2, <3>1
    <3>3. CASE guest = "verified" /\ Allowed(Guest)
      <4> DEFINE u == [caller[c] EXCEPT !.pc = "send", !.row = Guest, !.code = NoCode]
      <4>1. u \in Caller /\ u.pc = "send" /\ u.row = Guest /\ u.crowded = caller[c].crowded
        BY <1>n DEF Caller
      <4>2. caller' = [caller EXCEPT ![c] = u]
        BY <1>0, <3>1, <3>3 DEF CodesTypeOK, Caller
      <4>3. attempt[Guest].count < Limit
        BY <3>3 DEF Allowed
      <4> HIDE DEF u
      <4> QED
        BY <2>1, <2>4, <3>1, <3>2, <4>1, <4>2, <4>3, BackStep
    <3>4. CASE ~(guest = "verified" /\ Allowed(Guest))
      <4>1. Gone \in Caller /\ Gone.pc = "idle" /\ caller' = [caller EXCEPT ![c] = Gone]
        BY <3>1, <3>4 DEF Ends, Gone, Caller, NoCode
      <4> QED
        BY <3>1, <3>2, <4>1, BackStep
    <3> QED
      BY <3>3, <3>4
  <2> QED
    BY <2>3, <2>4
<1>8. ASSUME NEW c \in Callers, LoggedInRecord(c)
      PROVE  CodesInv'
  <2> DEFINE y == [Absent EXCEPT !.recent = TRUE]
  <2>1. caller[c].row = Guest /\ Spends(c) /\ guest' = "verified"
        /\ attempt' = [attempt EXCEPT ![Guest] = y]
    BY <1>8 DEF LoggedInRecord
  <2>2. y \in Attempt /\ y.code = NoCode /\ y.count = 0
    BY DEF Absent, Attempt
  <2>3. y.count <= attempt[Guest].count
    BY <1>f, <1>n, <2>2
  <2> HIDE DEF y
  <2> QED
    BY <2>1, <2>2, <2>3, SpendStep
<1>9. ASSUME NEW c \in Callers, UpdateOtp(c)
      PROVE  CodesInv'
  <2> DEFINE i == caller[c].row
             old == attempt[i].code
             n == caller[c].code
             y == Stored(attempt[i], n)
  <2>1. /\ At(c, "store") /\ InAsk(c) /\ i \in Records /\ n \in Texts /\ Ends(c)
        /\ attempt' = [attempt EXCEPT ![i] = y]
        /\ rushed' = IF caller[c].crowded THEN rushed \cup {i} ELSE rushed
        /\ IF old > n THEN spoilt' = spoilt \cup {old} /\ UNCHANGED replaced
           ELSE replaced' = replaced \cup ({old} \ {NoCode}) /\ UNCHANGED spoilt
        /\ UNCHANGED <<made, guest, sends, due, used, doubled>>
    <3>1. At(c, "store")
      BY <1>9 DEF UpdateOtp
    <3>2. InAsk(c) /\ n \in Texts
      BY <1>0, <1>n, <3>1 DEF InAsk, SourceInv
    <3> QED
      BY <1>0, <1>9, <3>1, <3>2 DEF UpdateOtp, CodesTypeOK
  <2>2. y \in Attempt /\ y.code = n /\ y.count = attempt[i].count + 1
    <3>1. attempt[i] \in Attempt
      BY <1>n, <2>1
    <3> QED
      BY <2>1, <3>1, RowsWritten
  <2>3. /\ replaced \subseteq replaced' /\ replaced' \subseteq Texts
        /\ spoilt \subseteq spoilt' /\ spoilt' \subseteq Texts
        /\ old = NoCode \/ old \in replaced' \cup spoilt'
    <3>1. old \in {NoCode} \cup Texts /\ replaced \subseteq Texts /\ spoilt \subseteq Texts
      BY <1>0, <1>f, <2>1 DEF CodesTypeOK
    <3>2. old > n => old \in Texts
      BY <2>1, <3>1, CodeNumbers
    <3> HIDE DEF old
    <3> QED
      BY <2>1, <3>1, <3>2
  <2>4. i \notin rushed' => ~caller[c].crowded /\ i \in Records \ rushed
    BY <2>1
  <2>5. i \notin rushed' => y.count <= Limit
    <3> SUFFICES ASSUME i \notin rushed' PROVE y.count <= Limit
      OBVIOUS
    <3>1. attempt[i].count < Limit /\ attempt[i].count \in Nat
      BY <1>0, <1>f, <2>1, <2>4 DEF LimitInv
    <3> QED
      BY <2>2, <3>1, CodeNumbers
  <2>6. i \in Texts \ rushed' => \A j \in Texts \ rushed : Works(j) => j = i
    BY <1>0, <2>1, <2>4 DEF WorksInv
  <2>7. (i \in Texts => i <= made) /\ (i = Guest => guest # "none")
    BY <1>0, <2>1 DEF SourceInv
  <2> HIDE DEF y
  <2> QED
    BY <1>n, <2>1, <2>2, <2>3, <2>5, <2>6, <2>7, StoreStep
<1>10. ASSUME NEW c \in Callers, CallFails(c)
       PROVE  CodesInv'
  <2>1. Gone \in Caller /\ Gone.pc = "idle" /\ caller' = [caller EXCEPT ![c] = Gone]
    BY <1>10 DEF CallFails, Ends, Gone, Caller, NoCode
  <2>2. /\ UNCHANGED <<attempt, made, guest, sends, due, used, doubled, rushed, replaced>>
        /\ spoilt' = IF At(c, "store") THEN spoilt \cup {caller[c].code} ELSE spoilt
    BY <1>10 DEF CallFails
  <2>3. At(c, "store") => caller[c].code \in Texts
    BY <1>0, <1>n DEF SourceInv
  <2>4. /\ spoilt \subseteq spoilt' /\ spoilt' \subseteq Texts
        /\ At(c, "store") => caller[c].code \in spoilt'
    BY <1>0, <2>2, <2>3 DEF CodesTypeOK
  <2> QED
    BY <2>1, <2>2, <2>4, BackStep
<1>11. CASE UNCHANGED codeVars
  BY <1>0, <1>11 DEF codeVars, CodesInv, CodesTypeOK, RowCountInv, SourceInv, PlaceInv, SpentInv,
                     KeptInv, AloneInv, LimitInv, WorksInv, Storing, At, InAsk, Works
<1> QED
  BY <1>1, <1>2, <1>3, <1>4, <1>5, <1>6, <1>7, <1>8, <1>9, <1>10, <1>11, SendStep, TimeStep
     DEF CodesNext, StudentCodes, GuestCodes, Sending

\* The invariant holds in every state.
LEMMA CodesAlways == CodesSpec => []CodesInv
<1>1. CodesInit => CodesInv
  <2> SUFFICES ASSUME CodesInit PROVE CodesInv
    OBVIOUS
  <2>1. /\ attempt = [i \in Records |-> Absent] /\ made = 0 /\ guest = "none"
        /\ caller = [c \in Callers |-> Gone] /\ sends = 0 /\ due = [k \in Texts |-> 0]
        /\ used = [k \in Texts |-> 0] /\ doubled = {} /\ rushed = {} /\ replaced = {} /\ spoilt = {}
    BY DEF CodesInit
  <2>2. /\ Absent \in Attempt /\ Absent.code = NoCode /\ Absent.count = 0
        /\ Gone \in Caller /\ Gone.pc = "idle"
    BY DEF Absent, Attempt, Gone, Caller
  <2>3. /\ \A i \in Records : attempt[i].code = NoCode /\ attempt[i].count = 0
        /\ \A c \in Callers : caller[c].pc = "idle" /\ ~InAsk(c) /\ ~At(c, "store") /\ ~At(c, "spend")
        /\ \A k \in Texts : used[k] = 0
    BY <2>1, <2>2 DEF InAsk, At
  <2>4. CodesTypeOK
    BY <2>1, <2>2, CodeNumbers DEF CodesTypeOK
  <2>5. RowCountInv
    <3>1. Storing = {}
      BY <2>3 DEF Storing
    <3> QED
      BY <2>1, <3>1, FS_EmptySet DEF RowCountInv
  <2>6. Texts \subseteq Records /\ Guest \in Records
    BY CodeNumbers
  <2>7. SourceInv /\ PlaceInv /\ KeptInv
    BY <2>1, <2>3, <2>6, CodeNumbers DEF SourceInv, PlaceInv, KeptInv
  <2>8. SpentInv
    BY <2>1, <2>3, CodeNumbers DEF SpentInv
  <2>9. \A i \in Texts : ~Works(i)
    BY <2>3, <2>6 DEF Works
  <2>10. AloneInv /\ LimitInv /\ WorksInv
    BY <2>1, <2>3, <2>9, CodeNumbers DEF AloneInv, LimitInv, WorksInv
  <2> QED
    BY <2>4, <2>5, <2>7, <2>8, <2>10 DEF CodesInv
<1>2. CodesInv /\ [CodesNext]_codeVars => CodesInv'
  BY CodesStep
<1> QED
  BY <1>1, <1>2, PTL DEF CodesSpec

\* Every variable of the records, the codes and the calls keeps its type.
THEOREM CodesTyped == CodesSpec => []CodesTypeOK
<1>1. CodesInv => CodesTypeOK
  BY DEF CodesInv
<1> QED
  BY <1>1, CodesAlways, PTL

\* A code signs in once and a phone has one code that works, at most its limit of
\* them, but for requests that overlapped; and a code that works stays where it is.
THEOREM CodesSafe == CodesSpec => []CodesHold
<1>1. CodesInv => CodesHold
  BY DEF CodesInv, CodesHold, SpentInv, LimitInv, WorksInv, KeptInv
<1> QED
  BY <1>1, CodesAlways, PTL
=============================================================================
