------------------------------ MODULE Identity ------------------------------
(***************************************************************************)
(* Who a request acts for, and in which workspace: sign-in against the     *)
(* identity provider, linkOrCreateUserBySubject, the session that pins the *)
(* local account, the hint cookie, and resolveWorkspace.                   *)
(*                                                                         *)
(* A sign-in looks its account up by subject, then by e-mail, then writes, *)
(* each a statement of its own outside any transaction, so sign-ins of the *)
(* same person, and of people who share an address, interleave.            *)
(*                                                                         *)
(* External: the profile the provider vouches for, and the operator, who   *)
(* provisions accounts and grants and revokes memberships.  Accounts are   *)
(* numbered as they are created.                                           *)
(***************************************************************************)
EXTENDS Naturals, Sequences, FiniteSets

CONSTANTS
  Browsers,    \* each with its cookies
  Rooms,       \* workspaces
  Profiles,    \* what the provider may vouch for: subject, email, verified
  Provisioned, \* accounts the operator has created, without a subject
  Unlinked,    \* the subject of an account nobody has signed in to
  NoRoom,      \* no hint
  MaxGrants    \* bound: memberships granted

ASSUME IdentityAssumption ==
  /\ Provisioned \in Seq([email : {p.email : p \in Profiles}])
  /\ \A i, j \in DOMAIN Provisioned : i # j => Provisioned[i].email # Provisioned[j].email
  /\ \A p \in Profiles : p.subject # Unlinked /\ p.verified \in BOOLEAN
  /\ NoRoom \notin Rooms
  /\ MaxGrants \in Nat

VARIABLES
  accounts,     \* the rows of app_user: email and subject
  memberships,  \* the rows of membership, oldest first: <<account, room>>
  cookies,      \* each browser's session (0: none) and hint
  signin,       \* the sign-in of each browser
  request,      \* the request of each browser
  granted,      \* memberships granted so far
  proofs        \* <<subject, account>>: who created it, or proved its e-mail

identityVars == <<accounts, memberships, cookies, signin, request, granted, proofs>>

Out == [uid |-> 0, subject |-> Unlinked, hint |-> NoRoom]
NotSigningIn == [phase |-> "idle", profile |-> <<>>, found |-> 0]
NoRequest == [uid |-> 0, room |-> NoRoom]

IdentityInit ==
  /\ accounts = [i \in DOMAIN Provisioned |-> [email |-> Provisioned[i].email, subject |-> Unlinked]]
  /\ memberships = <<>>
  /\ cookies = [b \in Browsers |-> Out]
  /\ signin = [b \in Browsers |-> NotSigningIn]
  /\ request = [b \in Browsers |-> NoRequest]
  /\ granted = {}
  /\ proofs = {}

-----------------------------------------------------------------------------
(* Sign-in.                                                                *)

SigningIn(b, phase) == signin[b].phase = phase

\* The cookies of the account that is signed in, and of the last hint.
Established(b, uid) ==
  /\ cookies' = [cookies EXCEPT ![b].uid = uid, ![b].subject = signin[b].profile.subject]
  /\ signin' = [signin EXCEPT ![b] = NotSigningIn]

\* Out of a session: one that is replaced might as well have expired.
StartSignIn(b, profile) ==
  /\ SigningIn(b, "idle") /\ cookies[b].uid = 0 /\ request[b] = NoRequest
  /\ signin' = [signin EXCEPT ![b] = [phase |-> "subject", profile |-> profile, found |-> 0]]
  /\ UNCHANGED <<accounts, memberships, cookies, request, granted, proofs>>

FindBySubject(b) ==
  /\ SigningIn(b, "subject")
  /\ LET known == {i \in DOMAIN accounts : accounts[i].subject = signin[b].profile.subject}
     IN  IF known # {}
         THEN \E i \in known : Established(b, i)
         ELSE /\ signin' = [signin EXCEPT ![b].phase = "email"]
              /\ UNCHANGED cookies
  /\ UNCHANGED <<accounts, memberships, request, granted, proofs>>

\* An unverified address of an existing account fails the sign-in.
FindByEmail(b) ==
  /\ SigningIn(b, "email")
  /\ LET known == {i \in DOMAIN accounts : accounts[i].email = signin[b].profile.email}
     IN  signin' = [signin EXCEPT
           ![b] = IF known = {} THEN [@ EXCEPT !.phase = "create"]
                  ELSE IF ~signin[b].profile.verified THEN NotSigningIn
                  ELSE [@ EXCEPT !.phase = "link", !.found = CHOOSE i \in known : TRUE]]
  /\ UNCHANGED <<accounts, memberships, cookies, request, granted, proofs>>

Proven(b, uid) ==
  proofs' = proofs \cup {<<signin[b].profile.subject, uid>>}

\* Whatever subject the row has gives way; unique(external_subject) fails the
\* sign-in when another row has got this one meanwhile.
LinkAccount(b) ==
  /\ SigningIn(b, "link")
  /\ LET uid == signin[b].found
     IN  IF \E i \in (DOMAIN accounts) \ {uid} : accounts[i].subject = signin[b].profile.subject
         THEN /\ signin' = [signin EXCEPT ![b] = NotSigningIn]
              /\ UNCHANGED <<accounts, cookies, proofs>>
         ELSE /\ accounts' = [accounts EXCEPT ![uid].subject = signin[b].profile.subject]
              /\ Established(b, uid)
              /\ IF signin[b].profile.verified /\ accounts[uid].email = signin[b].profile.email
                 THEN Proven(b, uid) ELSE UNCHANGED proofs
  /\ UNCHANGED <<memberships, request, granted>>

NewAccount(b) ==
  [email |-> signin[b].profile.email, subject |-> signin[b].profile.subject]

\* Mutant: e-mail addresses are not unique.
CreateAnother(b) ==
  /\ SigningIn(b, "create")
  /\ accounts' = Append(accounts, NewAccount(b))
  /\ Established(b, Len(accounts) + 1)
  /\ Proven(b, Len(accounts) + 1)
  /\ UNCHANGED <<memberships, request, granted>>

\* Both columns are unique: the second of two first sign-ins fails.
CreateAccount(b) ==
  /\ SigningIn(b, "create")
  /\ LET new == NewAccount(b)
     IN  IF \E i \in DOMAIN accounts :
              accounts[i].email = new.email \/ accounts[i].subject = new.subject
         THEN /\ signin' = [signin EXCEPT ![b] = NotSigningIn]
              /\ UNCHANGED <<accounts, cookies, proofs>>
         ELSE /\ accounts' = Append(accounts, new)
              /\ Established(b, Len(accounts) + 1)
              /\ Proven(b, Len(accounts) + 1)
  /\ UNCHANGED <<memberships, request, granted>>

-----------------------------------------------------------------------------
(* Memberships and requests.                                               *)

GrantMembership(uid, w) ==
  /\ Cardinality(granted) < MaxGrants
  /\ <<uid, w>> \notin {memberships[i] : i \in DOMAIN memberships}
  /\ memberships' = Append(memberships, <<uid, w>>)
  /\ granted' = granted \cup {<<uid, w>>}
  /\ UNCHANGED <<accounts, cookies, signin, request, proofs>>

RevokeMembership(i) ==
  /\ memberships' = [j \in 1 .. Len(memberships) - 1 |->
                       memberships[IF j < i THEN j ELSE j + 1]]
  /\ UNCHANGED <<accounts, cookies, signin, request, granted, proofs>>

\* Where the memberships of an account are, the oldest first.
RoomsOf(uid) == {i \in DOMAIN memberships : memberships[i][1] = uid}

\* resolveWorkspace: the hint selects among live memberships, the oldest of
\* which is the default.  The others redirect to sign-in.
ResolvesTo(b, w) ==
  LET mine == RoomsOf(cookies[b].uid)
      hinted == {i \in mine : memberships[i][2] = cookies[b].hint}
  IN  /\ cookies[b].uid # 0
      /\ \E i \in mine :
           /\ IF hinted # {} THEN i \in hinted ELSE \A j \in mine : i <= j
           /\ w = memberships[i][2]

StartRequest(b, w) ==
  /\ request[b] = NoRequest /\ SigningIn(b, "idle")
  /\ ResolvesTo(b, w)
  /\ request' = [request EXCEPT ![b] = [uid |-> cookies[b].uid, room |-> w]]
  /\ UNCHANGED <<accounts, memberships, cookies, signin, granted, proofs>>

FinishRequest(b) ==
  /\ request[b] # NoRequest
  /\ request' = [request EXCEPT ![b] = NoRequest]
  /\ UNCHANGED <<accounts, memberships, cookies, signin, granted, proofs>>

\* The form may name any workspace; the gate runs first.
SwitchWorkspace(b, w) ==
  /\ request[b] # NoRequest
  /\ cookies' = [cookies EXCEPT ![b].hint = w]
  /\ request' = [request EXCEPT ![b] = NoRequest]
  /\ UNCHANGED <<accounts, memberships, signin, granted, proofs>>

\* The hint goes first; a session that just expires leaves it behind.
SignOut(b) ==
  /\ cookies[b].uid # 0 /\ request[b] = NoRequest
  /\ cookies' = [cookies EXCEPT ![b] = Out]
  /\ UNCHANGED <<accounts, memberships, signin, request, granted, proofs>>

SessionExpires(b) ==
  /\ cookies[b].uid # 0
  /\ cookies' = [cookies EXCEPT ![b].uid = 0, ![b].subject = Unlinked]
  /\ UNCHANGED <<accounts, memberships, signin, request, granted, proofs>>

IdentityNext ==
  \/ \E b \in Browsers :
       \/ \E profile \in Profiles : StartSignIn(b, profile)
       \/ FindBySubject(b) \/ FindByEmail(b) \/ LinkAccount(b) \/ CreateAccount(b)
       \/ \E w \in Rooms : StartRequest(b, w) \/ SwitchWorkspace(b, w)
       \/ FinishRequest(b) \/ SignOut(b) \/ SessionExpires(b)
  \/ \E uid \in DOMAIN accounts, w \in Rooms : GrantMembership(uid, w)
  \/ \E i \in DOMAIN memberships : RevokeMembership(i)

IdentitySpec == IdentityInit /\ [][IdentityNext]_identityVars

-----------------------------------------------------------------------------
(* Properties.                                                             *)

IdentityTypeOK ==
  /\ accounts \in Seq([email : {p.email : p \in Profiles},
                       subject : {p.subject : p \in Profiles} \cup {Unlinked}])
  /\ memberships \in Seq((DOMAIN accounts) \X Rooms)
  /\ \A b \in Browsers :
       /\ cookies[b].uid \in {0} \cup DOMAIN accounts
       /\ cookies[b].hint \in Rooms \cup {NoRoom}
       /\ signin[b].phase \in {"idle", "subject", "email", "link", "create"}
       /\ SigningIn(b, "link") <=> signin[b].found # 0
       /\ request[b].uid \in {0} \cup DOMAIN accounts

OneAccountEach ==
  \A i, j \in DOMAIN accounts :
     i # j => /\ accounts[i].email # accounts[j].email
              /\ accounts[i].subject = accounts[j].subject => accounts[i].subject = Unlinked

\* However sign-ins race, there is one account per e-mail and per subject; the
\* subject an account carries, and the one behind a session, has created that
\* account or proved its e-mail; and a request acts for a signed-in account in
\* a workspace the operator once granted it.
\* (auth.ts:11-13, drizzle-store.ts:664-709, resolver.ts:33-55)
RequestsAreEarned ==
  /\ OneAccountEach
  /\ \A i \in DOMAIN accounts :
        accounts[i].subject # Unlinked => <<accounts[i].subject, i>> \in proofs
  /\ \A b \in Browsers :
        /\ cookies[b].uid # 0 => <<cookies[b].subject, cookies[b].uid>> \in proofs
        /\ request[b].uid # 0 => <<request[b].uid, request[b].room>> \in granted
=============================================================================
