------------------------- MODULE BackOfficeProofs ---------------------------
(***************************************************************************)
(* Theorems about Team, Onboarding, KeyRotation, EmailOutbox and TokenCache,*)
(* for any numbers of their rows, requests and processes, and about all the*)
(* components around the payments together.  The arguments are told where  *)
(* each begins.                                                            *)
(***************************************************************************)
EXTENDS MCBackOffice, InvoicesProofs, AuthProofs

-----------------------------------------------------------------------------
(***************************************************************************)
(* Team.  A member that came by an invitation has its address, and an      *)
(* accepted invitation is the one of the user with that address, because a *)
(* second acceptance would need the address to be free.  A revocation that *)
(* finds its invitation accepted has overlapped the acceptance.            *)
(***************************************************************************)
UpdatesFit ==
    \A r \in Admins :
        /\ update[r].op \in {"invite", "update"} => update[r].on \in Emails
        /\ update[r].op \in {"accept", "revoke"} =>
              /\ update[r].on \in Invitations
              /\ invitation[update[r].on].status # "absent"

InvitationsNameEmails ==
    \A i \in Invitations : invitation[i].status # "absent" => invitation[i].email \in Emails

MembersNameInvitations ==
    \A e \in Emails, i \in Invitations : member[e].via = i =>
        /\ Registered(e)
        /\ invitation[i].status # "absent" /\ invitation[i].email = e

CrossingsRecorded ==
    \A r \in Admins : update[r].op = "revoke" /\ update[r].on \notin crossed =>
        /\ \A q \in Admins : update[q].op = "accept" => update[q].on # update[r].on
        /\ \A e \in Emails : member[e].via # update[r].on

TeamIInv ==
    /\ TeamTypeOK
    /\ UpdatesFit
    /\ InvitationsNameEmails
    /\ MembersNameInvitations
    /\ CrossingsRecorded
    /\ InvitationsMatchMembers

LEMMA TeamBegins == TeamInit => TeamIInv
<1> SUFFICES ASSUME TeamInit PROVE TeamIInv
  OBVIOUS
<1>1. NoUpdate \in UpdateRows /\ NoUpdate.op = "idle"
  BY DEF NoUpdate, UpdateRows
<1>2. ASSUME NEW e \in Emails PROVE member[e] \in MemberRows /\ member[e].via = None
  BY DEF TeamInit, NoMember, MemberRows, Roles
<1>3. /\ \A i \in Invitations : invitation[i].status = "absent"
      /\ \A r \in Admins : update[r] = NoUpdate
  BY DEF TeamInit
<1>4. TeamTypeOK
  <2>1. member \in [Emails -> MemberRows]
    <3>1. member = [e \in Emails |-> member[e]]
      BY DEF TeamInit
    <3> QED
      BY <1>2, <3>1
  <2>2. /\ invitation \in [Invitations -> InvitationRows]
        /\ update \in [Admins -> UpdateRows]
        /\ crossed \subseteq Invitations
    BY <1>1 DEF TeamInit, InvitationRows
  <2> QED
    BY <2>1, <2>2 DEF TeamTypeOK
<1> QED
  BY <1>1, <1>2, <1>3, <1>4, TeamAssumption
     DEF TeamIInv, UpdatesFit, InvitationsNameEmails, MembersNameInvitations, CrossingsRecorded,
         InvitationsMatchMembers

\* A request that ends is idle; the others are what they were.
LEMMA TeamCloses ==
    ASSUME TeamTypeOK, NEW r \in Admins, Complete(r)
    PROVE  /\ update' \in [Admins -> UpdateRows]
           /\ update'[r].op = "idle"
           /\ \A q \in Admins : q # r => update'[q] = update[q]
<1>1. NoUpdate \in UpdateRows /\ NoUpdate.op = "idle"
  BY DEF NoUpdate, UpdateRows
<1> QED
  BY <1>1 DEF TeamTypeOK, Complete

(***************************************************************************)
(* Reads: a request comes to know something, the rows stay.                *)
(***************************************************************************)
LEMMA ReadStep ==
    ASSUME TeamIInv, NEW r \in Admins, NEW new \in UpdateRows,
           update' = [update EXCEPT ![r] = new],
           UNCHANGED <<member, invitation>>,
           crossed \subseteq crossed', crossed' \subseteq Invitations,
           new.op \in {"idle", "invite", "update"} =>
              new.op = "idle" \/ new.on \in Emails,
           new.op \in {"accept", "revoke"} =>
              /\ new.on \in Invitations /\ invitation[new.on].status = "pending"
              /\ \A q \in Admins : update[q].on = new.on /\ update[q].op # new.op =>
                    new.on \in crossed'
    PROVE  TeamIInv'
<1> USE DEF TeamIInv
<1>1. /\ update' \in [Admins -> UpdateRows]
      /\ update'[r] = new
      /\ \A q \in Admins : q # r => update'[q] = update[q]
  BY DEF TeamTypeOK
<1>2. TeamTypeOK'
  BY <1>1 DEF TeamTypeOK
<1>3. UpdatesFit'
  BY <1>1 DEF UpdatesFit
<1>4. /\ InvitationsNameEmails' /\ MembersNameInvitations' /\ InvitationsMatchMembers'
  BY DEF InvitationsNameEmails, MembersNameInvitations, InvitationsMatchMembers, Registered
<1>5. CrossingsRecorded'
  <2> SUFFICES ASSUME NEW p \in Admins, update'[p].op = "revoke", update'[p].on \notin crossed'
               PROVE  /\ \A q \in Admins : update'[q].op = "accept" =>
                            update'[q].on # update'[p].on
                      /\ \A e \in Emails : member[e].via # update'[p].on
    BY DEF CrossingsRecorded
  <2>1. CASE p = r
    <3>1. \A e \in Emails : member[e].via # new.on
      BY <1>1, <2>1 DEF InvitationsMatchMembers
    <3> QED
      BY <1>1, <2>1, <3>1
  <2>2. CASE p # r
    <3>1. update'[p] = update[p] /\ update[p].on \notin crossed
      BY <1>1, <2>2
    <3>2. \A q \in Admins : q # r /\ update[q].op = "accept" => update[q].on # update[p].on
      BY <3>1 DEF CrossingsRecorded
    <3>3. new.op = "accept" => new.on # update[p].on
      BY <3>1
    <3>4. \A e \in Emails : member[e].via # update[p].on
      BY <3>1 DEF CrossingsRecorded
    <3> QED
      BY <1>1, <3>1, <3>2, <3>3, <3>4
  <2> QED
    BY <2>1, <2>2
<1> QED
  BY <1>2, <1>3, <1>4, <1>5

(***************************************************************************)
(* Commits.                                                                *)
(***************************************************************************)
LEMMA InviteStep ==
    ASSUME TeamIInv, NEW r \in Admins, NEW i \in Invitations, CommitInvitation(r, i)
    PROVE  TeamIInv'
<1> USE DEF TeamIInv
<1> DEFINE e == update[r].on
<1>1. /\ update[r].op = "invite" /\ invitation[i].status = "absent" /\ e \in Emails
      /\ Complete(r) /\ UNCHANGED <<member, crossed>>
  BY DEF CommitInvitation, UpdatesFit
<1>2. /\ update' \in [Admins -> UpdateRows]
      /\ update'[r].op = "idle"
      /\ \A q \in Admins : q # r => update'[q] = update[q]
  BY <1>1, TeamCloses
<1>3. /\ invitation' \in [Invitations -> InvitationRows]
      /\ invitation'[i].status = "pending" /\ invitation'[i].email = e
      /\ \A j \in Invitations : j # i => invitation'[j] = invitation[j]
  <2>1. PICK new : new = [status |-> "pending", email |-> e]
    OBVIOUS
  <2>2. new \in InvitationRows /\ new.status = "pending" /\ new.email = e
    BY <1>1, <2>1 DEF InvitationRows
  <2>3. invitation' = [invitation EXCEPT ![i] = new]
    BY <2>1 DEF CommitInvitation
  <2> QED
    BY <2>2, <2>3 DEF TeamTypeOK
<1> HIDE DEF e
<1>4. TeamTypeOK'
  BY <1>1, <1>2, <1>3 DEF TeamTypeOK
<1>5. UpdatesFit'
  BY <1>2, <1>3 DEF UpdatesFit
<1>6. InvitationsNameEmails'
  BY <1>1, <1>3 DEF InvitationsNameEmails
<1>7. \A x \in Emails : member[x].via # i
  BY <1>1 DEF MembersNameInvitations
<1>8. MembersNameInvitations' /\ InvitationsMatchMembers'
  BY <1>1, <1>3, <1>7 DEF MembersNameInvitations, InvitationsMatchMembers, Registered
<1>9. CrossingsRecorded'
  BY <1>1, <1>2 DEF CrossingsRecorded
<1> QED
  BY <1>4, <1>5, <1>6, <1>8, <1>9

LEMMA RevokeStep ==
    ASSUME TeamIInv, NEW r \in Admins, CommitRevoke(r)
    PROVE  TeamIInv'
<1> USE DEF TeamIInv
<1> DEFINE i == update[r].on
<1>1. /\ update[r].op = "revoke" /\ i \in Invitations /\ invitation[i].status # "absent"
      /\ Complete(r) /\ UNCHANGED <<member, crossed>>
  BY DEF CommitRevoke, UpdatesFit
<1>2. /\ update' \in [Admins -> UpdateRows]
      /\ update'[r].op = "idle"
      /\ \A q \in Admins : q # r => update'[q] = update[q]
  BY <1>1, TeamCloses
<1>3. /\ invitation' \in [Invitations -> InvitationRows]
      /\ invitation'[i].status = "revoked" /\ invitation'[i].email = invitation[i].email
      /\ \A j \in Invitations : j # i => invitation'[j] = invitation[j]
  BY <1>1 DEF CommitRevoke, TeamTypeOK, InvitationRows
<1>4. \A x \in Emails : member[x].via = i => i \in crossed
  BY <1>1 DEF CrossingsRecorded
<1> HIDE DEF i
<1>5. TeamTypeOK'
  BY <1>1, <1>2, <1>3 DEF TeamTypeOK
<1>6. UpdatesFit'
  BY <1>2, <1>3 DEF UpdatesFit
<1>7. InvitationsNameEmails'
  BY <1>1, <1>3 DEF InvitationsNameEmails
<1>8. MembersNameInvitations'
  BY <1>1, <1>3 DEF MembersNameInvitations, Registered
<1>9. InvitationsMatchMembers'
  BY <1>1, <1>3, <1>4 DEF InvitationsMatchMembers
<1>10. CrossingsRecorded'
  BY <1>1, <1>2 DEF CrossingsRecorded
<1> QED
  BY <1>5, <1>6, <1>7, <1>8, <1>9, <1>10

LEMMA AcceptStep ==
    ASSUME TeamIInv, NEW r \in Admins, CommitAccept(r)
    PROVE  TeamIInv'
<1> USE DEF TeamIInv
<1> DEFINE i == update[r].on
           e == invitation[i].email
<1>1. /\ update[r].op = "accept" /\ i \in Invitations /\ invitation[i].status # "absent"
      /\ e \in Emails /\ ~Registered(e)
      /\ Complete(r) /\ UNCHANGED crossed
  BY DEF CommitAccept, EmailTaken, UpdatesFit, InvitationsNameEmails
<1>2. /\ update' \in [Admins -> UpdateRows]
      /\ update'[r].op = "idle"
      /\ \A q \in Admins : q # r => update'[q] = update[q]
  BY <1>1, TeamCloses
<1>3. /\ invitation' \in [Invitations -> InvitationRows]
      /\ invitation'[i].status = "accepted" /\ invitation'[i].email = e
      /\ \A j \in Invitations : j # i => invitation'[j] = invitation[j]
  BY <1>1 DEF CommitAccept, TeamTypeOK, InvitationRows
<1>4. /\ member' \in [Emails -> MemberRows]
      /\ member'[e].via = i /\ member'[e].status = "active"
      /\ \A x \in Emails : x # e => member'[x] = member[x]
  <2>1. PICK new : new = [status |-> "active", role |-> "admin", via |-> i]
    OBVIOUS
  <2>2. new \in MemberRows /\ new.via = i /\ new.status = "active"
    BY <1>1, <2>1 DEF MemberRows, Roles
  <2>3. member' = [member EXCEPT ![e] = new]
    BY <2>1 DEF CommitAccept
  <2> QED
    BY <1>1, <2>2, <2>3 DEF TeamTypeOK
<1>5. \A x \in Emails : member[x].via = i => x = e /\ Registered(x)
  BY <1>1 DEF MembersNameInvitations
<1>6. \A j \in Invitations : member[e].via # j
  BY <1>1 DEF MembersNameInvitations
<1>7. \A p \in Admins : update[p].op = "revoke" /\ update[p].on = i => i \in crossed
  BY <1>1 DEF CrossingsRecorded
<1> HIDE DEF i, e
<1>8. TeamTypeOK'
  BY <1>1, <1>2, <1>3, <1>4 DEF TeamTypeOK
<1>9. UpdatesFit'
  BY <1>2, <1>3 DEF UpdatesFit
<1>10. InvitationsNameEmails'
  BY <1>1, <1>3 DEF InvitationsNameEmails
<1>11. ASSUME NEW x \in Emails, NEW j \in Invitations, member'[x].via = j
       PROVE  \/ x = e /\ j = i
              \/ x # e /\ j # i /\ member'[x] = member[x] /\ invitation'[j] = invitation[j]
  BY <1>1, <1>3, <1>4, <1>5, <1>11
<1>12. MembersNameInvitations'
  <2> SUFFICES ASSUME NEW x \in Emails, NEW j \in Invitations, member'[x].via = j
               PROVE  /\ member'[x].status # "absent"
                      /\ invitation'[j].status # "absent" /\ invitation'[j].email = x
    BY DEF MembersNameInvitations, Registered
  <2> QED
    BY <1>3, <1>4, <1>11 DEF MembersNameInvitations, Registered
<1>13. InvitationsMatchMembers'
  <2>1. ASSUME NEW j \in Invitations, invitation'[j].status = "accepted"
        PROVE  member'[invitation'[j].email].via = j
    <3>1. CASE j = i
      BY <1>3, <1>4, <3>1
    <3>2. CASE j # i
      <4>1. /\ invitation'[j] = invitation[j] /\ invitation[j].email \in Emails
            /\ member[invitation[j].email].via = j
        BY <1>3, <2>1, <3>2 DEF InvitationsMatchMembers, InvitationsNameEmails
      <4> QED
        BY <1>4, <1>6, <4>1
    <3> QED
      BY <3>1, <3>2
  <2>2. ASSUME NEW x \in Emails, NEW j \in Invitations, member'[x].via = j
        PROVE  \/ invitation'[j].status = "accepted"
               \/ invitation'[j].status = "revoked" /\ j \in crossed'
    BY <1>1, <1>3, <1>11, <2>2 DEF InvitationsMatchMembers
  <2> QED
    BY <2>1, <2>2 DEF InvitationsMatchMembers
<1>14. CrossingsRecorded'
  <2> SUFFICES ASSUME NEW p \in Admins, update'[p].op = "revoke", update'[p].on \notin crossed
               PROVE  /\ \A q \in Admins : update'[q].op = "accept" =>
                            update'[q].on # update'[p].on
                      /\ \A x \in Emails : member'[x].via # update'[p].on
    BY <1>1 DEF CrossingsRecorded
  <2>1. /\ update'[p] = update[p] /\ update[p].on # i
        /\ \A q \in Admins : update[q].op = "accept" => update[q].on # update[p].on
        /\ \A x \in Emails : member[x].via # update[p].on
    BY <1>2, <1>7 DEF CrossingsRecorded
  <2> QED
    BY <1>2, <1>4, <2>1
<1> QED
  BY <1>8, <1>9, <1>10, <1>12, <1>13, <1>14

\* A step that leaves invitations alone and gives nobody another one.
LEMMA PeopleStep ==
    ASSUME TeamIInv, TeamTypeOK', UNCHANGED <<invitation, crossed>>,
           \A q \in Admins : update'[q] = update[q] \/ update'[q].op = "idle",
           \A e \in Emails : /\ member'[e].via = member[e].via
                             /\ Registered(e) => member'[e].status # "absent"
    PROVE  TeamIInv'
<1> USE DEF TeamIInv
<1>1. UpdatesFit'
  BY DEF UpdatesFit
<1>2. InvitationsNameEmails' /\ MembersNameInvitations'
  BY DEF InvitationsNameEmails, MembersNameInvitations, Registered
<1>3. InvitationsMatchMembers'
  BY DEF InvitationsMatchMembers, InvitationsNameEmails
<1>4. CrossingsRecorded'
  BY DEF CrossingsRecorded
<1> QED
  BY <1>1, <1>2, <1>3, <1>4

LEMMA RegisterStep ==
    ASSUME TeamIInv, NEW e \in Emails, RegisterElsewhere(e)
    PROVE  TeamIInv'
<1> USE DEF TeamIInv
<1>1. PICK new : new = [member[e] EXCEPT !.status = "elsewhere"]
  OBVIOUS
<1>2. member[e] \in MemberRows
  BY DEF TeamTypeOK
<1>3. new \in MemberRows /\ new.via = member[e].via /\ new.status = "elsewhere"
  BY <1>1, <1>2 DEF MemberRows
<1>4. member' = [member EXCEPT ![e] = new] /\ UNCHANGED <<invitation, update, crossed>>
  BY <1>1 DEF RegisterElsewhere
<1>5. TeamTypeOK'
  BY <1>3, <1>4 DEF TeamTypeOK
<1>6. \A x \in Emails : /\ member'[x].via = member[x].via
                        /\ Registered(x) => member'[x].status # "absent"
  BY <1>3, <1>4 DEF TeamTypeOK, Registered
<1> QED
  BY <1>4, <1>5, <1>6, PeopleStep

LEMMA MemberStep ==
    ASSUME TeamIInv, NEW r \in Admins, CommitMember(r)
    PROVE  TeamIInv'
<1> USE DEF TeamIInv
<1> DEFINE e == update[r].on
           c == update[r].change
           saw == update[r].saw
<1>1. /\ update[r].op = "update" /\ Complete(r) /\ UNCHANGED <<invitation, crossed>>
  BY DEF CommitMember
<1>2. e \in Emails /\ c \in Changes /\ member[e] \in MemberRows
  BY <1>1 DEF TeamTypeOK, UpdateRows
<1>3. PICK role, status :
          /\ role = IF c.role \in {"keep", saw.role} THEN member[e].role ELSE c.role
          /\ status = IF c.status \in {"keep", saw.status} THEN member[e].status ELSE c.status
  OBVIOUS
<1>4. /\ role \in Roles
      /\ status \in {"absent", "active", "inactive", "elsewhere"}
      /\ status = "absent" => member[e].status = "absent"
  BY <1>2, <1>3 DEF Changes, MemberRows
<1>5. PICK new : new = [member[e] EXCEPT !.role = role, !.status = status]
  OBVIOUS
<1>6. new \in MemberRows /\ new.via = member[e].via /\ new.status = status
  BY <1>2, <1>4, <1>5 DEF MemberRows
<1>7. member' = [member EXCEPT ![e] = new]
  BY <1>2, <1>3, <1>5 DEF CommitMember, TeamTypeOK, MemberRows
<1> HIDE DEF e, c, saw
<1>8. /\ update' \in [Admins -> UpdateRows]
      /\ \A q \in Admins : update'[q] = update[q] \/ update'[q].op = "idle"
  BY <1>1, TeamCloses
<1>9. TeamTypeOK'
  BY <1>1, <1>2, <1>6, <1>7, <1>8 DEF TeamTypeOK
<1>10. \A x \in Emails : /\ member'[x].via = member[x].via
                         /\ Registered(x) => member'[x].status # "absent"
  BY <1>2, <1>4, <1>6, <1>7 DEF TeamTypeOK, Registered
<1> QED
  BY <1>1, <1>8, <1>9, <1>10, PeopleStep

LEMMA TeamStep ==
    ASSUME TeamIInv, [TeamNext]_teamVars PROVE TeamIInv'
<1> USE DEF TeamIInv
<1>1. ASSUME NEW r \in Admins, NEW e \in Emails, ReadEmail(r, e) PROVE TeamIInv'
  <2>1. PICK new : new = [op |-> "invite", on |-> e]
    OBVIOUS
  <2>2. new \in UpdateRows /\ new.op = "invite" /\ new.on = e
    BY <2>1 DEF UpdateRows
  <2>3. /\ update' = [update EXCEPT ![r] = new] /\ UNCHANGED <<member, invitation, crossed>>
        /\ crossed \subseteq Invitations
    BY <1>1, <2>1 DEF ReadEmail, TeamTypeOK
  <2> QED
    BY <2>2, <2>3, ReadStep
<1>2. ASSUME NEW r \in Admins, NEW i \in Invitations, NEW op \in {"accept", "revoke"},
             ReadInvitation(r, i, op)
      PROVE  TeamIInv'
  <2>1. PICK new : new = [op |-> op, on |-> i]
    OBVIOUS
  <2>2. new \in UpdateRows /\ new.op = op /\ new.on = i
    BY <2>1 DEF UpdateRows
  <2>3. /\ update' = [update EXCEPT ![r] = new] /\ UNCHANGED <<member, invitation>>
        /\ invitation[i].status = "pending"
        /\ crossed' = IF \E q \in Admins : update[q].on = i /\ update[q].op # op
                      THEN crossed \cup {i} ELSE crossed
    BY <1>2, <2>1 DEF ReadInvitation
  <2>4. /\ crossed \subseteq crossed' /\ crossed' \subseteq Invitations
        /\ \A q \in Admins : update[q].on = i /\ update[q].op # op => i \in crossed'
    BY <2>3 DEF TeamTypeOK
  <2> QED
    BY <2>2, <2>3, <2>4, ReadStep
<1>3. ASSUME NEW r \in Admins, NEW e \in Emails, NEW c \in Changes, ReadMember(r, e, c)
      PROVE  TeamIInv'
  <2>1. PICK new : new = [op |-> "update", on |-> e, change |-> c, saw |-> member[e]]
    OBVIOUS
  <2>2. new \in UpdateRows /\ new.op = "update" /\ new.on = e
    BY <2>1 DEF UpdateRows, TeamTypeOK
  <2>3. /\ update' = [update EXCEPT ![r] = new] /\ UNCHANGED <<member, invitation, crossed>>
        /\ crossed \subseteq Invitations
    BY <1>3, <2>1 DEF ReadMember, TeamTypeOK
  <2> QED
    BY <2>2, <2>3, ReadStep
<1>4. ASSUME NEW r \in Admins, Withdraw(r) PROVE TeamIInv'
  <2>1. /\ update' \in [Admins -> UpdateRows]
        /\ \A q \in Admins : update'[q] = update[q] \/ update'[q].op = "idle"
        /\ UNCHANGED <<member, invitation, crossed>>
    BY <1>4, TeamCloses DEF Withdraw
  <2>2. TeamTypeOK'
    BY <2>1 DEF TeamTypeOK
  <2> QED
    BY <2>1, <2>2, PeopleStep DEF Registered
<1>5. CASE UNCHANGED teamVars
  <2>1. TeamTypeOK'
    BY <1>5 DEF teamVars, TeamTypeOK
  <2> QED
    BY <1>5, <2>1, PeopleStep DEF teamVars, Registered
<1> QED
  BY <1>1, <1>2, <1>3, <1>4, <1>5, RegisterStep, InviteStep, RevokeStep, AcceptStep, MemberStep
     DEF TeamNext

LEMMA TeamInvariance == TeamSpec => []TeamIInv
BY TeamBegins, TeamStep, PTL DEF TeamSpec

\* The members, invitations and requests of an organization keep their types.
THEOREM TeamTypeCorrect == TeamSpec => []TeamTypeOK
<1>1. TeamIInv => TeamTypeOK
  BY DEF TeamIInv
<1> QED
  BY <1>1, TeamInvariance, PTL

\* However invitations are accepted, revoked and repeated at once, an accepted
\* one is the one its member came by, and that member's invitation stays
\* accepted unless a revocation crossed its acceptance.
THEOREM InvitationsAlwaysMatch == TeamSpec => []InvitationsMatchMembers
<1>1. TeamIInv => InvitationsMatchMembers
  BY DEF TeamIInv
<1> QED
  BY <1>1, TeamInvariance, PTL

-----------------------------------------------------------------------------
(***************************************************************************)
(* Onboarding.  A payment that succeeded counts for every tested credential*)
(* created before it; that it was made with the active one, unless this was*)
(* "replaced", holds because a request that pays or activates has read the *)
(* active credential, and a later save marks the one it puts in its place. *)
(***************************************************************************)
OneActive == \A c, d \in ActiveCredentials : c = d

AbsentUntouched ==
    \A c \in Credentials : credential[c].status = "absent" =>
        /\ ~credential[c].tested /\ credential[c].later = {}
        /\ \A o \in Owners : owner[o].credential # c

Earned(c) ==
    \E p \in Verifications : verification[p].status = "success" /\ verification[p].with = c

PaidWithIt ==
    \A c \in ActiveCredentials \ replaced : \A p \in credential[c].later :
        verification[p].with = c

RequestsRead ==
    \A o \in Owners :
        /\ owner[o].op \in {"pay", "activate"} =>
              \A c \in ActiveCredentials \ replaced : owner[o].credential = c
        /\ owner[o].op = "activate" =>
              /\ ~Production
              /\ \A c \in ActiveCredentials \ replaced : Earned(c)

OnboardingIInv ==
    /\ OnboardingTypeOK
    /\ OneActive
    /\ AbsentUntouched
    /\ PaidWithIt
    /\ RequestsRead
    /\ ActiveIsEarned

LEMMA OnboardingBegins == OnboardingInit => OnboardingIInv
<1> SUFFICES ASSUME OnboardingInit PROVE OnboardingIInv
  OBVIOUS
<1>1. NoOwner \in OwnerRows /\ NoOwner.op = "idle" /\ NoOwner.credential = None
  BY DEF NoOwner, OwnerRows
<1>2. /\ ActiveCredentials = {}
      /\ \A c \in Credentials : ~credential[c].tested /\ credential[c].later = {}
      /\ \A o \in Owners : owner[o] = NoOwner
      /\ merchant.status = "pending_setup"
  BY DEF OnboardingInit, ActiveCredentials
<1>3. OnboardingTypeOK
  BY <1>1 DEF OnboardingInit, OnboardingTypeOK, Merchants, MerchantStates, CredentialRows,
              VerificationRows
<1> QED
  BY <1>1, <1>2, <1>3, OnboardingAssumption
     DEF OnboardingIInv, OneActive, AbsentUntouched, PaidWithIt, RequestsRead, ActiveIsEarned

\* A request that ends leaves no trace of what it read.
LEMMA OwnerCloses ==
    ASSUME OnboardingTypeOK, NEW o \in Owners, Close(o)
    PROVE  /\ owner' \in [Owners -> OwnerRows]
           /\ owner'[o].op = "idle" /\ owner'[o].credential = None
           /\ \A q \in Owners \ {o} : owner'[q] = owner[q]
<1>1. NoOwner \in OwnerRows /\ NoOwner.op = "idle" /\ NoOwner.credential = None
  BY DEF NoOwner, OwnerRows
<1> QED
  BY <1>1 DEF OnboardingTypeOK, Close

\* A save, a test or a disabling never makes a merchant active.
LEMMA Writing ==
    ASSUME OnboardingTypeOK, NEW o \in Owners, owner[o].op \in {"save", "test", "disable"}
    PROVE  /\ Wrote(o) \in MerchantStates
           /\ Wrote(o) = "active" => merchant.status = "active"
<1>1. merchant.status \in MerchantStates
  BY DEF OnboardingTypeOK, Merchants
<1>2. /\ Target["save"] = "credentials_added" /\ Target["test"] = "verified"
      /\ Target["disable"] = "pending_setup"
  BY DEF Target
<1> QED
  BY <1>1, <1>2 DEF Wrote, MerchantStates

LEMMA MerchantType ==
    ASSUME OnboardingTypeOK, NEW s \in MerchantStates,
           merchant' = [merchant EXCEPT !.status = s]
    PROVE  /\ merchant' \in Merchants /\ merchant'.status = s
           /\ merchant'.approved = merchant.approved
           /\ merchant'.environment = merchant.environment
BY DEF OnboardingTypeOK, Merchants

(***************************************************************************)
(* What the actions change.                                                *)
(***************************************************************************)
\* Another credential than "new" that is active was active before.
LEMMA BeginChange ==
    ASSUME OnboardingIInv, NEW o \in Owners, NEW op \in OwnerOps, BeginOwner(o, op)
    PROVE  OnboardingIInv'
<1> USE DEF OnboardingIInv
<1>1. PICK c \in ActiveCredentials \cup {None}, new \in OwnerRows :
          /\ c = None => ActiveCredentials = {}
          /\ MayBegin(op, c)
          /\ owner' = [owner EXCEPT ![o] = new]
          /\ new.op = op /\ new.credential = c
  <2>1. PICK c \in ActiveCredentials \cup {None} :
            /\ c = None => ActiveCredentials = {}
            /\ MayBegin(op, c)
            /\ owner' = [owner EXCEPT ![o] =
                  [op |-> op, credential |-> c,
                   same |-> op \in DOMAIN Target /\ merchant.status = Target[op]]]
    BY DEF BeginOwner
  <2>2. PICK same \in BOOLEAN : same = (op \in DOMAIN Target /\ merchant.status = Target[op])
    OBVIOUS
  <2>3. [op |-> op, credential |-> c, same |-> same] \in OwnerRows
    BY DEF OwnerRows, ActiveCredentials
  <2> QED
    BY <2>1, <2>2, <2>3
<1>2. UNCHANGED <<merchant, credential, verification, replaced>>
  BY DEF BeginOwner
<1>3. /\ ActiveCredentials' = ActiveCredentials /\ (Production' <=> Production)
      /\ \A d \in Credentials : Earned(d)' <=> Earned(d)
  BY <1>2 DEF ActiveCredentials, Production, Earned
<1>4. OnboardingTypeOK'
  BY <1>1, <1>2 DEF OnboardingTypeOK
<1>5. AbsentUntouched'
  BY <1>1, <1>2, OnboardingAssumption DEF AbsentUntouched, ActiveCredentials, OnboardingTypeOK
<1>6. op \in {"pay", "activate"} => \A d \in ActiveCredentials : c = d
  BY <1>1 DEF MayBegin, OneActive
<1>7. op = "activate" => ~Production /\ \A d \in ActiveCredentials \ replaced : Earned(d)
  <2> SUFFICES ASSUME op = "activate", NEW d \in ActiveCredentials \ replaced
               PROVE  Earned(d)
    BY <1>1 DEF MayBegin
  <2>1. Evidence(d)
    BY <1>1, <1>6 DEF MayBegin
  <2>2. credential[d].later \subseteq Verifications
    BY DEF OnboardingTypeOK, CredentialRows, ActiveCredentials
  <2> QED
    BY <2>1, <2>2 DEF Evidence, PaidWithIt, Earned
<1>8. RequestsRead'
  <2> SUFFICES ASSUME NEW q \in Owners
               PROVE  /\ owner'[q].op \in {"pay", "activate"} =>
                            \A d \in ActiveCredentials \ replaced : owner'[q].credential = d
                      /\ owner'[q].op = "activate" =>
                            ~Production /\ \A d \in ActiveCredentials \ replaced : Earned(d)
    BY <1>2, <1>3 DEF RequestsRead, ActiveCredentials
  <2>1. CASE q = o
    BY <1>1, <1>6, <1>7, <2>1 DEF OnboardingTypeOK
  <2>2. CASE q # o
    BY <1>1, <2>2 DEF OnboardingTypeOK, RequestsRead
  <2> QED
    BY <2>1, <2>2
<1>9. OneActive' /\ PaidWithIt' /\ ActiveIsEarned'
  BY <1>2, <1>3 DEF OneActive, PaidWithIt, ActiveIsEarned, Earned
<1> QED
  BY <1>4, <1>5, <1>8, <1>9

\* A step that puts no new credential in place, keeps what was paid and makes
\* the merchant active only where its active credential is earned.
Shrinks ==
    /\ ActiveCredentials' \subseteq ActiveCredentials
    /\ replaced' = replaced
    /\ \A c \in Credentials : Earned(c) => Earned(c)'
    /\ \A c \in Credentials : credential'[c].status = "absent" =>
          /\ credential[c].status = "absent"
          /\ ~credential'[c].tested /\ credential'[c].later = {}
    /\ \A o \in Owners :
          \/ owner'[o] = owner[o]
          \/ (owner'[o].op = "idle" /\ owner'[o].credential = None)
    /\ merchant'.environment = merchant.environment
    /\ merchant'.status = "active" =>
          \/ merchant.status = "active" /\ merchant'.approved = merchant.approved
          \/ /\ \A c \in ActiveCredentials \ replaced : Earned(c)
             /\ Production => merchant'.approved

LEMMA ShrinkStep ==
    ASSUME OnboardingIInv, OnboardingTypeOK', Shrinks, PaidWithIt'
    PROVE  OnboardingIInv'
<1> USE DEF OnboardingIInv
<1>1. /\ \A c \in ActiveCredentials' : c \in ActiveCredentials /\ c \in Credentials
      /\ Production' <=> Production
  BY DEF Shrinks, ActiveCredentials, Production
<1>2. OneActive'
  BY <1>1 DEF OneActive
<1>3. AbsentUntouched'
  BY OnboardingAssumption DEF Shrinks, AbsentUntouched
<1>4. RequestsRead'
  BY <1>1 DEF Shrinks, RequestsRead
<1>5. ActiveIsEarned'
  <2> SUFFICES ASSUME merchant'.status = "active"
               PROVE  /\ \A c \in ActiveCredentials' \ replaced' : Earned(c)'
                      /\ Production' => merchant'.approved
    BY DEF ActiveIsEarned, Earned
  <2>1. CASE merchant.status = "active" /\ merchant'.approved = merchant.approved
    BY <1>1, <2>1 DEF Shrinks, ActiveIsEarned, Earned
  <2>2. CASE /\ \A c \in ActiveCredentials \ replaced : Earned(c)
             /\ Production => merchant'.approved
    BY <1>1, <2>2 DEF Shrinks
  <2> QED
    BY <2>1, <2>2 DEF Shrinks
<1> QED
  BY <1>2, <1>3, <1>4, <1>5

\* A new credential takes the place of the one the request read: the merchant
\* is not active any more, or the credential is marked as replaced.
LEMMA SaveStep ==
    ASSUME OnboardingIInv, NEW o \in Owners, NEW c \in Credentials, CommitSave(o, c)
    PROVE  OnboardingIInv'
<1> USE DEF OnboardingIInv
<1> DEFINE old == owner[o].credential
           marked == \/ \E q \in Owners : owner[q].op \in {"pay", "activate"}
                     \/ Wrote(o) # "credentials_added"
<1>1. /\ owner[o].op = "save" /\ credential[c].status = "absent"
      /\ ActiveCredentials \subseteq {old}
      /\ merchant' = [merchant EXCEPT !.status = Wrote(o)]
      /\ replaced' = IF marked THEN replaced \cup {c} ELSE replaced
      /\ Close(o) /\ UNCHANGED verification
  BY DEF CommitSave, Saved
<1>2. /\ owner' \in [Owners -> OwnerRows]
      /\ owner'[o].op = "idle" /\ owner'[o].credential = None
      /\ \A q \in Owners \ {o} : owner'[q] = owner[q]
  BY <1>1, OwnerCloses
<1>3. /\ merchant' \in Merchants /\ merchant'.status = Wrote(o)
      /\ merchant'.approved = merchant.approved
      /\ merchant'.environment = merchant.environment
      /\ Wrote(o) = "active" => merchant.status = "active"
  BY <1>1, Writing, MerchantType
<1>4. /\ credential' \in [Credentials -> CredentialRows]
      /\ \A k \in Credentials :
            /\ k = c => credential'[k].status = "active" /\ credential'[k].later = {}
            /\ k # c /\ k = old => credential'[k].status = "disabled"
            /\ k # c /\ k # old => credential'[k] = credential[k]
  <2>1. ASSUME NEW k \in Credentials
        PROVE  /\ credential'[k] \in CredentialRows
               /\ k = c => credential'[k].status = "active" /\ credential'[k].later = {}
               /\ k # c /\ k = old => credential'[k].status = "disabled"
               /\ k # c /\ k # old => credential'[k] = credential[k]
    <3>1. credential[k] \in CredentialRows /\ credential[c].later = {}
      BY <1>1 DEF OnboardingTypeOK, AbsentUntouched
    <3>2. credential'[k] = IF k = c THEN [credential[c] EXCEPT !.status = "active"]
                           ELSE IF k = old THEN [credential[k] EXCEPT !.status = "disabled"]
                           ELSE credential[k]
      BY DEF CommitSave
    <3> QED
      BY <3>1, <3>2 DEF CredentialRows
  <2>2. credential' = [k \in Credentials |-> credential'[k]]
    BY DEF CommitSave
  <2> QED
    BY <2>1, <2>2
<1>5. ActiveCredentials' = {c}
  BY <1>1, <1>4 DEF ActiveCredentials
<1>6. OnboardingTypeOK'
  <2>1. replaced' \subseteq Credentials
    BY <1>1 DEF OnboardingTypeOK
  <2> QED
    BY <1>1, <1>2, <1>3, <1>4, <2>1 DEF OnboardingTypeOK
<1> HIDE DEF marked
<1>7. OneActive'
  BY <1>5 DEF OneActive
<1>8. AbsentUntouched'
  <2> SUFFICES ASSUME NEW k \in Credentials, credential'[k].status = "absent"
               PROVE  /\ ~credential'[k].tested /\ credential'[k].later = {}
                      /\ \A q \in Owners : owner'[q].credential # k
    BY DEF AbsentUntouched
  <2>1. credential'[k] = credential[k]
    BY <1>4
  <2> QED
    BY <1>2, <2>1, OnboardingAssumption DEF AbsentUntouched
<1>9. PaidWithIt'
  BY <1>4, <1>5 DEF PaidWithIt
<1>10. RequestsRead'
  <2> SUFFICES ASSUME NEW q \in Owners, owner'[q].op \in {"pay", "activate"}
               PROVE  ActiveCredentials' \ replaced' = {} /\ (owner'[q].op = "activate" => ~Production')
    BY DEF RequestsRead
  <2>1. owner'[q] = owner[q]
    BY <1>2
  <2>2. marked
    BY <2>1 DEF marked
  <2> QED
    BY <1>1, <1>3, <1>5, <2>1, <2>2 DEF RequestsRead, Production
<1>11. ActiveIsEarned'
  <2> SUFFICES ASSUME merchant'.status = "active"
               PROVE  ActiveCredentials' \ replaced' = {} /\ (Production' => merchant'.approved)
    BY DEF ActiveIsEarned
  <2>1. marked
    BY <1>3 DEF marked
  <2> QED
    BY <1>1, <1>3, <1>5, <2>1 DEF ActiveIsEarned, Production
<1> QED
  BY <1>6, <1>7, <1>8, <1>9, <1>10, <1>11

LEMMA SameEarned == ASSUME UNCHANGED verification PROVE \A c \in Credentials : Earned(c) => Earned(c)'
BY DEF Earned

\* A test and a disabling write the credential the request has read.
LEMMA TestStep ==
    ASSUME OnboardingIInv, NEW o \in Owners, CommitTest(o) \/ CommitDisable(o)
    PROVE  OnboardingIInv'
<1> USE DEF OnboardingIInv
<1> DEFINE c == owner[o].credential
<1>1. /\ owner[o].op \in {"save", "test", "disable"}
      /\ merchant' = [merchant EXCEPT !.status = Wrote(o)]
      /\ Close(o) /\ UNCHANGED <<verification, replaced>>
  BY DEF CommitTest, CommitDisable
<1>2. /\ owner' \in [Owners -> OwnerRows]
      /\ owner'[o].op = "idle" /\ owner'[o].credential = None
      /\ \A q \in Owners \ {o} : owner'[q] = owner[q]
  BY <1>1, OwnerCloses
<1>3. /\ merchant' \in Merchants /\ merchant'.status = Wrote(o)
      /\ merchant'.approved = merchant.approved
      /\ merchant'.environment = merchant.environment
      /\ Wrote(o) = "active" => merchant.status = "active"
  BY <1>1, Writing, MerchantType
<1>4. ASSUME NEW k \in Credentials
      PROVE  /\ credential'[k] \in CredentialRows
             /\ k # c => credential'[k] = credential[k]
             /\ k = c => /\ credential'[k].status \in {credential[k].status, "disabled"}
                         /\ credential'[k].later \subseteq credential[k].later
  <2>1. credential[k] \in CredentialRows
    BY DEF OnboardingTypeOK
  <2>2. CASE CommitTest(o)
    <3>1. credential'[k] = IF k = c THEN [credential[k] EXCEPT !.tested = TRUE, !.later = {}]
                                    ELSE credential[k]
      BY <2>2 DEF CommitTest, OnboardingTypeOK, CredentialRows
    <3> QED
      BY <2>1, <3>1 DEF CredentialRows
  <2>3. CASE CommitDisable(o)
    <3>1. credential'[k] = IF k = c THEN [credential[k] EXCEPT !.status = "disabled"]
                                    ELSE credential[k]
      BY <2>3 DEF CommitDisable, OnboardingTypeOK
    <3> QED
      BY <2>1, <3>1 DEF CredentialRows
  <2> QED
    BY <2>2, <2>3
<1>5. credential' \in [Credentials -> CredentialRows]
  <2>1. credential' = [k \in Credentials |-> credential'[k]]
    BY DEF CommitTest, CommitDisable, OnboardingTypeOK
  <2> QED
    BY <1>4, <2>1
<1>6. OnboardingTypeOK'
  BY <1>1, <1>2, <1>3, <1>5 DEF OnboardingTypeOK
<1>7. ActiveCredentials' \subseteq ActiveCredentials
  BY <1>4 DEF ActiveCredentials
<1>8. \A k \in Credentials : credential'[k].status = "absent" =>
          /\ credential[k].status = "absent"
          /\ ~credential'[k].tested /\ credential'[k].later = {}
  <2> SUFFICES ASSUME NEW k \in Credentials, credential'[k].status = "absent"
               PROVE  credential'[k] = credential[k]
    BY DEF AbsentUntouched
  <2>1. k = c => credential[k].status = "absent"
    BY <1>4
  <2> QED
    BY <1>4, <2>1 DEF AbsentUntouched
<1>9. Shrinks
  BY <1>1, <1>2, <1>3, <1>7, <1>8, SameEarned DEF Shrinks
<1>10. PaidWithIt'
  <2> SUFFICES ASSUME NEW k \in ActiveCredentials' \ replaced', NEW p \in credential'[k].later
               PROVE  verification'[p].with = k
    BY DEF PaidWithIt
  <2>1. k \in ActiveCredentials \ replaced /\ k \in Credentials
    BY <1>1, <1>7 DEF ActiveCredentials
  <2>2. p \in credential[k].later
    BY <1>4, <2>1
  <2> QED
    BY <1>1, <2>1, <2>2 DEF PaidWithIt
<1> QED
  BY <1>6, <1>9, <1>10, ShrinkStep

\* The payment was submitted with the credential the request had read.
LEMMA PayStep ==
    ASSUME OnboardingIInv, NEW o \in Owners, NEW p \in Verifications, CommitVerification(o, p)
    PROVE  OnboardingIInv'
<1> USE DEF OnboardingIInv
<1>1. /\ owner[o].op = "pay" /\ verification[p].status = "absent"
      /\ Close(o) /\ UNCHANGED <<merchant, replaced>>
  BY DEF CommitVerification
<1>2. /\ owner' \in [Owners -> OwnerRows]
      /\ owner'[o].op = "idle" /\ owner'[o].credential = None
      /\ \A q \in Owners \ {o} : owner'[q] = owner[q]
  BY <1>1, OwnerCloses
<1>3. PICK new \in VerificationRows :
          /\ verification' = [verification EXCEPT ![p] = new]
          /\ new.with = owner[o].credential
  <2>1. PICK new : new = [status |-> "open", with |-> owner[o].credential]
    OBVIOUS
  <2>2. new \in VerificationRows /\ new.with = owner[o].credential
    BY <2>1 DEF OnboardingTypeOK, OwnerRows, VerificationRows
  <2> QED
    BY <2>1, <2>2 DEF CommitVerification
<1>4. ASSUME NEW k \in Credentials
      PROVE  /\ credential'[k] \in CredentialRows
             /\ credential'[k].status = credential[k].status
             /\ credential'[k].tested = credential[k].tested
             /\ credential'[k].later \subseteq credential[k].later \cup {p}
             /\ ~credential[k].tested => credential'[k].later = credential[k].later
  <2>1. credential[k] \in CredentialRows
    BY DEF OnboardingTypeOK
  <2>2. credential'[k] = IF credential[k].tested
                         THEN [credential[k] EXCEPT !.later = credential[k].later \cup {p}]
                         ELSE credential[k]
    BY DEF CommitVerification
  <2> QED
    BY <2>1, <2>2 DEF CredentialRows
<1>5. credential' \in [Credentials -> CredentialRows]
  <2>1. credential' = [k \in Credentials |-> credential'[k]]
    BY DEF CommitVerification
  <2> QED
    BY <1>4, <2>1
<1>6. OnboardingTypeOK'
  BY <1>1, <1>2, <1>3, <1>5 DEF OnboardingTypeOK
<1>7. ActiveCredentials' = ActiveCredentials
  BY <1>4 DEF ActiveCredentials
<1>8. \A k \in Credentials : Earned(k) => Earned(k)'
  BY <1>1, <1>3 DEF Earned, OnboardingTypeOK
<1>9. Shrinks
  BY <1>1, <1>2, <1>4, <1>7, <1>8 DEF Shrinks, AbsentUntouched
<1>10. PaidWithIt'
  <2> SUFFICES ASSUME NEW k \in ActiveCredentials \ replaced, NEW v \in credential'[k].later
               PROVE  verification'[v].with = k
    BY <1>1, <1>7 DEF PaidWithIt
  <2>1. k \in Credentials /\ owner[o].credential = k
    BY <1>1 DEF ActiveCredentials, RequestsRead
  <2>2. CASE v = p
    BY <1>3, <2>1, <2>2 DEF OnboardingTypeOK
  <2>3. CASE v # p
    <3>1. v \in credential[k].later /\ v \in Verifications
      BY <1>4, <2>1, <2>3 DEF OnboardingTypeOK, CredentialRows
    <3> QED
      BY <1>3, <2>3, <3>1 DEF OnboardingTypeOK, PaidWithIt
  <2> QED
    BY <2>2, <2>3
<1> QED
  BY <1>6, <1>9, <1>10, ShrinkStep

\* A step that writes neither credentials nor verifications.
LEMMA StatusStep ==
    ASSUME OnboardingIInv, OnboardingTypeOK', UNCHANGED <<credential, verification, replaced>>,
           \A o \in Owners :
              \/ owner'[o] = owner[o]
              \/ (owner'[o].op = "idle" /\ owner'[o].credential = None),
           merchant'.environment = merchant.environment,
           merchant'.status = "active" =>
              \/ merchant.status = "active" /\ merchant'.approved = merchant.approved
              \/ /\ \A c \in ActiveCredentials \ replaced : Earned(c)
                 /\ Production => merchant'.approved
    PROVE  OnboardingIInv'
<1>1. PaidWithIt' /\ ActiveCredentials' = ActiveCredentials
  BY DEF OnboardingIInv, PaidWithIt, ActiveCredentials
<1>2. Shrinks
  BY <1>1, SameEarned DEF Shrinks, OnboardingIInv, AbsentUntouched
<1> QED
  BY <1>1, <1>2, ShrinkStep

LEMMA OnboardingStep ==
    ASSUME OnboardingIInv, [OnboardingNext]_onboardingVars PROVE OnboardingIInv'
<1> USE DEF OnboardingIInv
<1>1. ASSUME NEW o \in Owners, OwnerStep(o) PROVE OnboardingIInv'
  <2>1. CASE CommitStatus(o)
    <3>1. PICK s \in MerchantStates :
              /\ merchant' = [merchant EXCEPT !.status = s]
              /\ s = "active" => owner[o].op = "activate"
      BY <2>1 DEF CommitStatus, MerchantStates
    <3>2. /\ merchant' \in Merchants /\ merchant'.status = s
          /\ merchant'.environment = merchant.environment
      BY <3>1, MerchantType
    <3>3. Close(o) /\ UNCHANGED <<credential, verification, replaced>>
      BY <2>1 DEF CommitStatus
    <3>4. /\ owner' \in [Owners -> OwnerRows]
          /\ owner'[o].op = "idle" /\ owner'[o].credential = None
          /\ \A q \in Owners \ {o} : owner'[q] = owner[q]
      BY <3>3, OwnerCloses
    <3>5. OnboardingTypeOK'
      BY <3>2, <3>3, <3>4 DEF OnboardingTypeOK
    <3>6. merchant'.status = "active" =>
              ~Production /\ \A c \in ActiveCredentials \ replaced : Earned(c)
      BY <3>1, <3>2 DEF RequestsRead
    <3> QED
      BY <3>2, <3>3, <3>4, <3>5, <3>6, StatusStep
  <2>2. CASE Fail(o)
    <3>1. Close(o) /\ UNCHANGED <<merchant, credential, verification, replaced>>
      BY <2>2 DEF Fail
    <3>2. /\ owner' \in [Owners -> OwnerRows]
          /\ owner'[o].op = "idle" /\ owner'[o].credential = None
          /\ \A q \in Owners \ {o} : owner'[q] = owner[q]
      BY <3>1, OwnerCloses
    <3>3. OnboardingTypeOK'
      BY <3>1, <3>2 DEF OnboardingTypeOK
    <3> QED
      BY <3>1, <3>2, <3>3, StatusStep
  <2> QED
    BY <1>1, <2>1, <2>2, BeginChange, SaveStep, TestStep, PayStep DEF OwnerStep
<1>2. ASSUME NEW p \in Verifications, PaymentSucceeds(p) PROVE OnboardingIInv'
  <2>1. PICK new \in VerificationRows :
            /\ verification' = [verification EXCEPT ![p] = new]
            /\ new.with = verification[p].with /\ new.status = "success"
    <3>1. PICK new : new = [verification[p] EXCEPT !.status = "success"]
      OBVIOUS
    <3>2. verification[p] \in VerificationRows
      BY DEF OnboardingTypeOK
    <3>3. new \in VerificationRows /\ new.with = verification[p].with /\ new.status = "success"
      BY <3>1, <3>2 DEF VerificationRows
    <3> QED
      BY <1>2, <3>1, <3>3 DEF PaymentSucceeds
  <2>2. UNCHANGED <<merchant, credential, owner, replaced>>
    BY <1>2 DEF PaymentSucceeds
  <2>3. OnboardingTypeOK' /\ ActiveCredentials' = ActiveCredentials
    BY <2>1, <2>2 DEF OnboardingTypeOK, ActiveCredentials
  <2>4. /\ \A v \in Verifications : /\ verification'[v].with = verification[v].with
                                    /\ verification[v].status = "success" =>
                                          verification'[v].status = "success"
    BY <2>1 DEF OnboardingTypeOK
  <2>5. Shrinks
    BY <2>2, <2>3, <2>4 DEF Shrinks, Earned, AbsentUntouched
  <2>6. PaidWithIt'
    <3>1. \A c \in ActiveCredentials : credential[c].later \subseteq Verifications
      BY DEF OnboardingTypeOK, CredentialRows, ActiveCredentials
    <3> QED
      BY <2>2, <2>3, <2>4, <3>1 DEF PaidWithIt
  <2> QED
    BY <2>3, <2>5, <2>6, ShrinkStep
<1>3. ASSUME NEW status \in MerchantStates, Withhold(status) PROVE OnboardingIInv'
  <2>1. /\ merchant' \in Merchants /\ merchant'.status # "active"
        /\ merchant'.environment = merchant.environment
        /\ UNCHANGED <<credential, verification, owner, replaced>>
    BY <1>3, MerchantType DEF Withhold
  <2>2. OnboardingTypeOK'
    BY <2>1 DEF OnboardingTypeOK
  <2> QED
    BY <2>1, <2>2, StatusStep
<1>4. ASSUME NEW status \in MerchantStates, Decide(status),
             status = "active" => \A c \in ActiveCredentials \ replaced : Earned(c)
      PROVE  OnboardingIInv'
  <2>1. PICK approved \in BOOLEAN : approved = (status = "active")
    OBVIOUS
  <2>2. /\ merchant' = [merchant EXCEPT !.status = status, !.approved = approved]
        /\ UNCHANGED <<credential, verification, owner, replaced>>
    BY <1>4, <2>1 DEF Decide
  <2>3. /\ merchant' \in Merchants /\ merchant'.status = status
        /\ merchant'.environment = merchant.environment
        /\ merchant'.approved = approved
    BY <2>2 DEF OnboardingTypeOK, Merchants
  <2>4. OnboardingTypeOK'
    BY <2>2, <2>3 DEF OnboardingTypeOK
  <2> QED
    BY <1>4, <2>1, <2>2, <2>3, <2>4, StatusStep
<1>5. CASE Approve
  <2>1. PICK c \in ActiveCredentials : Evidence(c)
    BY <1>5 DEF Approve
  <2>2. credential[c].later \subseteq Verifications
    BY DEF OnboardingTypeOK, CredentialRows, ActiveCredentials
  <2>3. \A d \in ActiveCredentials \ replaced : Earned(d)
    BY <2>1, <2>2 DEF Evidence, OneActive, PaidWithIt, Earned
  <2> QED
    BY <1>4, <1>5, <2>3 DEF Approve, MerchantStates
<1>6. CASE Reject \/ Suspend
  BY <1>4, <1>6 DEF Reject, Suspend, MerchantStates
<1>7. CASE UNCHANGED onboardingVars
  <2>1. OnboardingTypeOK'
    BY <1>7 DEF onboardingVars, OnboardingTypeOK
  <2> QED
    BY <1>7, <2>1, StatusStep DEF onboardingVars
<1> QED
  BY <1>1, <1>2, <1>3, <1>5, <1>6, <1>7 DEF OnboardingNext

LEMMA OnboardingInvariance == OnboardingSpec => []OnboardingIInv
BY OnboardingBegins, OnboardingStep, PTL DEF OnboardingSpec

\* The merchant, its credentials and payments keep their types.
THEOREM OnboardingTypeCorrect == OnboardingSpec => []OnboardingTypeOK
<1>1. OnboardingIInv => OnboardingTypeOK
  BY DEF OnboardingIInv
<1> QED
  BY <1>1, OnboardingInvariance, PTL

\* However tests, replacements, payments and decisions overlap, a merchant is
\* active only with a credential that took a payment, apart from the ones saved
\* across another request, and in production only on an approval.
THEOREM ActiveIsAlwaysEarned == OnboardingSpec => []ActiveIsEarned
<1>1. OnboardingIInv => ActiveIsEarned
  BY DEF OnboardingIInv
<1> QED
  BY <1>1, OnboardingInvariance, PTL

-----------------------------------------------------------------------------
(***************************************************************************)
(* Key rotation.  The dry run certifies a state that every later step of   *)
(* the ceremony keeps: no process and no stored row uses the old key.  And *)
(* the job holds the ciphertext of what the owner was told last, unless    *)
(* the owner wrote since the job read.                                     *)
(***************************************************************************)
CertifiedInv ==
    ceremony # "rotating" =>
        /\ \A p \in Processes : process[p].key = "new"
        /\ \A r \in Bundles : Stored(r) => row[r].key = "new"

JobRewrites(r) == job.running /\ job.saw[r].secret > 0 /\ Stale(job.saw[r])

ToldInv ==
    \A r \in Bundles \ raced :
        /\ row[r].secret = told[r]
        /\ JobRewrites(r) => job.saw[r].secret = told[r]

RotationIInv == RotationTypeOK /\ CertifiedInv /\ ToldInv

LEMMA QuietType == ASSUME NEW key \in Keys PROVE Quiet(key) \in ProcessRows /\ Quiet(key).key = key
BY DEF Quiet, ProcessRows

LEMMA NoRowsType ==
    NoRows \in [Bundles -> StoredRows] /\ \A r \in Bundles : NoRows[r].secret = 0
BY RotationAssumption DEF NoRows, StoredRows, Secrets, Keys

LEMMA RotationBegins == RotationInit => RotationIInv
BY QuietType, NoRowsType, RotationAssumption
   DEF RotationInit, RotationIInv, RotationTypeOK, CertifiedInv, ToldInv, JobRewrites, Keys, Secrets

\* What a process commits: its own key, and the next secret.
LEMMA WrittenRow ==
    ASSUME RotationTypeOK, NEW p \in Processes, CommitWrite(p)
    PROVE  \E r \in Bundles : \E new \in StoredRows :
              /\ r = process[p].writes
              /\ row' = [row EXCEPT ![r] = new]
              /\ new.key = process[p].key
              /\ new.secret = told[r] + 1
<1> USE DEF RotationTypeOK
<1>1. PICK r \in Bundles : r = process[p].writes /\ told[r] < MaxSecrets
  BY DEF CommitWrite
<1>2. PICK new : new = [secret |-> told[r] + 1, key |-> process[p].key,
                        column |-> IF process[p].key = process[p].column
                                   THEN row[r].column ELSE process[p].key]
  OBVIOUS
<1>3. process[p].key \in Keys /\ row[r].column \in Keys
  BY DEF ProcessRows, StoredRows
<1>4. told[r] + 1 \in Secrets
  BY <1>1, RotationAssumption DEF Secrets
<1>5. new \in StoredRows
  BY <1>2, <1>3, <1>4 DEF StoredRows
<1>6. row' = [row EXCEPT ![r] = new]
  BY <1>1, <1>2 DEF CommitWrite
<1> QED
  BY <1>1, <1>2, <1>5, <1>6

LEMMA RewrittenRow ==
    ASSUME RotationTypeOK, JobCommits, NEW r \in Bundles
    PROVE  /\ row'[r] \in StoredRows
           /\ JobRewrites(r) => row'[r].key = "new" /\ row'[r].secret = job.saw[r].secret
           /\ ~JobRewrites(r) => row'[r] = row[r]
<1> USE DEF RotationTypeOK
<1>1. row'[r] = Reencrypted(r) /\ job.running
  BY DEF JobCommits
<1>2. row[r] \in StoredRows /\ job.saw[r] \in StoredRows
  OBVIOUS
<1>3. CASE JobRewrites(r)
  <2>1. PICK column \in Keys :
            row'[r] = [secret |-> job.saw[r].secret, key |-> "new", column |-> column]
    BY <1>1, <1>2, <1>3 DEF Reencrypted, JobRewrites, StoredRows, Keys
  <2> QED
    BY <1>2, <1>3, <2>1 DEF StoredRows, Keys
<1>4. CASE ~JobRewrites(r)
  BY <1>1, <1>2, <1>4 DEF Reencrypted, JobRewrites
<1> QED
  BY <1>3, <1>4

LEMMA RotationStep == ASSUME RotationIInv, [RotationNext]_rotationVars PROVE RotationIInv'
<1> USE DEF RotationIInv
<1>0. "new" \in Keys
  BY DEF Keys
<1>1. ASSUME NEW p \in Processes, NEW r \in Bundles, BeginWrite(p, r) PROVE RotationIInv'
  <2>1. PICK column \in Keys \cup {"none"} :
            process' = [process EXCEPT ![p].writes = r, ![p].column = column]
    BY <1>1 DEF BeginWrite, RotationTypeOK, StoredRows
  <2>2. /\ process' \in [Processes -> ProcessRows]
        /\ \A q \in Processes : process'[q].key = process[q].key
    BY <2>1, ZenonT(40) DEF RotationTypeOK, ProcessRows
  <2>3. UNCHANGED <<row, job, ceremony, told, raced>>
    BY <1>1 DEF BeginWrite
  <2> QED
    BY <2>2, <2>3 DEF RotationTypeOK, CertifiedInv, ToldInv, JobRewrites, Stored
<1>2. ASSUME NEW p \in Processes, CommitWrite(p) PROVE RotationIInv'
  <2>1. PICK r \in Bundles, new \in StoredRows :
            /\ r = process[p].writes
            /\ row' = [row EXCEPT ![r] = new]
            /\ new.key = process[p].key
            /\ new.secret = told[r] + 1
    BY <1>2, WrittenRow
  <2>2. /\ told' = [told EXCEPT ![r] = told[r] + 1] /\ told[r] + 1 \in Secrets
        /\ raced' = IF JobRewrites(r) THEN raced \cup {r} ELSE raced \ {r}
        /\ process' = [process EXCEPT ![p] = Quiet(process[p].key)]
        /\ UNCHANGED <<job, ceremony>>
    BY <1>2, <2>1 DEF CommitWrite, JobRewrites, StoredRows
  <2>3. /\ process' \in [Processes -> ProcessRows]
        /\ \A q \in Processes : process'[q].key = process[q].key
    <3>1. process[p].key \in Keys
      BY DEF RotationTypeOK, ProcessRows
    <3> QED
      BY <2>2, <3>1, QuietType DEF RotationTypeOK
  <2>4. RotationTypeOK'
    BY <2>1, <2>2, <2>3 DEF RotationTypeOK
  <2>5. CertifiedInv'
    BY <2>1, <2>2, <2>3 DEF RotationTypeOK, CertifiedInv, Stored
  <2>6. ToldInv'
    <3> SUFFICES ASSUME NEW b \in Bundles \ raced'
                 PROVE  /\ row'[b].secret = told'[b]
                        /\ JobRewrites(b)' => job.saw[b].secret = told'[b]
      BY <2>2 DEF ToldInv
    <3>1. JobRewrites(b)' <=> JobRewrites(b)
      BY <2>2 DEF JobRewrites
    <3>2. CASE b = r
      BY <2>1, <2>2, <3>1, <3>2 DEF RotationTypeOK
    <3>3. CASE b # r
      BY <2>1, <2>2, <3>1, <3>3 DEF RotationTypeOK, ToldInv
    <3> QED
      BY <3>2, <3>3
  <2> QED
    BY <2>4, <2>5, <2>6
<1>3. ASSUME NEW p \in Processes, Switch(p) PROVE RotationIInv'
  BY <1>0, <1>3, QuietType
     DEF Switch, RotationTypeOK, CertifiedInv, ToldInv, JobRewrites, Stored
<1>4. CASE JobReads
  <2>1. PICK new : new = [running |-> TRUE, saw |-> row]
    OBVIOUS
  <2>2. job' = new /\ UNCHANGED <<row, process, ceremony, told, raced>>
    BY <1>4, <2>1 DEF JobReads
  <2>3. new \in [running : BOOLEAN, saw : [Bundles -> StoredRows]] /\ new.saw = row
    BY <2>1 DEF RotationTypeOK
  <2>4. RotationTypeOK'
    BY <2>2, <2>3 DEF RotationTypeOK
  <2> QED
    BY <2>2, <2>3, <2>4 DEF CertifiedInv, ToldInv, JobRewrites, Stored
<1>5. ASSUME job' = [running |-> FALSE, saw |-> NoRows], UNCHANGED <<process, ceremony, told, raced>>,
             row' \in [Bundles -> StoredRows],
             \A r \in Bundles : \/ row'[r] = row[r]
                                \/ /\ row'[r].key = "new"
                                   /\ JobRewrites(r) /\ row'[r].secret = job.saw[r].secret
      PROVE  RotationIInv'
  <2>1. PICK new : new = [running |-> FALSE, saw |-> NoRows]
    OBVIOUS
  <2>2. /\ new \in [running : BOOLEAN, saw : [Bundles -> StoredRows]]
        /\ job' = new /\ ~new.running
    BY <1>5, <2>1, NoRowsType
  <2>3. RotationTypeOK'
    BY <1>5, <2>2 DEF RotationTypeOK
  <2>4. CertifiedInv'
    BY <1>5 DEF CertifiedInv, Stored
  <2>5. ToldInv'
    BY <1>5, <2>2 DEF ToldInv, JobRewrites
  <2> QED
    BY <2>3, <2>4, <2>5
<1>6. CASE JobCommits
  <2>1. row' \in [Bundles -> StoredRows]
    BY <1>6, RewrittenRow DEF JobCommits
  <2> QED
    BY <1>5, <1>6, <2>1, RewrittenRow DEF JobCommits
<1>7. CASE JobFails
  BY <1>5, <1>7 DEF JobFails, RotationTypeOK
<1>8. CASE DryRun
  BY <1>8 DEF DryRun, RotationTypeOK, CertifiedInv, ToldInv, JobRewrites, Stored, Stale,
              StoredRows, Keys
<1>9. CASE Retire
  BY <1>9 DEF Retire, RotationTypeOK, CertifiedInv, ToldInv, JobRewrites, Stored
<1>10. CASE UNCHANGED rotationVars
  BY <1>10 DEF rotationVars, RotationTypeOK, CertifiedInv, ToldInv, JobRewrites, Stored
<1> QED
  BY <1>1, <1>2, <1>3, <1>4, <1>6, <1>7, <1>8, <1>9, <1>10 DEF RotationNext, ProcessStep

LEMMA RotationInvariance == RotationSpec => []RotationIInv
BY RotationBegins, RotationStep, PTL DEF RotationSpec

\* The rows, the processes and what the job read keep their types.
THEOREM RotationTypeCorrect == RotationSpec => []RotationTypeOK
<1>1. RotationIInv => RotationTypeOK
  BY DEF RotationIInv
<1> QED
  BY <1>1, RotationInvariance, PTL

\* Once the old key is retired no stored secret needs it, also if a process
\* wrote between the dry run and the end of the ceremony, and the job puts no
\* earlier secret back but in rows the owner wrote while it ran.
THEOREM NothingIsLost == RotationSpec => []RotationLosesNothing
<1>1. RotationIInv => RotationLosesNothing
  BY DEF RotationIInv, CertifiedInv, ToldInv, RotationLosesNothing
<1> QED
  BY <1>1, RotationInvariance, PTL

-----------------------------------------------------------------------------
(***************************************************************************)
(* Theorems about EmailOutbox, for any number of mails and workers and any *)
(* EMAIL_MAX_ATTEMPTS.  A worker writes its outcome by primary key, also   *)
(* over the outcome of another one; the attempts it writes are still       *)
(* covered by failures, because it counts from what it loaded.             *)
(***************************************************************************)

Delivering == {"sending", "accepted", "refused"}

\* A worker past its claim has a mail, and what it will write is covered.
WorkerInv ==
    \A w \in Workers :
        /\ worker[w].phase # "idle" => worker[w].email \in Mails
        /\ worker[w].phase \in Delivering =>
              /\ worker[w].attempts < MaxAttempts
              /\ worker[w].attempts <= refused[worker[w].email]
              /\ worker[w].phase = "refused" =>
                    worker[w].attempts < refused[worker[w].email]

\* A row that may be delivered again has attempts left, each a failure.
MailRowInv ==
    \A e \in Mails :
        /\ email[e].status \in {"absent", "queued", "sending", "retry_scheduled"} =>
              email[e].attempts < MaxAttempts /\ email[e].attempts <= refused[e]
        /\ email[e].status = "dead_letter" => refused[e] = MaxAttempts

\* While nobody has reason to doubt, one worker at most delivers a mail, under
\* its lease, and an acceptance is in its hands or recorded.
AtWork(w, e) == worker[w].email = e /\ worker[w].phase \in Delivering

SureOf(e) ==
    /\ accepted[e] <= 1
    /\ \A w \in Workers : AtWork(w, e) =>
          /\ Owned(w, e) /\ email[e].lease_live
          /\ worker[w].phase # "accepted" => accepted[e] = 0
    /\ (email[e].status # "sent" /\ \A w \in Workers : ~AtWork(w, e)) => accepted[e] = 0

SureInv == \A e \in Mails \ doubtful : SureOf(e)

OutboxIInv == OutboxTypeOK /\ WorkerInv /\ MailRowInv /\ SureInv

(***************************************************************************)
(* The rows that the actions write.                                        *)
(***************************************************************************)
LEMMA OutboxNumbers == MaxAttempts \in Nat /\ 0 < MaxAttempts /\ 0 \in 0..MaxAttempts /\ 0 \in 0..2
BY OutboxAssumption

LEMMA NoDeliveryType ==
    NoDelivery \in WorkerRows /\ NoDelivery.phase = "idle" /\ NoDelivery.phase \notin Delivering
BY OutboxNumbers DEF NoDelivery, WorkerRows, Delivering

LEMMA ClaimedType ==
    ASSUME NEW e \in Mails
    PROVE  /\ [NoDelivery EXCEPT !.phase = "claimed", !.email = e] \in WorkerRows
           /\ [NoDelivery EXCEPT !.phase = "claimed", !.email = e].phase = "claimed"
           /\ [NoDelivery EXCEPT !.phase = "claimed", !.email = e].email = e
BY OutboxNumbers DEF NoDelivery, WorkerRows

LEMMA PhaseType ==
    ASSUME NEW given \in WorkerRows, NEW phase \in Delivering
    PROVE  /\ [given EXCEPT !.phase = phase] \in WorkerRows
           /\ [given EXCEPT !.phase = phase].phase = phase
           /\ [given EXCEPT !.phase = phase].email = given.email
           /\ [given EXCEPT !.phase = phase].attempts = given.attempts
BY DEF WorkerRows, Delivering

LEMMA QueuedType ==
    ASSUME NEW given \in EmailRows
    PROVE  /\ [given EXCEPT !.status = "queued"] \in EmailRows
           /\ [given EXCEPT !.status = "queued"].status = "queued"
           /\ [given EXCEPT !.status = "queued"].attempts = given.attempts
BY DEF EmailRows, EmailStates

LEMMA ExpiredType ==
    ASSUME NEW given \in EmailRows
    PROVE  /\ [given EXCEPT !.lease_live = FALSE] \in EmailRows
           /\ [given EXCEPT !.lease_live = FALSE].status = given.status
           /\ [given EXCEPT !.lease_live = FALSE].attempts = given.attempts
BY DEF EmailRows

LEMMA Counting ==
    ASSUME NEW most \in Nat, NEW n \in 0..most
    PROVE  /\ Counted(n, most) \in 0..most
           /\ Counted(n, most) >= n
           /\ n < most => Counted(n, most) = n + 1
BY DEF Counted

(***************************************************************************)
(* What a step does to a worker, to a mail and to the counters.            *)
(***************************************************************************)
WorkerChange(w) ==
    \/ worker'[w] = worker[w]
    \/ worker'[w] = NoDelivery
    \/ \E e \in Mails : Claim(w, e) /\ worker'[w].phase = "claimed" /\ worker'[w].email = e
    \/ /\ Load(w) /\ Owned(w, worker[w].email)
       /\ worker'[w].phase = "sending" /\ worker'[w].email = worker[w].email
       /\ worker'[w].attempts = email[worker[w].email].attempts
    \/ \E took \in BOOLEAN, answer \in {"accepted", "refused"} :
       /\ Send(w, took, answer)
       /\ worker'[w].phase = answer /\ worker'[w].email = worker[w].email
       /\ worker'[w].attempts = worker[w].attempts

MailChange(e) ==
    \/ email'[e] = email[e]
    \/ /\ Enqueue(e)
       /\ email'[e].status = "queued" /\ email'[e].attempts = email[e].attempts
    \/ \E w \in Workers :
       /\ Claim(w, e)
       /\ email'[e].status = "sending" /\ email'[e].attempts = email[e].attempts
       /\ email'[e].lease_owner = w /\ email'[e].lease_live
    \/ \E w \in Workers :
       /\ Commit(w) /\ worker[w].email = e
       /\ email'[e].status = Outcome(w, worker[w].attempts + 1)
       /\ email'[e].attempts = worker[w].attempts + 1
    \/ /\ LeaseExpires(e)
       /\ email'[e].status = email[e].status /\ email'[e].attempts = email[e].attempts

LEMMA Workers1 ==
    ASSUME OutboxTypeOK, WorkerInv, [OutboxNext]_outboxVars, NEW w \in Workers
    PROVE  WorkerChange(w) /\ worker'[w] \in WorkerRows
<1> USE DEF OutboxTypeOK
<1>1. CASE worker' = worker
  BY <1>1 DEF WorkerChange
<1>2. ASSUME NEW v \in Workers, NEW e \in Mails, Claim(v, e)
      PROVE  WorkerChange(w) /\ worker'[w] \in WorkerRows
  BY <1>2, ClaimedType DEF Claim, WorkerChange
<1>3. ASSUME NEW v \in Workers, Load(v)
      PROVE  WorkerChange(w) /\ worker'[w] \in WorkerRows
  <2>1. CASE v # w
    BY <1>3, <2>1 DEF Load, WorkerChange
  <2>2. CASE v = w /\ ~Owned(w, worker[w].email)
    BY <1>3, <2>2, NoDeliveryType DEF Load, WorkerChange
  <2>3. CASE v = w /\ Owned(w, worker[w].email)
    <3>1. worker[w].email \in Mails
      BY <1>3, <2>3 DEF Load, WorkerInv
    <3>2. email[worker[w].email].attempts \in 0..MaxAttempts
      BY <3>1 DEF EmailRows
    <3>3. worker'[w] = [worker[w] EXCEPT !.phase = "sending",
                                         !.attempts = email[worker[w].email].attempts]
      BY <1>3, <2>3 DEF Load
    <3>4. /\ worker'[w] \in WorkerRows
          /\ worker'[w].phase = "sending" /\ worker'[w].email = worker[w].email
          /\ worker'[w].attempts = email[worker[w].email].attempts
      <4>1. PICK given \in WorkerRows : given = worker[w]
        OBVIOUS
      <4>2. PICK n \in 0..MaxAttempts : n = email[worker[w].email].attempts
        BY <3>2
      <4>3. worker'[w] = [given EXCEPT !.phase = "sending", !.attempts = n]
        BY <3>3, <4>1, <4>2
      <4>4. PICK new : new = worker'[w]
        OBVIOUS
      <4>5. new = [given EXCEPT !.phase = "sending", !.attempts = n]
        BY <4>3, <4>4
      <4>6. /\ new \in WorkerRows
            /\ new.phase = "sending" /\ new.email = given.email /\ new.attempts = n
        BY <4>5 DEF WorkerRows
      <4> QED
        BY <4>1, <4>2, <4>4, <4>6
    <3> QED
      BY <1>3, <2>3, <3>4 DEF WorkerChange
  <2> QED
    BY <2>1, <2>2, <2>3
<1>4. ASSUME NEW v \in Workers, NEW took \in BOOLEAN, NEW answer \in {"accepted", "refused"},
             Send(v, took, answer)
      PROVE  WorkerChange(w) /\ worker'[w] \in WorkerRows
  <2>1. CASE v # w
    BY <1>4, <2>1 DEF Send, WorkerChange
  <2>2. CASE v = w
    <3>1. answer \in Delivering /\ worker'[w] = [worker[w] EXCEPT !.phase = answer]
      BY <1>4, <2>2 DEF Send, Delivering
    <3> QED
      BY <1>4, <2>2, <3>1, PhaseType DEF WorkerChange
  <2> QED
    BY <2>1, <2>2
<1>5. ASSUME NEW v \in Workers, worker' = [worker EXCEPT ![v] = NoDelivery]
      PROVE  WorkerChange(w) /\ worker'[w] \in WorkerRows
  BY <1>5, NoDeliveryType DEF WorkerChange
<1> QED
  BY <1>1, <1>2, <1>3, <1>4, <1>5
  DEF OutboxNext, WorkerStep, outboxVars, Enqueue, LeaseExpires, Commit, Crash

LEMMA Mails1 ==
    ASSUME OutboxTypeOK, WorkerInv, [OutboxNext]_outboxVars, NEW e \in Mails
    PROVE  MailChange(e) /\ email'[e] \in EmailRows
<1> USE DEF OutboxTypeOK
<1>1. CASE email' = email
  BY <1>1 DEF MailChange
<1>2. ASSUME NEW f \in Mails, Enqueue(f) PROVE MailChange(e) /\ email'[e] \in EmailRows
  BY <1>2, QueuedType DEF Enqueue, MailChange
<1>3. ASSUME NEW w \in Workers, NEW f \in Mails, Claim(w, f)
      PROVE  MailChange(e) /\ email'[e] \in EmailRows
  <2>1. CASE e # f
    BY <1>3, <2>1 DEF Claim, MailChange
  <2>2. CASE e = f
    <3>1. email'[e] = [email[e] EXCEPT !.status = "sending", !.lease_owner = w, !.lease_live = TRUE]
      BY <1>3, <2>2 DEF Claim
    <3>2. /\ email'[e] \in EmailRows
          /\ email'[e].status = "sending" /\ email'[e].lease_owner = w /\ email'[e].lease_live
          /\ email'[e].attempts = email[e].attempts
      <4>1. PICK given \in EmailRows : given = email[e]
        OBVIOUS
      <4>2. PICK new : new = email'[e]
        OBVIOUS
      <4>3. new = [given EXCEPT !.status = "sending", !.lease_owner = w, !.lease_live = TRUE]
        BY <3>1, <4>1, <4>2
      <4>4. /\ new \in EmailRows
            /\ new.status = "sending" /\ new.lease_owner = w /\ new.lease_live
            /\ new.attempts = given.attempts
        BY <4>3 DEF EmailRows, EmailStates
      <4> QED
        BY <4>1, <4>2, <4>4
    <3> QED
      BY <1>3, <2>2, <3>2 DEF MailChange
  <2> QED
    BY <2>1, <2>2
<1>4. ASSUME NEW w \in Workers, Commit(w) PROVE MailChange(e) /\ email'[e] \in EmailRows
  <2>1. CASE e # worker[w].email
    BY <1>4, <2>1 DEF Commit, MailChange
  <2>2. CASE e = worker[w].email
    <3>1. email'[e] = [status |-> Outcome(w, worker[w].attempts + 1),
                       attempts |-> worker[w].attempts + 1,
                       lease_owner |-> None, lease_live |-> FALSE]
      BY <1>4, <2>2 DEF Commit
    <3>2. worker[w].attempts \in 0..MaxAttempts /\ worker[w].attempts < MaxAttempts
      BY <1>4 DEF Commit, WorkerInv, Delivering, WorkerRows
    <3>3. worker[w].attempts + 1 \in 0..MaxAttempts
      BY <3>2, OutboxNumbers
    <3>4. Outcome(w, worker[w].attempts + 1) \in EmailStates
      BY DEF Outcome, EmailStates
    <3>5. email'[e] \in EmailRows
      BY <3>1, <3>3, <3>4 DEF EmailRows
    <3> QED
      BY <1>4, <2>2, <3>1, <3>5 DEF MailChange
  <2> QED
    BY <2>1, <2>2
<1>5. ASSUME NEW f \in Mails, LeaseExpires(f) PROVE MailChange(e) /\ email'[e] \in EmailRows
  <2>1. CASE e # f
    BY <1>5, <2>1 DEF LeaseExpires, MailChange
  <2>2. CASE e = f
    <3>1. email'[e] = [email[e] EXCEPT !.lease_live = FALSE]
      BY <1>5, <2>2 DEF LeaseExpires
    <3> QED
      BY <1>5, <2>2, <3>1, ExpiredType DEF MailChange
  <2> QED
    BY <2>1, <2>2
<1> QED
  BY <1>1, <1>2, <1>3, <1>4, <1>5
  DEF OutboxNext, WorkerStep, outboxVars, Load, Send, Crash

LEMMA Counters ==
    ASSUME OutboxTypeOK, WorkerInv, [OutboxNext]_outboxVars
    PROVE  /\ accepted' \in [Mails -> 0..2]
           /\ refused' \in [Mails -> 0..MaxAttempts]
           /\ doubtful \subseteq doubtful' /\ doubtful' \subseteq Mails
           /\ \A e \in Mails : refused'[e] >= refused[e]
<1> USE DEF OutboxTypeOK
<1>1. \A e \in Mails : refused[e] >= refused[e]
  BY OutboxNumbers
<1>2. CASE UNCHANGED <<accepted, refused, doubtful>>
  BY <1>1, <1>2
<1>3. ASSUME NEW w \in Workers, Load(w)
      PROVE  UNCHANGED <<accepted, refused>> /\ doubtful' \in {doubtful, doubtful \cup {worker[w].email}}
             /\ worker[w].email \in Mails
  BY <1>3 DEF Load, WorkerInv
<1>4. ASSUME NEW w \in Workers, Crash(w)
      PROVE  UNCHANGED <<accepted, refused>> /\ doubtful' \in {doubtful, doubtful \cup {worker[w].email}}
             /\ worker[w].email \in Mails
  BY <1>4 DEF Crash, WorkerInv
<1>5. ASSUME NEW e \in Mails, LeaseExpires(e)
      PROVE  UNCHANGED <<accepted, refused>> /\ doubtful' \in {doubtful, doubtful \cup {e}}
  BY <1>5 DEF LeaseExpires
<1>6. ASSUME NEW w \in Workers, NEW took \in BOOLEAN, NEW answer \in {"accepted", "refused"},
             Send(w, took, answer)
      PROVE  /\ accepted' \in [Mails -> 0..2]
             /\ refused' \in [Mails -> 0..MaxAttempts]
             /\ doubtful \subseteq doubtful' /\ doubtful' \subseteq Mails
             /\ \A e \in Mails : refused'[e] >= refused[e]
  <2>1. PICK e \in Mails : worker[w].email = e
    BY <1>6 DEF Send, WorkerInv
  <2>2. /\ Counted(accepted[e], 2) \in 0..2
        /\ Counted(refused[e], MaxAttempts) \in 0..MaxAttempts
        /\ Counted(refused[e], MaxAttempts) >= refused[e]
    BY Counting, OutboxNumbers
  <2>3. accepted' = IF took THEN [accepted EXCEPT ![e] = Counted(accepted[e], 2)] ELSE accepted
    BY <1>6, <2>1 DEF Send
  <2>4. refused' = IF answer = "refused"
                   THEN [refused EXCEPT ![e] = Counted(refused[e], MaxAttempts)] ELSE refused
    BY <1>6, <2>1 DEF Send
  <2>5. doubtful' \in {doubtful, doubtful \cup {e}}
    BY <1>6, <2>1 DEF Send
  <2> QED
    BY <1>1, <2>2, <2>3, <2>4, <2>5
<1> QED
  BY <1>1, <1>2, <1>3, <1>4, <1>5, <1>6
  DEF OutboxNext, WorkerStep, outboxVars, Enqueue, Claim, Commit

(***************************************************************************)
(* The parts of the inductive invariant.                                   *)
(***************************************************************************)
LEMMA OutboxTypeStep == ASSUME OutboxTypeOK, WorkerInv, [OutboxNext]_outboxVars PROVE OutboxTypeOK'
<1>1. email' \in [Mails -> EmailRows]
  <2>1. DOMAIN email' = Mails /\ email' = [e \in Mails |-> email'[e]]
    BY ZenonT(40) DEF OutboxTypeOK, OutboxNext, WorkerStep, outboxVars, Enqueue, LeaseExpires, Claim, Load, Send,
       Commit, Crash
  <2> QED
    BY <2>1, Mails1
<1>2. worker' \in [Workers -> WorkerRows]
  <2>1. DOMAIN worker' = Workers /\ worker' = [w \in Workers |-> worker'[w]]
    BY DEF OutboxTypeOK, OutboxNext, WorkerStep, outboxVars, Enqueue, LeaseExpires, Claim, Load, Send,
       Commit, Crash
  <2> QED
    BY <2>1, Workers1
<1> QED
  BY <1>1, <1>2, Counters DEF OutboxTypeOK

LEMMA WorkerInvStep ==
    ASSUME OutboxTypeOK, WorkerInv, MailRowInv, [OutboxNext]_outboxVars PROVE WorkerInv'
<1> SUFFICES ASSUME NEW w \in Workers
             PROVE  /\ worker'[w].phase # "idle" => worker'[w].email \in Mails
                    /\ worker'[w].phase \in Delivering =>
                          /\ worker'[w].attempts < MaxAttempts
                          /\ worker'[w].attempts <= refused'[worker'[w].email]
                          /\ worker'[w].phase = "refused" =>
                                worker'[w].attempts < refused'[worker'[w].email]
  BY DEF WorkerInv
<1>1. WorkerChange(w)
  BY Workers1
<1>2. /\ worker[w].attempts \in Nat
      /\ \A e \in Mails : refused[e] \in 0..MaxAttempts /\ refused'[e] \in Nat
                          /\ refused'[e] >= refused[e]
  BY Counters, OutboxNumbers DEF OutboxTypeOK, WorkerRows
<1>3. CASE worker'[w] = worker[w]
  <2>1. CASE worker[w].phase \in Delivering
    <3>1. PICK e \in Mails : worker[w].email = e
      BY <2>1 DEF WorkerInv, Delivering
    <3>2. /\ worker[w].attempts < MaxAttempts /\ worker[w].attempts <= refused[e]
          /\ worker[w].phase = "refused" => worker[w].attempts < refused[e]
      BY <2>1, <3>1 DEF WorkerInv
    <3> QED
      BY <1>2, <1>3, <3>1, <3>2, OutboxNumbers
  <2>2. CASE worker[w].phase \notin Delivering
    BY <1>3, <2>2 DEF WorkerInv
  <2> QED
    BY <2>1, <2>2
<1>4. CASE worker'[w] = NoDelivery
  BY <1>4, NoDeliveryType
<1>5. CASE worker'[w].phase = "claimed" /\ worker'[w].email \in Mails
  BY <1>5 DEF Delivering
<1>6. CASE /\ Load(w) /\ Owned(w, worker[w].email)
           /\ worker'[w].phase = "sending" /\ worker'[w].email = worker[w].email
           /\ worker'[w].attempts = email[worker[w].email].attempts
  <2>1. PICK e \in Mails : worker[w].email = e
    BY <1>6 DEF Load, WorkerInv
  <2>2. email[e].attempts < MaxAttempts /\ email[e].attempts <= refused[e]
    BY <1>6, <2>1 DEF Owned, MailRowInv
  <2>3. email[e].attempts \in Nat
    BY OutboxNumbers DEF OutboxTypeOK, EmailRows
  <2>4. email[e].attempts <= refused'[e]
    BY <1>2, <2>2, <2>3
  <2> QED
    BY <1>6, <2>1, <2>2, <2>4
<1>7. ASSUME NEW took \in BOOLEAN, NEW answer \in {"accepted", "refused"}, Send(w, took, answer),
             worker'[w].phase = answer, worker'[w].email = worker[w].email,
             worker'[w].attempts = worker[w].attempts
      PROVE  /\ worker'[w].email \in Mails
             /\ worker'[w].attempts < MaxAttempts
             /\ worker'[w].attempts <= refused'[worker'[w].email]
             /\ worker'[w].phase = "refused" => worker'[w].attempts < refused'[worker'[w].email]
  <2>1. PICK e \in Mails : worker[w].email = e
    BY <1>7 DEF Send, WorkerInv
  <2>2. worker[w].attempts < MaxAttempts /\ worker[w].attempts <= refused[e]
    BY <1>7, <2>1 DEF Send, WorkerInv, Delivering
  <2>3. answer = "refused" => refused'[e] = Counted(refused[e], MaxAttempts)
    BY <1>7, <2>1 DEF Send, OutboxTypeOK
  <2>4. answer = "refused" => worker[w].attempts < refused'[e]
    BY <1>2, <2>2, <2>3, Counting, OutboxNumbers
  <2> QED
    BY <1>2, <1>7, <2>1, <2>2, <2>4
<1> QED
  BY <1>1, <1>3, <1>4, <1>5, <1>6, <1>7 DEF WorkerChange

LEMMA RowInvStep ==
    ASSUME OutboxTypeOK, WorkerInv, MailRowInv, [OutboxNext]_outboxVars PROVE MailRowInv'
<1> SUFFICES ASSUME NEW e \in Mails
             PROVE  /\ email'[e].status \in {"absent", "queued", "sending", "retry_scheduled"} =>
                          email'[e].attempts < MaxAttempts /\ email'[e].attempts <= refused'[e]
                    /\ email'[e].status = "dead_letter" => refused'[e] = MaxAttempts
  BY DEF MailRowInv
<1>1. MailChange(e)
  BY Mails1
<1>2. /\ email[e].attempts \in Nat
      /\ refused[e] \in 0..MaxAttempts /\ refused'[e] \in 0..MaxAttempts /\ refused'[e] >= refused[e]
  BY Counters, OutboxNumbers DEF OutboxTypeOK, EmailRows
<1>3. CASE email'[e].status = email[e].status /\ email'[e].attempts = email[e].attempts
  BY <1>2, <1>3, OutboxNumbers DEF MailRowInv
<1>4. CASE /\ email[e].status \in {"absent", "queued", "sending", "retry_scheduled"}
           /\ email'[e].status \in {"queued", "sending"} /\ email'[e].attempts = email[e].attempts
  BY <1>2, <1>4, OutboxNumbers DEF MailRowInv
<1>5. ASSUME NEW w \in Workers, Commit(w), worker[w].email = e,
             email'[e].status = Outcome(w, worker[w].attempts + 1),
             email'[e].attempts = worker[w].attempts + 1
      PROVE  /\ email'[e].status \in {"absent", "queued", "sending", "retry_scheduled"} =>
                   email'[e].attempts < MaxAttempts /\ email'[e].attempts <= refused'[e]
             /\ email'[e].status = "dead_letter" => refused'[e] = MaxAttempts
  <2>1. worker[w].phase = "accepted" \/ worker[w].phase = "refused"
    BY <1>5 DEF Commit
  <2>2. CASE worker[w].phase = "accepted"
    BY <1>5, <2>2 DEF Outcome
  <2>3. CASE worker[w].phase = "refused"
    <3>1. worker[w].attempts \in Nat
      BY OutboxNumbers DEF OutboxTypeOK, WorkerRows
    <3>2. worker[w].attempts < refused[e]
      BY <1>5, <2>3 DEF WorkerInv, Delivering
    <3>3. email'[e].status = IF worker[w].attempts + 1 >= MaxAttempts THEN "dead_letter"
                             ELSE "retry_scheduled"
      BY <1>5, <2>3 DEF Outcome, Exhausted
    <3> QED
      BY <1>2, <1>5, <3>1, <3>2, <3>3, OutboxNumbers
  <2> QED
    BY <2>1, <2>2, <2>3
<1> QED
  BY <1>1, <1>3, <1>4, <1>5 DEF MailChange, Enqueue, Claim, Claimable

\* What is sure about a mail before the step.
LEMMA Sure ==
    ASSUME OutboxTypeOK, SureInv, NEW e \in Mails, e \notin doubtful
    PROVE  SureOf(e) /\ (accepted[e] = 0 \/ accepted[e] = 1)
<1>1. accepted[e] \in 0..2 /\ accepted[e] <= 1 /\ SureOf(e)
  BY DEF OutboxTypeOK, SureInv, SureOf
<1> QED
  BY <1>1

LEMMA Alone ==
    ASSUME NEW e \in Mails, SureOf(e), NEW v \in Workers, NEW w \in Workers,
           AtWork(v, e), AtWork(w, e)
    PROVE  v = w
BY DEF Owned, SureOf

\* Nobody works on the mail after the step: then it is sent, or never accepted.
LEMMA NobodyAtWork ==
    ASSUME NEW e \in Mails, accepted'[e] = 0 \/ accepted'[e] = 1,
           \A w \in Workers : ~AtWork(w, e)',
           email'[e].status = "sent" \/ accepted'[e] = 0
    PROVE  SureOf(e)'
<1>1. accepted'[e] <= 1
  OBVIOUS
<1> QED
  BY <1>1 DEF SureOf

\* The step is not about this mail.
LEMMA OtherMail ==
    ASSUME NEW e \in Mails, SureOf(e), email'[e] = email[e], accepted'[e] = accepted[e],
           \A w \in Workers : AtWork(w, e)' => AtWork(w, e) /\ worker'[w].phase = worker[w].phase,
           \A w \in Workers : AtWork(w, e) => AtWork(w, e)'
    PROVE  SureOf(e)'
BY DEF SureOf, Owned

\* One worker changes: for all the others their work stays what it was.
LEMMA OneWorker ==
    ASSUME OutboxTypeOK, NEW e \in Mails, SureOf(e), email'[e] = email[e], accepted'[e] = accepted[e],
           NEW v \in Workers, NEW new, worker' = [worker EXCEPT ![v] = new],
           ~AtWork(v, e), new.email # e \/ new.phase \notin Delivering
    PROVE  SureOf(e)'
<1>1. \A w \in Workers : worker'[w] = IF w = v THEN new ELSE worker[w]
  BY DEF OutboxTypeOK
<1>2. ~AtWork(v, e)'
  BY <1>1 DEF AtWork
<1>3. \A w \in Workers : w # v => (AtWork(w, e)' <=> AtWork(w, e)) /\ worker'[w] = worker[w]
  BY <1>1 DEF AtWork
<1> QED
  BY <1>2, <1>3, OtherMail

LEMMA SureStep ==
    ASSUME OutboxTypeOK, WorkerInv, SureInv, [OutboxNext]_outboxVars PROVE SureInv'
<1> SUFFICES ASSUME NEW e \in Mails, e \notin doubtful' PROVE SureOf(e)'
  BY DEF SureInv
<1>1. e \notin doubtful /\ SureOf(e) /\ (accepted[e] = 0 \/ accepted[e] = 1)
  BY Counters, Sure
<1>2. CASE UNCHANGED outboxVars
  BY <1>1, <1>2 DEF outboxVars, SureOf, AtWork, Owned
<1>3. ASSUME NEW f \in Mails, Enqueue(f) PROVE SureOf(e)'
  <2>1. worker' = worker /\ accepted' = accepted /\ \A w \in Workers : AtWork(w, e)' <=> AtWork(w, e)
    BY <1>3 DEF Enqueue, AtWork
  <2>2. CASE f # e
    <3>1. email'[e] = email[e]
      BY <1>3, <2>2 DEF Enqueue, OutboxTypeOK
    <3> QED
      BY <1>1, <2>1, <3>1, OtherMail
  <2>3. CASE f = e
    <3>1. \A w \in Workers : ~AtWork(w, e)
      BY <1>1, <1>3, <2>3 DEF Enqueue, SureOf, Owned
    <3>2. accepted[e] = 0
      BY <1>1, <1>3, <2>3, <3>1 DEF Enqueue, SureOf
    <3> QED
      BY <2>1, <3>1, <3>2, NobodyAtWork
  <2> QED
    BY <2>2, <2>3
<1>4. ASSUME NEW v \in Workers, NEW f \in Mails, Claim(v, f) PROVE SureOf(e)'
  <2>1. /\ worker[v].phase \notin Delivering
        /\ [NoDelivery EXCEPT !.phase = "claimed", !.email = f].phase \notin Delivering
        /\ worker' = [worker EXCEPT ![v] = [NoDelivery EXCEPT !.phase = "claimed", !.email = f]]
        /\ accepted' = accepted
    BY <1>4, ClaimedType DEF Claim, Delivering
  <2>2. CASE f # e
    <3>1. email'[e] = email[e] /\ ~AtWork(v, e)
      BY <1>4, <2>1, <2>2 DEF Claim, OutboxTypeOK, AtWork
    <3> QED
      BY <1>1, <2>1, <3>1, OneWorker
  <2>3. CASE f = e
    <3>1. \A w \in Workers : ~AtWork(w, e)
      BY <1>1, <1>4, <2>3 DEF Claim, Claimable, SureOf, Owned
    <3>2. accepted[e] = 0
      BY <1>1, <1>4, <2>3, <3>1 DEF Claim, Claimable, SureOf
    <3>3. \A w \in Workers : ~AtWork(w, e)'
      BY <2>1, <3>1 DEF AtWork, OutboxTypeOK
    <3> QED
      BY <2>1, <3>2, <3>3, NobodyAtWork
  <2> QED
    BY <2>2, <2>3
<1>5. ASSUME NEW v \in Workers, Load(v) PROVE SureOf(e)'
  <2>1. email' = email /\ accepted' = accepted /\ ~AtWork(v, e)
    BY <1>5 DEF Load, AtWork, Delivering
  <2>2. CASE ~Owned(v, worker[v].email)
    <3>1. worker' = [worker EXCEPT ![v] = NoDelivery]
      BY <1>5, <2>2 DEF Load
    <3> QED
      BY <1>1, <2>1, <3>1, OneWorker, NoDeliveryType
  <2>3. CASE Owned(v, worker[v].email)
    <3>1. WorkerChange(v)
      BY Workers1
    <3>2. PICK new : worker' = [worker EXCEPT ![v] = new]
      BY <1>5 DEF Load
    <3>3. worker'[v] = new /\ worker[v].email \in Mails /\ worker[v].phase = "claimed"
      BY <1>5, <3>2 DEF OutboxTypeOK, Load, WorkerInv
    <3>4. new = [worker[v] EXCEPT !.phase = "sending", !.attempts = email[worker[v].email].attempts]
      BY <1>5, <2>3, <3>3 DEF Load, OutboxTypeOK
    <3>5. new.email = worker[v].email /\ new.phase = "sending"
      BY <3>4 DEF OutboxTypeOK, WorkerRows
    <3>6. CASE worker[v].email # e
      BY <1>1, <2>1, <3>2, <3>5, <3>6, OneWorker
    <3>7. CASE worker[v].email = e
      <4>1. email[e].lease_live
        BY <1>5, <2>3, <3>7 DEF Load
      <4>2. \A w \in Workers : ~AtWork(w, e)
        BY <1>1, <2>1, <2>3, <3>7 DEF SureOf, Owned
      <4>3. accepted[e] = 0
        BY <1>1, <2>3, <3>7, <4>2 DEF SureOf, Owned
      <4>4. \A w \in Workers : worker'[w] = IF w = v THEN new ELSE worker[w]
        BY <3>2 DEF OutboxTypeOK
      <4>5. \A w \in Workers : AtWork(w, e)' => w = v /\ worker'[w].phase = "sending"
        BY <3>5, <4>2, <4>4 DEF AtWork
      <4> QED
        BY <2>1, <2>3, <3>7, <4>1, <4>3, <4>5 DEF SureOf, Owned
    <3> QED
      BY <3>6, <3>7
  <2> QED
    BY <2>2, <2>3
<1>6. ASSUME NEW v \in Workers, NEW took \in BOOLEAN, NEW answer \in {"accepted", "refused"},
             Send(v, took, answer)
      PROVE  SureOf(e)'
  <2>1. PICK new : new = [worker[v] EXCEPT !.phase = answer]
    OBVIOUS
  <2>2. /\ worker' = [worker EXCEPT ![v] = new]
        /\ email' = email /\ worker[v].phase = "sending"
    BY <1>6, <2>1 DEF Send
  <2>3. new.email = worker[v].email /\ new.phase = answer
    BY <2>1 DEF OutboxTypeOK, WorkerRows
  <2>4. \A w \in Workers : worker'[w] = IF w = v THEN new ELSE worker[w]
    BY <2>2 DEF OutboxTypeOK
  <2>5. CASE worker[v].email # e
    <3>1. accepted'[e] = accepted[e] /\ ~AtWork(v, e) /\ email'[e] = email[e]
      BY <1>6, <2>2, <2>5 DEF Send, OutboxTypeOK, AtWork
    <3> QED
      BY <1>1, <2>2, <2>3, <2>5, <3>1, OneWorker
  <2>6. CASE worker[v].email = e
    <3>1. AtWork(v, e)
      BY <2>2, <2>6 DEF AtWork, Delivering
    <3>2. Owned(v, e) /\ email[e].lease_live /\ accepted[e] = 0
      BY <1>1, <2>2, <3>1 DEF SureOf
    <3>3. AtWork(v, e)' /\ \A w \in Workers : AtWork(w, e)' => w = v
      <4>1. AtWork(v, e)'
        BY <2>3, <2>4, <2>6 DEF AtWork, Delivering
      <4>2. \A w \in Workers : w # v => (AtWork(w, e)' <=> AtWork(w, e))
        BY <2>4 DEF AtWork
      <4> QED
        BY <1>1, <3>1, <4>1, <4>2, Alone
    <3>4. took => answer = "accepted"
      BY <1>6, <2>6 DEF Send
    <3>5. /\ accepted'[e] = 0 \/ accepted'[e] = 1
          /\ answer # "accepted" => accepted'[e] = 0
      BY <1>6, <2>6, <3>2, <3>4 DEF Send, Counted, OutboxTypeOK
    <3>6. worker'[v].phase = answer
      BY <2>3, <2>4
    <3>7. accepted'[e] <= 1
      BY <3>5
    <3> QED
      BY <2>2, <3>2, <3>3, <3>5, <3>6, <3>7 DEF SureOf, Owned
  <2> QED
    BY <2>5, <2>6
<1>7. ASSUME NEW v \in Workers, Commit(v) PROVE SureOf(e)'
  <2>1. worker' = [worker EXCEPT ![v] = NoDelivery] /\ accepted' = accepted
    BY <1>7 DEF Commit
  <2>2. CASE worker[v].email # e
    <3>1. email'[e] = email[e] /\ ~AtWork(v, e)
      BY <1>7, <2>2 DEF Commit, AtWork, OutboxTypeOK
    <3> QED
      BY <1>1, <2>1, <3>1, OneWorker, NoDeliveryType
  <2>3. CASE worker[v].email = e
    <3>1. AtWork(v, e)
      BY <1>7, <2>3 DEF Commit, AtWork, Delivering
    <3>2. \A w \in Workers : ~AtWork(w, e)'
      BY <1>1, <2>1, <3>1, Alone, NoDeliveryType DEF AtWork, OutboxTypeOK
    <3>3. CASE worker[v].phase = "accepted"
      <4>1. email'[e].status = "sent"
        BY <1>7, <2>3, <3>3 DEF Commit, Outcome, OutboxTypeOK
      <4> QED
        BY <1>1, <2>1, <3>2, <4>1, NobodyAtWork
    <3>4. CASE worker[v].phase # "accepted"
      <4>1. accepted[e] = 0
        BY <1>1, <3>1, <3>4 DEF SureOf
      <4> QED
        BY <2>1, <3>2, <4>1, NobodyAtWork
    <3> QED
      BY <3>3, <3>4
  <2> QED
    BY <2>2, <2>3
<1>8. ASSUME NEW v \in Workers, Crash(v) PROVE SureOf(e)'
  <2>1. worker' = [worker EXCEPT ![v] = NoDelivery] /\ UNCHANGED <<email, accepted>>
    BY <1>8 DEF Crash
  <2>2. CASE ~AtWork(v, e)
    BY <1>1, <2>1, <2>2, OneWorker, NoDeliveryType
  <2>3. CASE AtWork(v, e)
    <3>1. worker[v].phase # "accepted"
      BY <1>8, <2>3 DEF Crash, AtWork
    <3>2. accepted[e] = 0
      BY <1>1, <2>3, <3>1 DEF SureOf
    <3>3. \A w \in Workers : ~AtWork(w, e)'
      BY <1>1, <2>1, <2>3, Alone, NoDeliveryType DEF AtWork, OutboxTypeOK
    <3> QED
      BY <2>1, <3>2, <3>3, NobodyAtWork
  <2> QED
    BY <2>2, <2>3
<1>9. ASSUME NEW f \in Mails, LeaseExpires(f) PROVE SureOf(e)'
  <2>1. worker' = worker /\ accepted' = accepted /\ \A w \in Workers : AtWork(w, e)' <=> AtWork(w, e)
    BY <1>9 DEF LeaseExpires, AtWork
  <2>2. CASE f # e
    <3>1. email'[e] = email[e]
      BY <1>9, <2>2 DEF LeaseExpires, OutboxTypeOK
    <3> QED
      BY <1>1, <2>1, <3>1, OtherMail
  <2>3. CASE f = e
    <3>1. \A w \in Workers : ~AtWork(w, e)
      BY <1>9, <2>3 DEF LeaseExpires, AtWork, Delivering
    <3>2. email'[e].status = email[e].status
      BY <1>9, <2>3, ExpiredType DEF LeaseExpires, OutboxTypeOK
    <3>3. email[e].status = "sent" \/ accepted[e] = 0
      BY <1>1, <3>1 DEF SureOf
    <3> QED
      BY <1>1, <2>1, <3>1, <3>2, <3>3, NobodyAtWork
  <2> QED
    BY <2>2, <2>3
<1> QED
  BY <1>2, <1>3, <1>4, <1>5, <1>6, <1>7, <1>8, <1>9 DEF OutboxNext, WorkerStep

LEMMA OutboxBegins == OutboxInit => OutboxIInv
<1> SUFFICES ASSUME OutboxInit PROVE OutboxIInv
  OBVIOUS
<1>1. [status |-> "absent", attempts |-> 0, lease_owner |-> None, lease_live |-> FALSE] \in EmailRows
  BY OutboxNumbers DEF EmailRows, EmailStates
<1>2. OutboxTypeOK
  BY <1>1, NoDeliveryType, OutboxNumbers DEF OutboxInit, OutboxTypeOK
<1>3. WorkerInv
  BY NoDeliveryType DEF OutboxInit, WorkerInv
<1>4. MailRowInv
  BY OutboxNumbers DEF OutboxInit, MailRowInv
<1>5. SureInv
  <2>1. ASSUME NEW e \in Mails PROVE accepted[e] = 0 /\ \A w \in Workers : ~AtWork(w, e)
    BY NoDeliveryType DEF OutboxInit, AtWork
  <2> QED
    BY <2>1 DEF SureInv, SureOf
<1> QED
  BY <1>2, <1>3, <1>4, <1>5 DEF OutboxIInv

LEMMA OutboxInvariance == OutboxSpec => []OutboxIInv
<1>1. OutboxIInv /\ [OutboxNext]_outboxVars => OutboxIInv'
  BY OutboxTypeStep, WorkerInvStep, RowInvStep, SureStep DEF OutboxIInv
<1> QED
  BY OutboxBegins, <1>1, PTL DEF OutboxSpec

(***************************************************************************)
(* The theorems.                                                           *)
(***************************************************************************)
\* The rows keep their types: no row ever counts more than MaxAttempts.
THEOREM OutboxTypeCorrect == OutboxSpec => []OutboxTypeOK
<1>1. OutboxIInv => OutboxTypeOK
  BY DEF OutboxIInv
<1> QED
  BY <1>1, OutboxInvariance, PTL

\* Whatever workers overlap or die, a mail becomes a dead letter only after
\* MaxAttempts deliveries really failed.
THEOREM NoEarlyDeadLetter == OutboxSpec => []DeadLettersAreExhausted
<1>1. OutboxIInv => DeadLettersAreExhausted
  BY DEF OutboxIInv, MailRowInv, DeadLettersAreExhausted
<1> QED
  BY <1>1, OutboxInvariance, PTL

\* A second acceptance by the SMTP server has one of the three causes that
\* make a mail doubtful.
THEOREM NoNeedlessSecondMail == OutboxSpec => []OneMailUnlessDoubtful
<1>1. OutboxIInv => OneMailUnlessDoubtful
  <2> SUFFICES ASSUME OutboxIInv, NEW e \in Mails, accepted[e] > 1, e \notin doubtful PROVE FALSE
    BY DEF OneMailUnlessDoubtful
  <2>1. accepted[e] = 0 \/ accepted[e] = 1
    BY Sure DEF OutboxIInv
  <2> QED
    BY <2>1
<1> QED
  BY <1>1, OutboxInvariance, PTL

-----------------------------------------------------------------------------
(***************************************************************************)
(* The token cache keeps its promise for any number of coroutines and any  *)
(* lifetimes: an answer is late by the timeout at most, which the safety   *)
(* window covers, and only the holder of the lock writes the cache.        *)
(***************************************************************************)

\* The lock is held exactly while its holder asks Daraja, after a second miss.
CacheLockInv ==
    /\ \A r \in Coroutines : fetch[r] = "fetching" <=> lock = r
    /\ lock # None => ~Usable
    /\ issued # None => lock # None

\* No token is under way for longer than the timeout.
TransitInv == issued # None => issued.at <= now /\ now <= issued.at + Timeout

\* A cached token outlives its time in the cache, if it outlives the margin.
CachedInv ==
    cached # None /\ cached.token.lifetime > Margin =>
        cached.until <= cached.token.at + cached.token.lifetime

TokenCacheIInv == TokenCacheTypeOK /\ CacheLockInv /\ TransitInv /\ CachedInv

LEMMA CacheNumbers ==
    /\ Cap \in Nat /\ Margin \in Nat /\ Timeout \in Nat /\ MaxTime \in Nat
    /\ Cap > 0 /\ Timeout <= Margin /\ None \notin Coroutines
    /\ \A lifetime \in Lifetimes : lifetime \in Nat
BY TokenCacheAssumption

LEMMA TtlBounds ==
    ASSUME NEW lifetime \in Lifetimes
    PROVE  /\ Ttl(lifetime) \in 1..Cap
           /\ lifetime > Margin => Ttl(lifetime) <= lifetime - Margin
BY CacheNumbers DEF Ttl, Larger, Smaller

LEMMA CacheBegins == TokenCacheInit => TokenCacheIInv
BY CacheNumbers DEF TokenCacheInit, TokenCacheIInv, TokenCacheTypeOK, CacheLockInv, TransitInv, CachedInv

\* What Receive caches: "late" is how long the answer was under way.
LEMMA CachedRow ==
    ASSUME TokenCacheTypeOK, TransitInv, issued # None, NEW slot,
           slot = [token |-> issued, until |-> now + Ttl(issued.lifetime)]
    PROVE  /\ slot \in CachedTokens /\ slot.token = issued
           /\ issued.lifetime > Margin => slot.until <= issued.at + issued.lifetime
<1>1. /\ issued \in AccessTokens /\ issued.at \in 0..MaxTime /\ issued.lifetime \in Lifetimes
      /\ now \in 0..MaxTime
  BY DEF TokenCacheTypeOK, AccessTokens
<1>2. PICK ttl \in 1..Cap : /\ ttl = Ttl(issued.lifetime)
                            /\ issued.lifetime > Margin => ttl <= issued.lifetime - Margin
  BY <1>1, TtlBounds
<1>3. now + ttl \in Times
  BY <1>1, <1>2, CacheNumbers DEF Times
<1>4. issued.lifetime > Margin => now + ttl <= issued.at + issued.lifetime
  BY <1>1, <1>2, CacheNumbers DEF TransitInv
<1> QED
  BY <1>1, <1>2, <1>3, <1>4 DEF CachedTokens

LEMMA StepHolds == ASSUME TokenCacheIInv, [TokenCacheNext]_tokenCacheVars PROVE TokenCacheIInv'
<1> USE DEF TokenCacheIInv, TokenCacheTypeOK
<1>1. ASSUME NEW r \in Coroutines, Miss(r) PROVE TokenCacheIInv'
  BY <1>1, CacheNumbers DEF Miss, CacheLockInv, TransitInv, CachedInv, Usable
<1>2. ASSUME NEW r \in Coroutines, Acquire(r) PROVE TokenCacheIInv'
  BY <1>2, CacheNumbers DEF Acquire, CacheLockInv, TransitInv, CachedInv, Usable
<1>3. ASSUME NEW lifetime \in Lifetimes, Grant(lifetime) PROVE TokenCacheIInv'
  <2>1. PICK new : new = [at |-> now, lifetime |-> lifetime]
    OBVIOUS
  <2>2. new \in AccessTokens /\ new.at = now
    BY <2>1 DEF AccessTokens
  <2>3. issued' = new
    BY <1>3, <2>1 DEF Grant
  <2>4. now <= now + Timeout
    BY CacheNumbers
  <2>5. TransitInv'
    BY <1>3, <2>2, <2>3, <2>4 DEF Grant, TransitInv
  <2> QED
    BY <1>3, <2>2, <2>3, <2>5 DEF Grant, CacheLockInv, CachedInv, Usable
<1>4. ASSUME NEW r \in Coroutines, Receive(r) PROVE TokenCacheIInv'
  <2>1. PICK slot : slot = [token |-> issued, until |-> now + Ttl(issued.lifetime)]
    OBVIOUS
  <2>2. cached' = slot /\ issued # None
    BY <1>4, <2>1 DEF Receive
  <2>3. /\ slot \in CachedTokens /\ slot.token = issued
        /\ issued.lifetime > Margin => slot.until <= issued.at + issued.lifetime
    BY <2>1, <2>2, CachedRow
  <2>4. CachedInv'
    BY <2>2, <2>3 DEF CachedInv
  <2>5. CacheLockInv'
    BY <1>4, CacheNumbers DEF Receive, CacheLockInv
  <2>6. TokenCacheTypeOK'
    BY <1>4, <2>2, <2>3 DEF Receive
  <2>7. TransitInv'
    BY <1>4 DEF Receive, TransitInv
  <2> QED
    BY <2>4, <2>5, <2>6, <2>7
<1>5. ASSUME NEW r \in Coroutines, Forgo(r) PROVE TokenCacheIInv'
  BY <1>5, CacheNumbers DEF Forgo, CacheLockInv, TransitInv, CachedInv, Usable
<1>6. CASE Tick
  <2>1. now' = now + 1 /\ now' \in 0..MaxTime
    BY <1>6, CacheNumbers DEF Tick
  <2>2. TransitInv'
    BY <1>6, <2>1, CacheNumbers DEF Tick, TransitInv, AccessTokens
  <2>3. ~Usable => ~Usable'
    BY <1>6, <2>1, CacheNumbers DEF Tick, Usable, CachedTokens, Times
  <2> QED
    BY <1>6, <2>1, <2>2, <2>3 DEF Tick, CacheLockInv, CachedInv
<1>7. CASE UNCHANGED tokenCacheVars
  BY <1>7 DEF tokenCacheVars, CacheLockInv, TransitInv, CachedInv, Usable
<1> QED
  BY <1>1, <1>2, <1>3, <1>4, <1>5, <1>6, <1>7 DEF TokenCacheNext

LEMMA CacheInvariance == TokenCacheSpec => []TokenCacheIInv
BY CacheBegins, StepHolds, PTL DEF TokenCacheSpec

(***************************************************************************)
(* The theorems.                                                           *)
(***************************************************************************)
\* The cache, the lock and the coroutines keep their types.
THEOREM CacheTypeCorrect == TokenCacheSpec => []TokenCacheTypeOK
<1>1. TokenCacheIInv => TokenCacheTypeOK
  BY DEF TokenCacheIInv
<1> QED
  BY <1>1, CacheInvariance, PTL

\* A cached token that would be used is alive at Daraja if it was granted for
\* longer than the margin, and nobody fetches while one is cached.
THEOREM TokensAreAlive == TokenCacheSpec => []CacheKeepsItsPromise
<1>1. ASSUME TokenCacheIInv PROVE CachedTokenIsAlive
  <2>1. ASSUME Usable, cached.token.lifetime > Margin
        PROVE  now < cached.token.at + cached.token.lifetime
    <3>1. /\ cached \in CachedTokens /\ cached.token.at \in 0..MaxTime
          /\ cached.token.lifetime \in Nat /\ cached.until \in Times /\ now \in 0..MaxTime
      BY <1>1, <2>1, CacheNumbers DEF TokenCacheIInv, TokenCacheTypeOK, Usable, CachedTokens, AccessTokens
    <3>2. cached.until > now /\ cached.until <= cached.token.at + cached.token.lifetime
      BY <1>1, <2>1 DEF TokenCacheIInv, CachedInv, Usable
    <3> QED
      BY <3>1, <3>2, CacheNumbers DEF Times
  <2> QED
    BY <2>1 DEF CachedTokenIsAlive
<1>2. TokenCacheIInv => NoNeedlessFetch
  BY CacheNumbers DEF TokenCacheIInv, CacheLockInv, NoNeedlessFetch
<1>3. TokenCacheIInv => CacheKeepsItsPromise
  BY <1>1, <1>2 DEF CacheKeepsItsPromise
<1> QED
  BY <1>3, CacheInvariance, PTL

-----------------------------------------------------------------------------
(***************************************************************************)
(* The components together.  Each moves by its own next-state relation, or *)
(* not at all, so what is proved of it alone holds among the others; the   *)
(* dashboard shares the sessions, and while they move without it its       *)
(* browser has not signed in.                                              *)
(***************************************************************************)
LEMMA ComponentsAlone ==
    Spec => /\ InvoiceSpec /\ TokenSpec /\ TeamSpec /\ OnboardingSpec
            /\ RotationSpec /\ OutboxSpec /\ TokenCacheSpec
<1>1. /\ Init => InvoiceInit
      /\ [Next]_vars => [InvoiceNext]_invoiceVars
  BY DEF Init, Next, vars, MoveInvoices, MoveSessions, MoveDashboard, MoveTokens, MoveTeam,
         MoveOnboarding, MoveRotation, MoveOutbox, MoveCache
<1>2. /\ Init => TokenInit
      /\ [Next]_vars => [TokenNext]_tokenVars
  BY DEF Init, Next, vars, MoveInvoices, MoveSessions, MoveDashboard, MoveTokens, MoveTeam,
         MoveOnboarding, MoveRotation, MoveOutbox, MoveCache
<1>3. /\ Init => TeamInit
      /\ [Next]_vars => [TeamNext]_teamVars
  BY DEF Init, Next, vars, MoveInvoices, MoveSessions, MoveDashboard, MoveTokens, MoveTeam,
         MoveOnboarding, MoveRotation, MoveOutbox, MoveCache
<1>4. /\ Init => OnboardingInit
      /\ [Next]_vars => [OnboardingNext]_onboardingVars
  BY DEF Init, Next, vars, MoveInvoices, MoveSessions, MoveDashboard, MoveTokens, MoveTeam,
         MoveOnboarding, MoveRotation, MoveOutbox, MoveCache
<1>5. /\ Init => RotationInit
      /\ [Next]_vars => [RotationNext]_rotationVars
  BY DEF Init, Next, vars, MoveInvoices, MoveSessions, MoveDashboard, MoveTokens, MoveTeam,
         MoveOnboarding, MoveRotation, MoveOutbox, MoveCache
<1>6. /\ Init => OutboxInit
      /\ [Next]_vars => [OutboxNext]_outboxVars
  BY DEF Init, Next, vars, MoveInvoices, MoveSessions, MoveDashboard, MoveTokens, MoveTeam,
         MoveOnboarding, MoveRotation, MoveOutbox, MoveCache
<1>7. /\ Init => TokenCacheInit
      /\ [Next]_vars => [TokenCacheNext]_tokenCacheVars
  BY DEF Init, Next, vars, MoveInvoices, MoveSessions, MoveDashboard, MoveTokens, MoveTeam,
         MoveOnboarding, MoveRotation, MoveOutbox, MoveCache
<1> QED
  BY <1>1, <1>2, <1>3, <1>4, <1>5, <1>6, <1>7, PTL
     DEF Spec, InvoiceSpec, TokenSpec, TeamSpec, OnboardingSpec, RotationSpec, OutboxSpec,
         TokenCacheSpec

\* The browser before its first sign-in.
SignedOut ==
    /\ cookie = None /\ families = {} /\ lapsed = {}
    /\ \A q \in Requests : call[q] = NoCall
    /\ \A s \in Sessions : entry[s] = NoEntry

SharedIInv ==
    /\ SessionIInv
    /\ focus # "sessions" => BrowserIInv
    /\ focus = "sessions" => SignedOut

LEMMA SharedInvariance == Spec => []SharedIInv
<1>1. Init => SharedIInv
  <2> SUFFICES ASSUME Init PROVE SharedIInv
    OBVIOUS
  <2>1. DashboardInit
    BY DEF Init
  <2>2. SessionIInv /\ BrowserIInv
    BY <2>1, SessionsBegin, BrowserBegins DEF DashboardInit
  <2>3. SignedOut
    BY <2>1 DEF SignedOut, DashboardInit
  <2> QED
    BY <2>2, <2>3 DEF SharedIInv
<1>2. ASSUME SharedIInv, [Next]_vars PROVE SharedIInv'
  <2>1. focus' = focus
    BY <1>2 DEF Next, vars
  <2>2. CASE focus = "sessions"
    <3>1. [ServerNext]_serverVars /\ UNCHANGED dashboardVars
      BY <1>2, <2>2 DEF Next, MoveInvoices, MoveSessions, MoveDashboard, MoveTokens, MoveTeam,
         MoveOnboarding, MoveRotation, MoveOutbox, MoveCache, vars
    <3>2. SessionIInv'
      BY <1>2, <3>1, SessionStepHolds DEF SharedIInv
    <3>3. SignedOut'
      BY <1>2, <2>2, <3>1 DEF SharedIInv, SignedOut, dashboardVars
    <3> QED
      BY <2>1, <2>2, <3>2, <3>3 DEF SharedIInv
  <2>3. CASE focus # "sessions"
    <3>1. [DashboardNext]_<<serverVars, dashboardVars>>
      BY <1>2, <2>3 DEF Next, MoveInvoices, MoveSessions, MoveDashboard, MoveTokens, MoveTeam,
         MoveOnboarding, MoveRotation, MoveOutbox, MoveCache, vars
    <3>2. SessionIInv /\ BrowserIInv
      BY <1>2, <2>3 DEF SharedIInv
    <3>3. SessionIInv'
      BY <3>1, <3>2, DashboardServes, SessionStepHolds
    <3>4. BrowserIInv'
      BY <3>1, <3>2, <3>3, BrowserStep
    <3> QED
      BY <2>1, <2>3, <3>3, <3>4 DEF SharedIInv
  <2> QED
    BY <2>2, <2>3
<1> QED
  BY <1>1, <1>2, PTL DEF Spec

\* Whichever component moves, its rows, transactions and caches keep their types.
THEOREM BackOfficeTypeCorrect == Spec => []TypeOK
<1>1. focus \in Components /\ SharedIInv /\ InvoiceTypeOK /\ TokenTypeOK /\ TeamTypeOK
          /\ OnboardingTypeOK /\ RotationTypeOK /\ OutboxTypeOK /\ TokenCacheTypeOK
      => TypeOK
  BY DEF TypeOK, Components, SharedIInv, SessionIInv, BrowserIInv
<1>2. Spec => [](focus \in Components)
  <2>1. Init => focus \in Components
    BY DEF Init
  <2>2. focus \in Components /\ [Next]_vars => (focus \in Components)'
    BY DEF Next, vars
  <2> QED
    BY <2>1, <2>2, PTL DEF Spec
<1> QED
  BY <1>1, <1>2, ComponentsAlone, SharedInvariance, InvoiceTypeCorrect, TokenTypeCorrect,
     TeamTypeCorrect, OnboardingTypeCorrect, RotationTypeCorrect, OutboxTypeCorrect,
     CacheTypeCorrect, PTL

\* What is promised of each component holds of all of them together.
Promises ==
    /\ PaidIsBacked /\ LinkAsksOnce /\ SuccessClosesInvoice
    /\ OneHeadPerFamily /\ ResetEndsSessions /\ NoSelfInflictedReuse
    /\ OneTokenOfAllPending
    /\ InvitationsMatchMembers
    /\ ActiveIsEarned
    /\ RotationLosesNothing
    /\ DeadLettersAreExhausted /\ OneMailUnlessDoubtful
    /\ CacheKeepsItsPromise

\* The composition keeps the promises of every component: the invoices, the
\* sessions and their dashboard, the mailed tokens, the team, onboarding, key
\* rotation, the outbox and the token cache.
THEOREM PromisesAreKept == Spec => []Promises
<1>1. SharedIInv => OneHeadPerFamily /\ ResetEndsSessions /\ NoSelfInflictedReuse
  <2>1. SharedIInv => OneHeadPerFamily /\ ResetEndsSessions
    BY DEF SharedIInv, SessionIInv
  <2>2. BrowserIInv => NoSelfInflictedReuse
    BY BrowserKeepsPromise
  <2>3. SignedOut => NoSelfInflictedReuse
    BY CallRows DEF SignedOut, NoSelfInflictedReuse, Phase
  <2> QED
    BY <2>1, <2>2, <2>3 DEF SharedIInv
<1> QED
  BY <1>1, ComponentsAlone, SharedInvariance, PaidInvoicesAreBacked, OnePaymentAtATime,
     SuccessShutsTheLink, OneTokenIsUsed, InvitationsAlwaysMatch, ActiveIsAlwaysEarned,
     NothingIsLost, NoEarlyDeadLetter, NoNeedlessSecondMail, TokensAreAlive, PTL
     DEF Promises

=============================================================================
