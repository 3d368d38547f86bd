-------------------------------- MODULE Team --------------------------------
(***************************************************************************)
(* The members of one organization and their invitations (app/team.py).    *)
(* No handler of this file locks a row: each reads, decides and commits,   *)
(* and only the unique indexes on user emails and on pending invitations   *)
(* stand between two of them.                                              *)
(***************************************************************************)
EXTENDS Naturals, FiniteSets, Null

CONSTANTS
    Emails,         \* addresses; a user is known by its address
    Founders,       \* the owners the organization starts with
    Invitations,    \* lynxpay_team_invitations rows
    Admins          \* requests in progress

ASSUME TeamAssumption == Founders \subseteq Emails /\ None \notin Invitations \cup Emails

VARIABLES
    member,     \* the user rows, by email
    invitation, \* the invitation rows
    update,     \* the transaction of each request
    crossed     \* invitations accepted and revoked by overlapping requests

teamVars == <<member, invitation, update, crossed>>

\* "admin" stands for every role that is not owner; "elsewhere": the address
\* belongs to a user of another organization.
Roles == {"owner", "admin"}
MemberRows ==
    [status : {"absent", "active", "inactive", "elsewhere"}, role : Roles,
     via : Invitations \cup {None}]
InvitationRows ==
    [status : {"absent", "pending", "accepted", "revoked"}, email : Emails \cup {None}]

\* The payload of update_member; "keep" is a field it leaves out.
Changes == [role : Roles \cup {"keep"}, status : {"active", "inactive", "keep"}]
UpdateRows ==
    [op : {"idle", "invite", "accept", "revoke"}, on : Emails \cup Invitations \cup {None}]
        \cup [op : {"update"}, on : Emails, change : Changes, saw : MemberRows]
NoUpdate == [op |-> "idle", on |-> None]

TeamTypeOK ==
    /\ member \in [Emails -> MemberRows]
    /\ invitation \in [Invitations -> InvitationRows]
    /\ update \in [Admins -> UpdateRows]
    /\ crossed \subseteq Invitations

NoMember == [status |-> "absent", role |-> "admin", via |-> None]

TeamInit ==
    /\ member = [e \in Emails |->
            IF e \in Founders THEN [status |-> "active", role |-> "owner", via |-> None]
            ELSE NoMember]
    /\ invitation = [i \in Invitations |->
            [status |-> "absent", email |-> None]]
    /\ update = [r \in Admins |-> NoUpdate]
    /\ crossed = {}

Registered(e) == member[e].status # "absent"
Working(r) == update[r] # NoUpdate
Complete(r) == update' = [update EXCEPT ![r] = NoUpdate]

\* get_principal and require_control_admin: somebody who may administer.
MayAdminister == \E e \in Emails : member[e].status = "active"

ActiveOwners == {e \in Emails : member[e].role = "owner" /\ member[e].status = "active"}

(***************************************************************************)
(* Invitations.                                                            *)
(***************************************************************************)
\* create_invitation looks the address up ...
ReadEmail(r, e) ==
    /\ ~Working(r)
    /\ MayAdminister
    /\ ~Registered(e)
    /\ update' = [update EXCEPT ![r] = [op |-> "invite", on |-> e]]
    /\ UNCHANGED <<member, invitation, crossed>>

\* ... and inserts: the partial unique index allows one pending row per email.
CommitInvitation(r, i) ==
    LET e == update[r].on
    IN  /\ update[r].op = "invite"
        /\ invitation[i].status = "absent"
        /\ \A j \in Invitations : ~(invitation[j].status = "pending" /\ invitation[j].email = e)
        /\ invitation' = [invitation EXCEPT ![i] = [status |-> "pending", email |-> e]]
        /\ Complete(r)
        /\ UNCHANGED <<member, crossed>>

\* revoke_invitation and accept_invitation read a pending row ...
ReadInvitation(r, i, op) ==
    /\ ~Working(r)
    /\ invitation[i].status = "pending"
    /\ \/ op = "revoke" /\ MayAdminister
       \/ op = "accept" /\ ~Registered(invitation[i].email)
    /\ update' = [update EXCEPT ![r] = [op |-> op, on |-> i]]
    /\ crossed' = IF \E q \in Admins : update[q].on = i /\ update[q].op # op
                  THEN crossed \cup {i} ELSE crossed
    /\ UNCHANGED <<member, invitation>>

\* ... and write its status, whatever it is by now.
CommitRevoke(r) ==
    /\ update[r].op = "revoke"
    /\ invitation' = [invitation EXCEPT ![update[r].on].status = "revoked"]
    /\ Complete(r)
    /\ UNCHANGED <<member, crossed>>

EmailTakenNever(e) == FALSE                 \* mutant: no unique index
EmailTaken(e) == Registered(e)

CommitAccept(r) ==
    LET i == update[r].on
        e == invitation[i].email
    IN  /\ update[r].op = "accept"
        /\ ~EmailTaken(e)
        /\ member' = [member EXCEPT ![e] =
                [status |-> "active", role |-> "admin", via |-> i]]
        /\ invitation' = [invitation EXCEPT ![i].status = "accepted"]
        /\ Complete(r)
        /\ UNCHANGED crossed

\* register: the address opens an organization of its own.
RegisterElsewhere(e) ==
    /\ ~Registered(e)
    /\ member' = [member EXCEPT ![e].status = "elsewhere"]
    /\ UNCHANGED <<invitation, update, crossed>>

(***************************************************************************)
(* Members.                                                                *)
(***************************************************************************)
Given(value, old) == IF value = "keep" THEN old ELSE value

RemovesOwner(m, c) ==
    m.role = "owner" /\ (Given(c.role, "owner") # "owner" \/ Given(c.status, m.status) # "active")

\* update_member reads the member and counts the owners ...
ReadMember(r, e, c) ==
    /\ ~Working(r)
    /\ MayAdminister
    /\ member[e].status \in {"active", "inactive"}
    /\ RemovesOwner(member[e], c) => Cardinality(ActiveOwners) > 1
    /\ update' = [update EXCEPT ![r] =
            [op |-> "update", on |-> e, change |-> c, saw |-> member[e]]]
    /\ UNCHANGED <<member, invitation, crossed>>

\* ... and writes the fields that differ from what was read.
CommitMember(r) ==
    LET e == update[r].on
        Written(value, saw, now) == IF value \in {"keep", saw} THEN now ELSE value
    IN  /\ update[r].op = "update"
        /\ member' = [member EXCEPT
              ![e].role = Written(update[r].change.role, update[r].saw.role, @),
              ![e].status = Written(update[r].change.status, update[r].saw.status, @)]
        /\ Complete(r)
        /\ UNCHANGED <<invitation, crossed>>

\* A refused commit, or a crash.
Withdraw(r) ==
    /\ Working(r)
    /\ Complete(r)
    /\ UNCHANGED <<member, invitation, crossed>>

TeamNext ==
    \/ \E e \in Emails : RegisterElsewhere(e)
    \/ \E r \in Admins :
        \/ \E e \in Emails : ReadEmail(r, e)
        \/ \E i \in Invitations : CommitInvitation(r, i)
        \/ \E i \in Invitations, op \in {"accept", "revoke"} : ReadInvitation(r, i, op)
        \/ CommitRevoke(r) \/ CommitAccept(r)
        \/ \E e \in Emails, c \in Changes : ReadMember(r, e, c)
        \/ CommitMember(r)
        \/ Withdraw(r)

TeamSpec == TeamInit /\ [][TeamNext]_teamVars

-----------------------------------------------------------------------------
\* An accepted invitation is the one its member came by, so no two invitations
\* of one address are both accepted; and a member's invitation stays accepted
\* unless an administrator revoked it while it was being accepted.
InvitationsMatchMembers ==
    \A i \in Invitations :
        /\ invitation[i].status = "accepted" => member[invitation[i].email].via = i
        /\ \A e \in Emails :
            member[e].via = i => \/ invitation[i].status = "accepted"
                                 \/ invitation[i].status = "revoked" /\ i \in crossed

\* What update_member says of itself ("Organization must retain an active
\* owner"): an organization never loses its last active owner.
OwnerIsRetained == ActiveOwners # {}

=============================================================================
