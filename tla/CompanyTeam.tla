------------------------------ MODULE CompanyTeam ------------------------------
(***************************************************************************)
(* The team of a company: the members who act in its name, invited by      *)
(* e-mail and possibly before they have an account, and the roster of      *)
(* professionals it wants to show on its public profile, each of whom has  *)
(* to confirm.                                                             *)
(*                                                                         *)
(* A user stands for the person and for their e-mail, so a row of members  *)
(* names the person invited, and userId says whether it is linked to their *)
(* account yet.  The handlers make one write each, guarded in itself, and  *)
(* are one action; an invitation that races the invited person's sign-up   *)
(* leaves the row unlinked, as one sent before the sign-up does.           *)
(***************************************************************************)
EXTENDS Naturals, Sequences, SequencesExt

CONSTANTS
  Companies, Professionals, Contractors,  \* the users
  NoUser,
  Listable   \* bound: the professionals a company may list

People == Professionals \cup Contractors
Users == Companies \cup People

ASSUME TeamAssumption ==
  /\ Companies \cap People = {} /\ Professionals \cap Contractors = {}
  /\ NoUser \notin Users /\ Listable \subseteq Professionals
  /\ IsFiniteSet(Professionals)

VARIABLES
  registered,  \* the people who have an account
  members,     \* company_members, in the order of criadoEm
  roster       \* company_professionals

team == <<registered, members, roster>>

Member == [companyId : Companies, email : People, linked : BOOLEAN]
LinkStates == {"AUSENTE", "CONVIDADO", "CONFIRMADO"}

TeamTypeOK ==
  /\ registered \subseteq People
  /\ members \in Seq(Member)
  /\ roster \in [Companies \X Listable -> LinkStates]

TeamInit ==
  /\ registered \in SUBSET People
  /\ members = <<>>
  /\ roster = [link \in Companies \X Listable |-> "AUSENTE"]

--------------------------------------------------------------------------------
(* Acting for a company *)

\* A person's rows that are linked to their account, or those that are not.
RowsOf(u, linked) ==
  {k \in DOMAIN members : members[k].email = u /\ members[k].linked = linked}
LatestCompany(Rows) == members[Max(Rows)].companyId

\* An invitation that is linked to the account when it is next looked up.
Unlinked(u) ==
  u \in registered /\ RowsOf(u, TRUE) = {} /\ RowsOf(u, FALSE) # {}

\* companyActingAs: the latest company that linked the user or, failing that,
\* that invited their e-mail; NoUser for neither.
companyActingAs(u) ==
  CASE RowsOf(u, TRUE) # {} -> LatestCompany(RowsOf(u, TRUE))
    [] Unlinked(u) -> LatestCompany(RowsOf(u, FALSE))
    [] OTHER -> NoUser

\* linkMemberByEmail: the table once companyActingAs(u) was resolved.
LinkedMembers(u) ==
  IF Unlinked(u)
    THEN [k \in DOMAIN members |->
            [members[k] EXCEPT !.linked = @ \/ members[k].email = u]]
    ELSE members

\* Mutated: who acts for no company is not their own owner.
effectiveOwnerOrNobody(u) == companyActingAs(u)

effectiveOwner(u) == IF companyActingAs(u) # NoUser THEN companyActingAs(u) ELSE u

--------------------------------------------------------------------------------
(* Operations *)

Register(u) ==
  /\ u \in People \ registered
  /\ registered' = registered \cup {u}
  /\ UNCHANGED <<members, roster>>

\* addMember: a second invitation of an e-mail keeps the row and its age.
AddMember(c, u) ==
  LET row == [companyId |-> c, email |-> u, linked |-> u \in registered]
      Mine == {k \in DOMAIN members : members[k].companyId = c /\ members[k].email = u}
  IN /\ members' = IF Mine = {} THEN Append(members, row)
                   ELSE [k \in DOMAIN members |-> IF k \in Mine THEN row ELSE members[k]]
     /\ UNCHANGED <<registered, roster>>

RemoveMember(k) ==
  /\ k \in DOMAIN members
  /\ members' = RemoveAt(members, k)
  /\ UNCHANGED <<registered, roster>>

\* A link goes from one state to another; any of these may find nothing to do.
MoveLink(c, p, from, to) ==
  /\ roster[c, p] \in from
  /\ roster' = [roster EXCEPT ![<<c, p>>] = to]
  /\ UNCHANGED <<registered, members>>

AddProfessional(c, p) == p \in registered /\ MoveLink(c, p, {"AUSENTE"}, "CONVIDADO")
RemoveProfessional(c, p) == MoveLink(c, p, {"CONVIDADO", "CONFIRMADO"}, "AUSENTE")
ConfirmInvite(c, p) == MoveLink(c, p, {"CONVIDADO"}, "CONFIRMADO")
RejectInvite(c, p) == MoveLink(c, p, {"CONVIDADO"}, "AUSENTE")

TeamNext ==
  \/ \E u \in People : Register(u)
  \/ \E c \in Companies, u \in People : AddMember(c, u)
  \/ \E k \in DOMAIN members : RemoveMember(k)
  \/ \E c \in Companies, p \in Listable :
       \/ AddProfessional(c, p) \/ RemoveProfessional(c, p)
       \/ ConfirmInvite(c, p) \/ RejectInvite(c, p)

================================================================================
