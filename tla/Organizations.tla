--------------------------- MODULE Organizations ---------------------------
(***************************************************************************)
(* One organization: the workspace that a founder's registration creates,  *)
(* its member rows, and the requests that change them.  A request goes     *)
(* through RolesGuard, a check and a write, each a query of its own, so    *)
(* that all it has read may be stale when it writes.  AuthService.register *)
(* links the invites an address has received to its new account.           *)
(***************************************************************************)
CONSTANTS
  User,         (* e-mail addresses                                         *)
  Founder,      (* the one whose workspace the organization is              *)
  Ask,          (* requests; also the ids of the rows that invites insert   *)
  NoAsk,        (* the id of the founder's row                              *)
  OrgFaults     (* which faults are admitted                                *)

ASSUME FounderType   == Founder \in User
ASSUME NoAskFresh    == NoAsk \notin Ask
ASSUME OrgFaultsType == OrgFaults \subseteq {"db"}

VARIABLES
  acct,     (* acct[u]: how far the registration of u has got               *)
  org,      (* the organizations row                                        *)
  member,   (* member[u]: the row with address u, if any                    *)
  ask       (* ask[a]: what request a is about, and how far it is           *)

orgVars == <<acct, org, member, ask>>

Assignable == {"admin", "viewer"}     (* developer, operator: as viewer *)
Rows  == [role : Assignable \cup {"owner"}, status : {"active", "pending"},
          id : Ask \cup {NoAsk}, tardy : BOOLEAN]
NoRow == [role |-> "none", status |-> "none", id |-> NoAsk, tardy |-> FALSE]
Asks  ==      (* a request carries a member id, or an address to invite *)
  [kind : {"invite"}, by : User, to : User, role : Assignable, id : {NoAsk}]
  \cup [kind : {"role"}, by : User, to : {Founder}, role : Assignable, id : Ask \cup {NoAsk}]
  \cup [kind : {"removeMember"}, by : User, to : {Founder}, role : {"viewer"}, id : Ask \cup {NoAsk}]
  \cup [kind : {"remove"}, by : User, to : {Founder}, role : {"viewer"}, id : {NoAsk}]
NoWhat == [kind |-> "none", by |-> Founder, to |-> Founder, role |-> "viewer", id |-> NoAsk]

OrgTypeOK ==
  /\ acct   \in [User -> {"none", "created", "founded", "homed", "linked", "done", "broken"}]
  /\ org    \in {"none", "there", "gone"}
  /\ member \in [User -> Rows \cup {NoRow}]
  /\ ask    \in [Ask -> [what : Asks \cup {NoWhat}, at : {"idle", "asked", "guarded", "checked", "over"}]]

OrgInit ==
  /\ acct = [u \in User |-> "none"] /\ org = "none"
  /\ member = [u \in User |-> NoRow]
  /\ ask = [a \in Ask |-> [what |-> NoWhat, at |-> "idle"]]

Has(u) == member[u].role # "none"
Fault == "db" \in OrgFaults
OrMaybeNot(effect) == effect \/ (UNCHANGED member)    (* a query that failed *)

-----------------------------------------------------------------------------
(* AuthService.register.  One that fails leaves an account that can log in,
   and cannot register again.                                              *)

Step(u, from, to) == acct[u] = from /\ acct' = [acct EXCEPT ![u] = to]
Breaks(u, from)   == Fault /\ Step(u, from, "broken")

CreateUser(u) == Step(u, "none", "created") /\ UNCHANGED <<org, member, ask>>

(* OrganizationsService.create: the organization, then the owner's row.    *)
CreateOrg(u) ==
  /\ \/ Step(u, "created", "founded") /\ org' = IF u = Founder THEN "there" ELSE org
     \/ Breaks(u, "created") /\ org' \in {org, IF u = Founder THEN "there" ELSE org}
  /\ UNCHANGED <<member, ask>>

OwnerRow == [role |-> "owner", status |-> "active", id |-> NoAsk, tardy |-> FALSE]
InsertOwner(u) == member' = IF u = Founder THEN [member EXCEPT ![u] = OwnerRow] ELSE member

AddOwner(u) ==
  /\ \/ Step(u, "founded", "homed") /\ InsertOwner(u)
     \/ Breaks(u, "founded") /\ OrMaybeNot(InsertOwner(u))
  /\ UNCHANGED <<org, ask>>

Linked(u) ==
  member' = IF Has(u) /\ member[u].status = "pending"
            THEN [member EXCEPT ![u].status = "active"] ELSE member

(* The address is taken from the account, which is the founder's alone.    *)
LinkNobody(u) ==
  /\ \/ Step(u, "homed", "linked") /\ UNCHANGED member
     \/ Breaks(u, "homed") /\ UNCHANGED member
  /\ UNCHANGED <<org, ask>>

LinkPendingInvites(u) ==
  /\ \/ Step(u, "homed", "linked") /\ Linked(u)
     \/ Breaks(u, "homed") /\ OrMaybeNot(Linked(u))
  /\ UNCHANGED <<org, ask>>

Registered(u) ==
  /\ Step(u, "linked", "done") \/ Breaks(u, "linked")
  /\ UNCHANGED <<org, member, ask>>

-----------------------------------------------------------------------------
(* The requests, as the page Organizations sends them: perhaps about a row *)
(* that is not there any more.                                             *)

Request(a, what) ==
  /\ ask[a].at = "idle"
  /\ acct[what.by] # "none"
  /\ org # "none"
  /\ ask' = [ask EXCEPT ![a] = [what |-> what, at |-> "asked"]]
  /\ UNCHANGED <<acct, org, member>>

AskGoes(a, to) ==
  ask' = [ask EXCEPT ![a] = [what |-> IF to = "over" THEN NoWhat ELSE @.what, at |-> to]]

(* RolesGuard.canActivate: remove is for the owner, the others for admins. *)
Guard(a) ==
  /\ ask[a].at = "asked"
  /\ LET w == ask[a].what
         may == /\ Has(w.by) /\ member[w.by].status = "active"
                /\ member[w.by].role \in IF w.kind = "remove" THEN {"owner"} ELSE {"owner", "admin"}
     IN \/ AskGoes(a, IF may THEN "guarded" ELSE "over")
        \/ Fault /\ AskGoes(a, "over")
  /\ UNCHANGED <<acct, org, member>>

WithId(i) == {u \in User : Has(u) /\ member[u].id = i}

(* The owner's row is handled like any other.                              *)
CheckExistsOnly(a) ==
  /\ ask[a].at = "guarded"
  /\ LET w == ask[a].what
         may == \/ w.kind = "invite" /\ ~Has(w.to)
                \/ w.kind = "remove" /\ org = "there" /\ w.by = Founder
                \/ w.kind \in {"role", "removeMember"} /\ WithId(w.id) # {}
     IN \/ AskGoes(a, IF may THEN "checked" ELSE "over")
        \/ Fault /\ AskGoes(a, "over")
  /\ UNCHANGED <<acct, org, member>>

(* What each method of OrganizationsService reads before it writes.        *)
Check(a) ==
  /\ ask[a].at = "guarded"
  /\ LET w == ask[a].what
         may == \/ w.kind = "invite" /\ ~Has(w.to)
                \/ w.kind = "remove" /\ org = "there" /\ w.by = Founder
                \/ /\ w.kind \in {"role", "removeMember"}
                   /\ \E u \in WithId(w.id) : member[u].role # "owner"
     IN \/ AskGoes(a, IF may THEN "checked" ELSE "over")
        \/ Fault /\ AskGoes(a, "over")
  /\ UNCHANGED <<acct, org, member>>

(* The one statement it then executes: the INSERT fails if the address has a
   row by now or the organization is gone; UPDATE and DELETE by id do nothing
   if the row is gone; the rows go with the organization.                  *)
Effect(a) ==
  LET w == ask[a].what
      Row == [role |-> w.role, status |-> "pending", id |-> a, tardy |-> acct[w.to] \in {"linked", "done"}]
      With(u) == CASE w.kind = "invite" -> IF u = w.to /\ ~Has(u) /\ org = "there" THEN Row ELSE member[u]
                   [] w.kind = "role" -> IF u \in WithId(w.id) THEN [member[u] EXCEPT !.role = w.role] ELSE member[u]
                   [] w.kind = "removeMember" -> IF u \in WithId(w.id) THEN NoRow ELSE member[u]
                   [] OTHER -> NoRow
  IN /\ org' = IF w.kind = "remove" THEN "gone" ELSE org
     /\ member' = [u \in User |-> With(u)]

Execute(a) ==
  /\ ask[a].at = "checked"
  /\ Effect(a) \/ (Fault /\ UNCHANGED <<org, member>>)
  /\ AskGoes(a, "over")
  /\ UNCHANGED acct

OrgNext ==
  \/ \E u \in User : \/ CreateUser(u) \/ CreateOrg(u) \/ AddOwner(u)
                     \/ LinkPendingInvites(u) \/ Registered(u)
  \/ \E a \in Ask : (\E what \in Asks : Request(a, what)) \/ Guard(a) \/ Check(a) \/ Execute(a)

OrgSpec == OrgInit /\ [][OrgNext]_orgVars

-----------------------------------------------------------------------------
(* Safety.                                                                 *)

(* "Owner is never assigned by hand, so that there is only one real owner":
   from the founder's row on, whatever requests overlap, the founder is the
   owner, active, and nobody else is, until the organization is deleted.   *)
OneOwner ==
  /\ \A u \in User \ {Founder} : Has(u) => member[u].role # "owner"
  /\ org = "there" /\ acct[Founder] \in {"homed", "linked", "done"} => member[Founder] = OwnerRow

(* A registration that succeeds has linked every invite that was there before
   it looked, and a row is active only for an address with an account.     *)
InvitesAreLinked ==
  \A u \in User : Has(u) =>
    /\ member[u].status = "pending" /\ acct[u] \in {"linked", "done"} => member[u].tardy
    /\ member[u].status = "active" => acct[u] # "none"

(* Why they hold.  Nobody passes the guard before the owner's row is there. *)
Past(a) == ask[a].at \in {"guarded", "checked"}

OwnerIsThere ==
  /\ acct[Founder] \in {"none", "created"} => org = "none"
  /\ acct[Founder] = "founded" => org = "there"
  /\ acct[Founder] \in {"none", "created", "founded"} =>
       (\A u \in User : ~Has(u)) /\ (\A a \in Ask : ~Past(a))
  /\ org = "there" /\ ((\E u \in User : Has(u)) \/ \E a \in Ask : Past(a)) => member[Founder] = OwnerRow

(* The owner's row is the one no invite has inserted, and no request that has
   passed its check is about it.                                           *)
RowsHaveIds ==
  /\ \A u \in User : Has(u) =>
       /\ org = "there"
       /\ member[u].id = NoAsk <=> u = Founder /\ member[u].role = "owner"
       /\ member[u].id # NoAsk => ask[member[u].id].at = "over"
  /\ \A u, v \in User : Has(u) /\ Has(v) /\ member[u].id = member[v].id => u = v
  /\ \A a \in Ask : ask[a].at \in {"asked", "guarded", "checked"} => ask[a].what # NoWhat
  /\ \A a \in Ask : ask[a].at = "checked" /\ ask[a].what.kind \in {"role", "removeMember"} =>
       ask[a].what.id # NoAsk

OrgInv ==
  /\ OrgTypeOK
  /\ OneOwner
  /\ InvitesAreLinked
  /\ OwnerIsThere
  /\ RowsHaveIds
=============================================================================
