------------------------ MODULE Organizations_proofs ------------------------
(***************************************************************************)
(* Proofs about Organizations, for any users, requests and faults: OrgInv  *)
(* is inductive, so that there is one owner and no invite is forgotten.    *)
(***************************************************************************)
EXTENDS Organizations, TLAPS

LEMMA OrgStarts == OrgInit => OrgInv
<1> SUFFICES ASSUME OrgInit PROVE OrgInv
  OBVIOUS
<1>1. \A u \in User : ~Has(u)
  BY DEF OrgInit, Has, NoRow
<1>2. \A a \in Ask : ask[a].at = "idle"
  BY DEF OrgInit
<1>3. OrgTypeOK
  BY DEF OrgInit, OrgTypeOK
<1>4. OneOwner /\ InvitesAreLinked
  BY <1>1, FounderType DEF OrgInit, OneOwner, InvitesAreLinked
<1>5. OwnerIsThere /\ RowsHaveIds
  BY <1>1, <1>2, FounderType DEF OrgInit, OwnerIsThere, RowsHaveIds, Past
<1>. QED
  BY <1>3, <1>4, <1>5 DEF OrgInv

(***************************************************************************)
(* Registration.                                                           *)
(***************************************************************************)

LEMMA StepTyped ==
  ASSUME OrgTypeOK, NEW u \in User, NEW from,
         NEW to \in {"none", "created", "founded", "homed", "linked", "done", "broken"}, Step(u, from, to)
  PROVE  /\ acct[u] = from
         /\ acct' \in [User -> {"none", "created", "founded", "homed", "linked", "done", "broken"}]
         /\ acct'[u] = to
         /\ \A v \in User \ {u} : acct'[v] = acct[v]
BY DEF OrgTypeOK, Step

(* While nothing but an account changes, the rest follows from what it becomes. *)
LEMMA AccountKeeps ==
  ASSUME OrgInv, NEW u \in User, UNCHANGED <<org, member, ask>>,
         acct' \in [User -> {"none", "created", "founded", "homed", "linked", "done", "broken"}],
         \A v \in User \ {u} : acct'[v] = acct[v],
         acct'[u] # "none",
         \/ acct[u] = "none" /\ acct'[u] = "created"
         \/ acct[u] = "created" /\ acct'[u] = "broken"
         \/ acct[u] = "created" /\ acct'[u] = "founded" /\ (u = Founder => org = "there")
         \/ acct[u] \in {"founded", "homed", "linked"} /\ acct'[u] = "broken"
         \/ acct[u] = "founded" /\ acct'[u] = "homed" /\ u # Founder
         \/ acct[u] = "linked" /\ acct'[u] = "done"
  PROVE  OrgInv'
<1>1. OrgTypeOK'
  BY DEF OrgInv, OrgTypeOK
<1>2. OneOwner' /\ InvitesAreLinked'
  BY FounderType DEF OrgInv, OneOwner, InvitesAreLinked, Has
<1>3. OwnerIsThere' /\ RowsHaveIds'
  BY FounderType DEF OrgInv, OwnerIsThere, RowsHaveIds, Has, Past
<1>. QED
  BY <1>1, <1>2, <1>3 DEF OrgInv

LEMMA CreateUserKeeps ==
  ASSUME OrgInv, NEW u \in User, CreateUser(u)
  PROVE  OrgInv'
BY StepTyped, AccountKeeps DEF CreateUser, OrgInv

LEMMA RegisteredKeeps ==
  ASSUME OrgInv, NEW u \in User, Registered(u)
  PROVE  OrgInv'
BY StepTyped, AccountKeeps DEF Registered, Breaks, OrgInv

LEMMA CreateOrgKeeps ==
  ASSUME OrgInv, NEW u \in User, CreateOrg(u)
  PROVE  OrgInv'
<1>1. PICK to \in {"founded", "broken"} : Step(u, "created", to)
  BY DEF CreateOrg, Breaks
<1>2. /\ acct[u] = "created" /\ acct'[u] = to /\ \A v \in User \ {u} : acct'[v] = acct[v]
      /\ acct' \in [User -> {"none", "created", "founded", "homed", "linked", "done", "broken"}]
  BY <1>1, StepTyped DEF OrgInv
<1>3. UNCHANGED <<member, ask>>
  BY DEF CreateOrg
<1>4. CASE u # Founder
  <2>1. UNCHANGED org
    BY <1>4 DEF CreateOrg
  <2>. QED
    BY <1>2, <1>3, <1>4, <2>1, AccountKeeps
<1>5. CASE u = Founder
  <2>1. org = "none" /\ (\A v \in User : ~Has(v)) /\ (\A a \in Ask : ~Past(a))
    BY <1>2, <1>5 DEF OrgInv, OwnerIsThere
  <2>2. org' \in {"none", "there"} /\ (to = "founded" => org' = "there")
    BY <1>2, <1>5, <2>1, <1>1 DEF CreateOrg, Breaks, Step, OrgInv, OrgTypeOK
  <2>3. OrgTypeOK'
    BY <1>2, <1>3, <2>2 DEF OrgInv, OrgTypeOK
  <2>4. OneOwner' /\ InvitesAreLinked'
    BY <1>2, <1>3, <1>5, <2>1, FounderType DEF OneOwner, InvitesAreLinked, Has
  <2>5. OwnerIsThere' /\ RowsHaveIds'
    BY <1>2, <1>3, <1>5, <2>1, <2>2 DEF OrgInv, OwnerIsThere, RowsHaveIds, Has, Past
  <2>. QED
    BY <2>3, <2>4, <2>5 DEF OrgInv
<1>. QED
  BY <1>4, <1>5

LEMMA OwnerRowTyped ==
  /\ OwnerRow \in Rows /\ OwnerRow.role = "owner" /\ OwnerRow.status = "active" /\ OwnerRow.id = NoAsk
  /\ NoRow.role = "none" /\ OwnerRow # NoRow
BY DEF OwnerRow, Rows, NoRow, Assignable

LEMMA AddOwnerKeeps ==
  ASSUME OrgInv, NEW u \in User, AddOwner(u)
  PROVE  OrgInv'
<1>1. PICK to \in {"homed", "broken"} : Step(u, "founded", to)
  BY DEF AddOwner, Breaks
<1>2. /\ acct[u] = "founded" /\ acct'[u] = to /\ \A v \in User \ {u} : acct'[v] = acct[v]
      /\ acct' \in [User -> {"none", "created", "founded", "homed", "linked", "done", "broken"}]
  BY <1>1, StepTyped DEF OrgInv
<1>3. UNCHANGED <<org, ask>>
  BY DEF AddOwner
<1>4. CASE UNCHANGED member /\ (u # Founder \/ to = "broken")
  BY <1>2, <1>3, <1>4, AccountKeeps
<1>5. CASE u = Founder /\ member' = [member EXCEPT ![Founder] = OwnerRow]
  <2>1. org = "there" /\ (\A v \in User : ~Has(v)) /\ (\A a \in Ask : ~Past(a))
    BY <1>2, <1>5 DEF OrgInv, OwnerIsThere
  <2>2. /\ member'[Founder] = OwnerRow /\ \A v \in User \ {Founder} : member'[v] = member[v]
        /\ member' \in [User -> Rows \cup {NoRow}]
    BY <1>5, OwnerRowTyped, FounderType DEF OrgInv, OrgTypeOK
  <2>3. \A v \in User : Has(v)' => v = Founder
    BY <2>1, <2>2 DEF Has
  <2>4. OrgTypeOK'
    BY <1>2, <1>3, <2>2 DEF OrgInv, OrgTypeOK
  <2>5. OneOwner' /\ InvitesAreLinked'
    BY <1>2, <1>5, <2>2, <2>3, OwnerRowTyped DEF OneOwner, InvitesAreLinked
  <2>6. OwnerIsThere' /\ RowsHaveIds'
    BY <1>2, <1>3, <1>5, <2>1, <2>2, <2>3, OwnerRowTyped DEF OrgInv, OwnerIsThere, RowsHaveIds, Past
  <2>. QED
    BY <2>4, <2>5, <2>6 DEF OrgInv
<1>6. \/ UNCHANGED member /\ (u # Founder \/ to = "broken")
      \/ u = Founder /\ member' = [member EXCEPT ![Founder] = OwnerRow]
  <2>1. CASE Step(u, "founded", "homed") /\ InsertOwner(u)
    BY <2>1 DEF InsertOwner
  <2>2. CASE Breaks(u, "founded") /\ OrMaybeNot(InsertOwner(u))
    <3>1. acct'[u] = "broken"
      BY <2>2, StepTyped DEF Breaks, OrgInv
    <3>. QED
      BY <2>2, <3>1, <1>2 DEF OrMaybeNot, InsertOwner
  <2>. QED
    BY <2>1, <2>2 DEF AddOwner
<1>. QED
  BY <1>4, <1>5, <1>6

LEMMA LinkPendingInvitesKeeps ==
  ASSUME OrgInv, NEW u \in User, LinkPendingInvites(u)
  PROVE  OrgInv'
<1>1. PICK to \in {"linked", "broken"} : Step(u, "homed", to)
  BY DEF LinkPendingInvites, Breaks
<1>2. /\ acct[u] = "homed" /\ acct'[u] = to /\ \A v \in User \ {u} : acct'[v] = acct[v]
      /\ acct' \in [User -> {"none", "created", "founded", "homed", "linked", "done", "broken"}]
  BY <1>1, StepTyped DEF OrgInv
<1>3. UNCHANGED <<org, ask>>
  BY DEF LinkPendingInvites
<1>4. CASE UNCHANGED member /\ (to = "broken" \/ ~Has(u) \/ member[u].status # "pending")
  <2>1. OrgTypeOK'
    BY <1>2, <1>3, <1>4 DEF OrgInv, OrgTypeOK
  <2>2. OneOwner' /\ InvitesAreLinked'
    BY <1>2, <1>3, <1>4, FounderType DEF OrgInv, OneOwner, InvitesAreLinked, Has
  <2>3. OwnerIsThere' /\ RowsHaveIds'
    BY <1>2, <1>3, <1>4, FounderType DEF OrgInv, OwnerIsThere, RowsHaveIds, Has, Past
  <2>. QED
    BY <2>1, <2>2, <2>3 DEF OrgInv
<1>5. CASE Has(u) /\ member[u].status = "pending" /\ member' = [member EXCEPT ![u].status = "active"]
  <2>1. u # Founder
    <3>1. org = "there"
      BY <1>5 DEF OrgInv, RowsHaveIds
    <3>2. member[Founder] = OwnerRow
      BY <1>5, <3>1 DEF OrgInv, OwnerIsThere
    <3>. QED
      BY <1>5, <3>2, OwnerRowTyped
  <2>2. member[u] \in Rows
    BY <1>5 DEF OrgInv, OrgTypeOK, Has, NoRow
  <2>3. /\ member'[u] \in Rows /\ member'[u].role = member[u].role
        /\ member'[u].id = member[u].id /\ member'[u].status = "active"
    BY <1>5, <2>2 DEF OrgInv, OrgTypeOK, Rows
  <2>4. (\A v \in User \ {u} : member'[v] = member[v]) /\ member' \in [User -> Rows \cup {NoRow}]
    BY <1>5, <2>3 DEF OrgInv, OrgTypeOK
  <2>5. OrgTypeOK'
    BY <1>2, <1>3, <2>4 DEF OrgInv, OrgTypeOK
  <2>6. OneOwner' /\ InvitesAreLinked'
    BY <1>2, <1>3, <1>5, <2>1, <2>3, <2>4, FounderType DEF OrgInv, OneOwner, InvitesAreLinked, Has
  <2>7. OwnerIsThere'
    BY <1>2, <1>3, <1>5, <2>1, <2>3, <2>4, FounderType DEF OrgInv, OwnerIsThere, Has, Past
  <2>8. RowsHaveIds'
    BY <1>3, <1>5, <2>1, <2>3, <2>4, FounderType DEF OrgInv, RowsHaveIds, Has
  <2>. QED
    BY <2>5, <2>6, <2>7, <2>8 DEF OrgInv
<1>6. \/ UNCHANGED member /\ (to = "broken" \/ ~Has(u) \/ member[u].status # "pending")
      \/ Has(u) /\ member[u].status = "pending" /\ member' = [member EXCEPT ![u].status = "active"]
  <2>1. CASE Step(u, "homed", "linked") /\ Linked(u)
    BY <2>1 DEF Linked
  <2>2. CASE Breaks(u, "homed") /\ OrMaybeNot(Linked(u))
    <3>1. acct'[u] = "broken"
      BY <2>2, StepTyped DEF Breaks, OrgInv
    <3>. QED
      BY <2>2, <3>1, <1>2 DEF OrMaybeNot, Linked
  <2>. QED
    BY <2>1, <2>2 DEF LinkPendingInvites
<1>. QED
  BY <1>4, <1>5, <1>6

(***************************************************************************)
(* Requests.                                                               *)
(***************************************************************************)

LEMMA AsksAreNot ==
  ASSUME NEW w \in Asks
  PROVE  w # NoWhat /\ w.by \in User /\ w.to \in User /\ w.role \in Assignable
         /\ w.kind \in {"invite", "role", "removeMember", "remove"}
BY FounderType DEF Asks, NoWhat, Assignable

(* A request that goes on, or ends, and leaves the rows alone.             *)
LEMMA AskMoves ==
  ASSUME OrgInv, NEW a \in Ask, UNCHANGED <<acct, org, member>>,
         NEW to \in {"guarded", "checked", "over"}, AskGoes(a, to), ask[a].at # "idle", ask[a].at # "over",
         to # "over" /\ ~Past(a) =>
            acct[Founder] \notin {"none", "created", "founded"} /\ \E u \in User : Has(u),
         to = "checked" /\ ask[a].what.kind \in {"role", "removeMember"} => ask[a].what.id # NoAsk
  PROVE  OrgInv'
<1>1. ask[a] \in [what : Asks \cup {NoWhat}, at : {"idle", "asked", "guarded", "checked", "over"}]
  BY DEF OrgInv, OrgTypeOK
<1>2. /\ ask'[a].at = to /\ ask'[a].what = (IF to = "over" THEN NoWhat ELSE ask[a].what)
      /\ \A b \in Ask \ {a} : ask'[b] = ask[b]
      /\ ask' \in [Ask -> [what : Asks \cup {NoWhat}, at : {"idle", "asked", "guarded", "checked", "over"}]]
  BY <1>1 DEF OrgInv, OrgTypeOK, AskGoes
<1>3. OrgTypeOK'
  BY <1>2 DEF OrgInv, OrgTypeOK
<1>4. OneOwner' /\ InvitesAreLinked'
  BY DEF OrgInv, OneOwner, InvitesAreLinked, Has
<1>5. OwnerIsThere'
  <2>1. \A b \in Ask : Past(b)' => Past(b) \/ (b = a /\ to # "over")
    BY <1>2 DEF Past
  <2>2. \A u \in User : Has(u)' = Has(u)
    BY DEF Has
  <2>. QED
    BY <2>1, <2>2 DEF OrgInv, OwnerIsThere
<1>6. RowsHaveIds'
  <2>1. \A u \in User : Has(u)' = Has(u)
    BY DEF Has
  <2>2. \A u \in User : Has(u) /\ member[u].id # NoAsk => member[u].id \in Ask
    BY DEF OrgInv, OrgTypeOK, Has, Rows, NoRow
  <2>3. \A u \in User : Has(u) => (member[u].id # NoAsk => ask'[member[u].id].at = "over")
    BY <1>2, <2>2 DEF OrgInv, RowsHaveIds
  <2>4. ask[a].what # NoWhat
    BY <1>1 DEF OrgInv, RowsHaveIds
  <2>5. /\ \A b \in Ask : ask'[b].at \in {"asked", "guarded", "checked"} => ask'[b].what # NoWhat
        /\ \A b \in Ask : ask'[b].at = "checked" /\ ask'[b].what.kind \in {"role", "removeMember"} =>
             ask'[b].what.id # NoAsk
    BY <1>2, <2>4 DEF OrgInv, RowsHaveIds
  <2>. QED
    BY <2>1, <2>3, <2>5 DEF OrgInv, RowsHaveIds
<1>. QED
  BY <1>3, <1>4, <1>5, <1>6 DEF OrgInv

LEMMA RequestKeeps ==
  ASSUME OrgInv, NEW a \in Ask, NEW what \in Asks, Request(a, what)
  PROVE  OrgInv'
<1>1. /\ ask'[a] = [what |-> what, at |-> "asked"] /\ \A b \in Ask \ {a} : ask'[b] = ask[b]
      /\ ask' \in [Ask -> [what : Asks \cup {NoWhat}, at : {"idle", "asked", "guarded", "checked", "over"}]]
  BY DEF OrgInv, OrgTypeOK, Request
<1>2. UNCHANGED <<acct, org, member>> /\ ask[a].at = "idle"
  BY DEF Request
<1>3. OrgTypeOK'
  BY <1>1, <1>2 DEF OrgInv, OrgTypeOK
<1>4. OneOwner' /\ InvitesAreLinked'
  BY <1>2 DEF OrgInv, OneOwner, InvitesAreLinked, Has
<1>5. OwnerIsThere'
  BY <1>1, <1>2 DEF OrgInv, OwnerIsThere, Has, Past
<1>6. RowsHaveIds'
  <2>1. \A u \in User : Has(u) => (member[u].id # NoAsk => member[u].id \in Ask /\ member[u].id # a)
    BY <1>2 DEF OrgInv, OrgTypeOK, RowsHaveIds, Has, Rows, NoRow
  <2>2. \A u \in User : Has(u) => (member[u].id # NoAsk => ask'[member[u].id].at = "over")
    BY <1>1, <2>1 DEF OrgInv, RowsHaveIds
  <2>3. /\ \A b \in Ask : ask'[b].at \in {"asked", "guarded", "checked"} => ask'[b].what # NoWhat
        /\ \A b \in Ask : ask'[b].at = "checked" /\ ask'[b].what.kind \in {"role", "removeMember"} =>
             ask'[b].what.id # NoAsk
    BY <1>1, AsksAreNot DEF OrgInv, RowsHaveIds
  <2>. QED
    BY <1>2, <2>2, <2>3 DEF OrgInv, RowsHaveIds, Has
<1>. QED
  BY <1>3, <1>4, <1>5, <1>6 DEF OrgInv

LEMMA GuardKeeps ==
  ASSUME OrgInv, NEW a \in Ask, Guard(a)
  PROVE  OrgInv'
<1>1. ask[a].at = "asked" /\ UNCHANGED <<acct, org, member>>
  BY DEF Guard
<1>2. ask[a].what.by \in User
  BY <1>1, AsksAreNot DEF OrgInv, OrgTypeOK, RowsHaveIds
<1>3. AskGoes(a, "over") \/ (AskGoes(a, "guarded") /\ Has(ask[a].what.by))
  BY DEF Guard
<1>4. Has(ask[a].what.by) => acct[Founder] \notin {"none", "created", "founded"}
  BY <1>2 DEF OrgInv, OwnerIsThere
<1>. QED
  BY <1>1, <1>2, <1>3, <1>4, AskMoves

LEMMA CheckKeeps ==
  ASSUME OrgInv, NEW a \in Ask, Check(a)
  PROVE  OrgInv'
<1>1. ask[a].at = "guarded" /\ UNCHANGED <<acct, org, member>> /\ Past(a)
  BY DEF Check, Past
<1>2. \/ AskGoes(a, "over")
      \/ /\ AskGoes(a, "checked")
         /\ ask[a].what.kind \in {"role", "removeMember"} =>
              \E u \in WithId(ask[a].what.id) : member[u].role # "owner"
  BY DEF Check
<1>3. (\E u \in WithId(ask[a].what.id) : member[u].role # "owner") => ask[a].what.id # NoAsk
  BY DEF OrgInv, RowsHaveIds, WithId
<1>. QED
  BY <1>1, <1>2, <1>3, AskMoves

(* What every statement has in hand when it is executed: the request is about
   something, and the owner's row is there if the organization is.          *)
LEMMA CheckedFacts ==
  ASSUME OrgInv, NEW a \in Ask, ask[a].at = "checked", AskGoes(a, "over")
  PROVE  /\ ask[a].what \in Asks
         /\ org = "there" => member[Founder] = OwnerRow
         /\ acct[Founder] \notin {"none", "created", "founded"}
         /\ \A u \in User : Has(u) => member[u].id # a
         /\ \A u \in User : Has(u) => org = "there"
         /\ ask' \in [Ask -> [what : Asks \cup {NoWhat}, at : {"idle", "asked", "guarded", "checked", "over"}]]
         /\ ask'[a].at = "over" /\ \A b \in Ask \ {a} : ask'[b] = ask[b]
<1>1. Past(a)
  BY DEF Past
<1>2. ask[a].what \in Asks
  BY DEF OrgInv, OrgTypeOK, RowsHaveIds
<1>3. (org = "there" => member[Founder] = OwnerRow) /\ acct[Founder] \notin {"none", "created", "founded"}
  BY <1>1 DEF OrgInv, OwnerIsThere
<1>4. \A u \in User : Has(u) => member[u].id # a /\ org = "there"
  BY NoAskFresh DEF OrgInv, RowsHaveIds
<1>5. /\ ask' \in [Ask -> [what : Asks \cup {NoWhat}, at : {"idle", "asked", "guarded", "checked", "over"}]]
      /\ ask'[a].at = "over" /\ \A b \in Ask \ {a} : ask'[b] = ask[b]
  BY DEF OrgInv, OrgTypeOK, AskGoes
<1>. QED
  BY <1>2, <1>3, <1>4, <1>5

(* What the requests themselves contribute to RowsHaveIds.                 *)
LEMMA OverKeepsAsks ==
  ASSUME OrgInv, NEW a \in Ask, ask[a].at = "checked", AskGoes(a, "over")
  PROVE  /\ \A b \in Ask : ask'[b].at \in {"asked", "guarded", "checked"} => ask'[b].what # NoWhat
         /\ \A b \in Ask : ask'[b].at = "checked" /\ ask'[b].what.kind \in {"role", "removeMember"} =>
              ask'[b].what.id # NoAsk
         /\ \A u \in User : Has(u) => (member[u].id # NoAsk => ask'[member[u].id].at = "over")
         /\ \A b \in Ask : Past(b)' => Past(b)
<1>1. \A u \in User : Has(u) => (member[u].id # NoAsk => member[u].id \in Ask)
  BY DEF OrgInv, OrgTypeOK, Has, Rows, NoRow
<1>. QED
  BY <1>1, CheckedFacts DEF OrgInv, RowsHaveIds, Past

(* The rows afterwards: each is an old one, perhaps with another assignable
   role, or the new one of the request.  The owner's row stays.             *)
LEMMA RowsChange ==
  ASSUME OrgInv, NEW a \in Ask, ask[a].at = "checked", AskGoes(a, "over"), UNCHANGED acct,
         org' \in {org, "gone"},
         member' \in [User -> Rows \cup {NoRow}],
         org' = "gone" => \A u \in User : ~Has(u)',
         member'[Founder] = member[Founder] \/ ~Has(Founder)',
         org' = "there" => member'[Founder] = member[Founder],
         \A u \in User \ {Founder} : Has(u)' =>
            \/ /\ Has(u) /\ member'[u].role # "owner" /\ member'[u].status = member[u].status
               /\ member'[u].id = member[u].id /\ member'[u].tardy = member[u].tardy
            \/ /\ ~Has(u) /\ org = "there" /\ member'[u].role # "owner" /\ member'[u].status = "pending"
               /\ member'[u].id = a /\ member'[u].tardy = (acct[u] \in {"linked", "done"})
               /\ u = ask[a].what.to
  PROVE  OrgInv'
<1> DEFINE Same(u) == Has(u) /\ member'[u].status = member[u].status
                      /\ member'[u].id = member[u].id /\ member'[u].tardy = member[u].tardy
           Fresh(u) == ~Has(u) /\ org = "there" /\ member'[u].status = "pending" /\ member'[u].id = a
                       /\ member'[u].tardy = (acct[u] \in {"linked", "done"}) /\ u = ask[a].what.to
<1>1. \A u \in User : Has(u)' => Same(u) \/ Fresh(u)
  BY DEF Has
<1>2. \A u \in User \ {Founder} : Has(u)' => member'[u].role # "owner"
  OBVIOUS
<1>3. Has(Founder)' => member'[Founder] = OwnerRow
  BY CheckedFacts, FounderType DEF Has
<1>4. OrgTypeOK'
  BY CheckedFacts DEF OrgInv, OrgTypeOK
<1>5. OneOwner'
  BY <1>2, CheckedFacts DEF OneOwner
<1>6. InvitesAreLinked'
  BY <1>1 DEF OrgInv, InvitesAreLinked
<1>7. OwnerIsThere'
  BY CheckedFacts DEF OwnerIsThere
<1>8. RowsHaveIds'
  <2>1. \A u \in User : Has(u)' => org' = "there"
    BY CheckedFacts, <1>1 DEF OrgInv, OrgTypeOK
  <2>2. \A u \in User : Has(u)' => (member'[u].id = NoAsk <=> u = Founder /\ member'[u].role = "owner")
    BY <1>1, <1>2, <1>3, OwnerRowTyped, NoAskFresh DEF OrgInv, RowsHaveIds
  <2>3. \A u \in User : Has(u)' => (member'[u].id # NoAsk => ask'[member'[u].id].at = "over")
    BY <1>1, CheckedFacts, OverKeepsAsks
  <2>4. \A u, v \in User : Has(u)' /\ Has(v)' /\ member'[u].id = member'[v].id => u = v
    BY <1>1, CheckedFacts DEF OrgInv, RowsHaveIds
  <2>. QED
    BY <2>1, <2>2, <2>3, <2>4, OverKeepsAsks DEF RowsHaveIds
<1>. QED
  BY <1>4, <1>5, <1>6, <1>7, <1>8 DEF OrgInv

LEMMA ExecuteKeeps ==
  ASSUME OrgInv, NEW a \in Ask, Execute(a)
  PROVE  OrgInv'
<1>1. ask[a].at = "checked" /\ AskGoes(a, "over") /\ UNCHANGED acct
  BY DEF Execute
<1> DEFINE w == ask[a].what
<1>2. /\ w \in Asks /\ w.kind \in {"invite", "role", "removeMember", "remove"}
      /\ w.role \in Assignable /\ w.to \in User
  BY <1>1, CheckedFacts, AsksAreNot
<1>3. /\ \A u \in User : member[u] \in Rows \cup {NoRow}
      /\ \A u \in User : Has(u) => member[u] \in Rows
      /\ \A u \in User : ~Has(u) => member[u] = NoRow
      /\ \A u \in User \ {Founder} : Has(u) => member[u].role # "owner"
      /\ \A u \in User : Has(u) => org = "there"
  BY DEF OrgInv, OrgTypeOK, OneOwner, RowsHaveIds, Has, Rows, NoRow, Assignable
<1>4. CASE UNCHANGED <<org, member>>
  <2>1. \A u \in User : Has(u)' = Has(u)
    BY <1>4 DEF Has
  <2>2. org = "gone" => \A u \in User : ~Has(u)
    BY DEF OrgInv, RowsHaveIds
  <2>3. member' \in [User -> Rows \cup {NoRow}]
    BY <1>4 DEF OrgInv, OrgTypeOK
  <2>. QED
    BY <1>1, <1>3, <1>4, <2>1, <2>2, <2>3, RowsChange
<1>5. CASE Effect(a) /\ w.kind = "invite"
  <2> DEFINE Row == [role |-> w.role, status |-> "pending", id |-> a, tardy |-> acct[w.to] \in {"linked", "done"}]
  <2>1. /\ org' = org
        /\ member' = [u \in User |-> IF u = w.to /\ ~Has(u) /\ org = "there" THEN Row ELSE member[u]]
    BY <1>5 DEF Effect
  <2>2. Row \in Rows /\ Row.role # "owner" /\ Row.role # "none"
    BY <1>2 DEF Rows, Assignable
  <2>3. member' \in [User -> Rows \cup {NoRow}]
    BY <1>3, <2>1, <2>2
  <2>4. org = "there" => Has(Founder)
    BY <1>1, CheckedFacts, OwnerRowTyped DEF Has
  <2>5. member'[Founder] = member[Founder]
    BY <2>1, <2>4, FounderType
  <2>6. \A u \in User : \/ member'[u] = member[u]
                        \/ u = w.to /\ ~Has(u) /\ org = "there" /\ member'[u] = Row
    BY <2>1
  <2>7. org' = "gone" => \A u \in User : ~Has(u)'
    BY <1>3, <2>1 DEF Has
  <2>8. \A u \in User \ {Founder} : Has(u)' =>
            \/ /\ Has(u) /\ member'[u].role # "owner" /\ member'[u].status = member[u].status
               /\ member'[u].id = member[u].id /\ member'[u].tardy = member[u].tardy
            \/ /\ ~Has(u) /\ org = "there" /\ member'[u].role # "owner" /\ member'[u].status = "pending"
               /\ member'[u].id = a /\ member'[u].tardy = (acct[u] \in {"linked", "done"})
               /\ u = ask[a].what.to
    BY <1>3, <2>2, <2>6 DEF Has
  <2>. QED
    BY <1>1, <2>1, <2>3, <2>5, <2>7, <2>8, RowsChange
<1>6. CASE Effect(a) /\ w.kind \in {"role", "removeMember"}
  <2>1. w.id # NoAsk
    BY <1>1, <1>6 DEF OrgInv, RowsHaveIds
  <2>2. Founder \notin WithId(w.id)
    BY <1>1, <1>3, <2>1, CheckedFacts, OwnerRowTyped DEF WithId
  <2>3. \A u \in WithId(w.id) : u \in User /\ Has(u)
    BY DEF WithId
  <2>4. CASE w.kind = "role"
    <3>1. org' = org /\ member' = [u \in User |-> IF u \in WithId(w.id) THEN [member[u] EXCEPT !.role = w.role] ELSE member[u]]
      BY <1>6, <2>4 DEF Effect
    <3>2. \A u \in WithId(w.id) :
             /\ member'[u] = [member[u] EXCEPT !.role = w.role] /\ member'[u] \in Rows
             /\ member'[u].role = w.role /\ member'[u].status = member[u].status
             /\ member'[u].id = member[u].id /\ member'[u].tardy = member[u].tardy
      BY <1>2, <1>3, <2>3, <3>1 DEF Rows, Assignable
    <3>3. \A u \in User \ WithId(w.id) : member'[u] = member[u]
      BY <3>1
    <3>4. \A u \in User : member'[u] \in Rows \cup {NoRow}
      BY <1>3, <3>2, <3>3
    <3>5. member' \in [User -> Rows \cup {NoRow}]
      BY <3>1, <3>4
    <3>6. \A u \in User : Has(u)' = Has(u)
      BY <1>2, <2>3, <3>2, <3>3 DEF Has, Assignable
    <3>7. \A u \in User \ {Founder} : Has(u)' =>
               /\ Has(u) /\ member'[u].role # "owner" /\ member'[u].status = member[u].status
               /\ member'[u].id = member[u].id /\ member'[u].tardy = member[u].tardy
      BY <1>2, <1>3, <3>2, <3>3, <3>6 DEF Assignable
    <3>8. org' = "gone" => \A u \in User : ~Has(u)'
      BY <1>3, <3>1, <3>6
    <3>9. member'[Founder] = member[Founder]
      BY <2>2, <3>3, FounderType
    <3>. QED
      BY <1>1, <3>1, <3>5, <3>7, <3>8, <3>9, RowsChange
  <2>5. CASE w.kind = "removeMember"
    <3>1. org' = org /\ member' = [u \in User |-> IF u \in WithId(w.id) THEN NoRow ELSE member[u]]
      BY <1>6, <2>5 DEF Effect
    <3>2. member' \in [User -> Rows \cup {NoRow}]
      BY <1>3, <3>1
    <3>3. \A u \in User : Has(u)' => member'[u] = member[u] /\ Has(u)
      BY <3>1, OwnerRowTyped DEF Has
    <3>4. org' = "gone" => \A u \in User : ~Has(u)'
      BY <1>3, <3>1, <3>3
    <3>5. member'[Founder] = member[Founder]
      BY <2>2, <3>1, FounderType
    <3>. QED
      BY <1>1, <1>3, <3>1, <3>2, <3>3, <3>4, <3>5, RowsChange
  <2>. QED
    BY <1>6, <2>4, <2>5
<1>7. CASE Effect(a) /\ w.kind = "remove"
  <2>1. org' = "gone" /\ member' = [u \in User |-> NoRow]
    BY <1>7 DEF Effect
  <2>2. \A u \in User : ~Has(u)'
    BY <2>1, OwnerRowTyped DEF Has
  <2>3. member' \in [User -> Rows \cup {NoRow}]
    BY <2>1
  <2>. QED
    BY <1>1, <2>1, <2>2, <2>3, FounderType, RowsChange
<1>. QED
  BY <1>2, <1>4, <1>5, <1>6, <1>7 DEF Execute

(***************************************************************************)
(* The invariant and what it implies.                                      *)
(***************************************************************************)

LEMMA OrgStepKeeps == OrgInv /\ [OrgNext]_orgVars => OrgInv'
<1> SUFFICES ASSUME OrgInv, [OrgNext]_orgVars PROVE OrgInv'
  OBVIOUS
<1>1. CASE UNCHANGED orgVars
  <2>1. UNCHANGED <<acct, org, member, ask>>
    BY <1>1 DEF orgVars
  <2>2. OrgTypeOK' /\ OneOwner' /\ InvitesAreLinked'
    BY <2>1 DEF OrgInv, OrgTypeOK, OneOwner, InvitesAreLinked, Has
  <2>3. OwnerIsThere' /\ RowsHaveIds'
    BY <2>1 DEF OrgInv, OwnerIsThere, RowsHaveIds, Has, Past
  <2>. QED
    BY <2>2, <2>3 DEF OrgInv
<1>2. ASSUME NEW u \in User,
             CreateUser(u) \/ CreateOrg(u) \/ AddOwner(u) \/ LinkPendingInvites(u) \/ Registered(u)
      PROVE  OrgInv'
  BY <1>2, CreateUserKeeps, CreateOrgKeeps, AddOwnerKeeps, LinkPendingInvitesKeeps, RegisteredKeeps
<1>3. ASSUME NEW a \in Ask, (\E what \in Asks : Request(a, what)) \/ Guard(a) \/ Check(a) \/ Execute(a)
      PROVE  OrgInv'
  BY <1>3, RequestKeeps, GuardKeeps, CheckKeeps, ExecuteKeeps
<1>. QED
  BY <1>1, <1>2, <1>3 DEF OrgNext

(* OrgInv holds in every state, for any users, requests and faults: whatever
   RolesGuard, the services and the registrations have read before they write. *)
THEOREM OrgInvariant == OrgSpec => []OrgInv
<1>. QED
  BY OrgStarts, OrgStepKeeps, PTL DEF OrgSpec

(* "Owner is never assigned by hand, so that there is only one real owner":
   the founder is the owner, and alone, whatever requests overlap.         *)
THEOREM AlwaysOneOwner == OrgSpec => []OneOwner
<1>1. OrgInv => OneOwner
  BY DEF OrgInv
<1>. QED
  BY <1>1, OrgInvariant, PTL

(* An invite that was there before a registration looked for invites is active
   when the registration succeeds; rows are active only for accounts.      *)
THEOREM InvitesAreAlwaysLinked == OrgSpec => []InvitesAreLinked
<1>1. OrgInv => InvitesAreLinked
  BY DEF OrgInv
<1>. QED
  BY <1>1, OrgInvariant, PTL
=============================================================================
