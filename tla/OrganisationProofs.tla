------------------------- MODULE OrganisationProofs -------------------------
(***************************************************************************)
(* Proofs about Organisation, for any people, departments, handlers and    *)
(* scenes.                                                                 *)
(*                                                                         *)
(* Every step rewrites the grants (Rewritten): it ends some, gives others  *)
(* to one person, and leaves what a grant is about.  Whom and what a       *)
(* handler has locked, the others leave alone (Spared), so the facts it    *)
(* checked stand until it commits (Fresh).                                 *)
(*                                                                         *)
(* A department's line is what a walk up from it meets, the least set with *)
(* it that holds the parent of each of its members.  What the model's walk *)
(* of bounded length returns is that set, because a walk that is as long   *)
(* as there are departments has met one of them twice.                     *)
(***************************************************************************)
EXTENDS Organisation, FiniteSetTheorems, WellFoundedInduction, TLAPS

-----------------------------------------------------------------------------
(* Grants rewritten *)

SameGrant(g, new) ==
  /\ new.person = g.person /\ new.role = g.role /\ new.at = g.at /\ new.late = g.late
  /\ g.ended => new.ended
  /\ Active(new) /\ ~new.late => Active(g)

\* The rows `new` are `old` with at most `which` ended and rows for `p` added.
Rewritten(old, new, which, p) ==
  /\ new \in Seq(Grant)
  /\ \A i \in DOMAIN old : /\ i \in DOMAIN new /\ SameGrant(old[i], new[i])
                           /\ new[i].ended => old[i].ended \/ i \in which
  /\ \A i \in DOMAIN new \ DOMAIN old : new[i].person = p

LEMMA Rows ==
  ASSUME NEW rows \in Seq(Grant)
  PROVE  /\ DOMAIN rows = 1 .. Len(rows) /\ Len(rows) \in Nat /\ DOMAIN rows \subseteq Nat
         /\ \A i \in DOMAIN rows : rows[i] \in Grant /\ rows[i] \in GrantRows
BY DEF Grant

\* Rows written one by one stay a sequence of rows.
LEMMA RowsWritten ==
  ASSUME NEW rows \in Seq(Grant), NEW new, DOMAIN new = DOMAIN rows,
         new = [i \in DOMAIN rows |-> new[i]],
         \A i \in DOMAIN rows : new[i] \in Grant
  PROVE  new \in Seq(Grant)
<1>1. new \in [1 .. Len(rows) -> Grant] /\ Len(rows) \in Nat
  BY Rows
<1> QED
  BY <1>1

LEMMA SameRow ==
  ASSUME NEW g \in Grant
  PROVE  SameGrant(g, g)
BY DEF SameGrant

LEMMA EndedRow ==
  ASSUME NEW g \in Grant
  PROVE  /\ [g EXCEPT !.ended = TRUE] \in Grant
         /\ SameGrant(g, [g EXCEPT !.ended = TRUE])
<1> DEFINE yes == TRUE
           new == [g EXCEPT !.ended = yes]
<1>1. g \in GrantRows /\ (g.late \/ g.begun) /\ yes \in BOOLEAN /\ yes
  BY DEF Grant
<1> HIDE DEF yes
<1>2. /\ new \in GrantRows /\ new.person = g.person /\ new.role = g.role /\ new.at = g.at
      /\ new.late = g.late /\ new.begun = g.begun /\ new.ended = yes
  BY <1>1 DEF GrantRows
<1> HIDE DEF new
<1>3. new \in Grant /\ SameGrant(g, new)
  BY <1>1, <1>2 DEF Grant, SameGrant, Active
<1>4. new = [g EXCEPT !.ended = TRUE]
  BY DEF new, yes
<1> QED
  BY <1>3, <1>4

LEMMA NothingRewritten ==
  ASSUME NEW rows \in Seq(Grant), NEW which, NEW p
  PROVE  Rewritten(rows, rows, which, p)
BY Rows, SameRow DEF Rewritten

LEMMA EndingRewrites ==
  ASSUME grants \in Seq(Grant), NEW which, NEW p
  PROVE  Rewritten(grants, Ending(which), which, p) /\ DOMAIN Ending(which) = DOMAIN grants
<1> DEFINE new == Ending(which)
<1>1. /\ DOMAIN new = DOMAIN grants /\ new = [i \in DOMAIN grants |-> new[i]]
      /\ \A i \in DOMAIN grants :
           new[i] = IF i \in which THEN [grants[i] EXCEPT !.ended = TRUE] ELSE grants[i]
  BY DEF Ending
<1> HIDE DEF new
<1>2. \A i \in DOMAIN grants : new[i] \in Grant /\ SameGrant(grants[i], new[i])
  BY <1>1, Rows, SameRow, EndedRow
<1>3. new \in Seq(Grant)
  BY <1>1, <1>2, RowsWritten
<1>4. Rewritten(grants, new, which, p)
  BY <1>1, <1>2, <1>3 DEF Rewritten
<1> QED
  BY <1>1, <1>4 DEF new

LEMMA GivenRow ==
  ASSUME NEW p \in Persons, NEW role \in GrantedRoles, NEW d \in Somewhere, NEW late \in BOOLEAN
  PROVE  Given(p, role, d, late) \in Grant /\ Given(p, role, d, late).person = p
<1> DEFINE begun == ~late
           no == FALSE
           open == "open"
           none == "none"
           new == [person |-> p, role |-> role, at |-> d, late |-> late, begun |-> begun,
                   date |-> open, ended |-> no, review |-> none]
<1>1. /\ begun \in BOOLEAN /\ (late \/ begun) /\ no \in BOOLEAN
      /\ open \in {"open", "dated", "over"} /\ none \in {"none", "flagged", "due"}
  OBVIOUS
<1>2. Given(p, role, d, late) = new
  BY DEF Given
<1> HIDE DEF begun, no, open, none
<1>3. new \in GrantRows /\ (new.late \/ new.begun) /\ new.person = p
  BY <1>1 DEF GrantRows
<1> QED
  BY <1>2, <1>3 DEF Grant

\* A grant given after others were ended.
LEMMA AppendRewrites ==
  ASSUME NEW old \in Seq(Grant), NEW rows, NEW which, NEW g \in Grant, NEW p,
         Rewritten(old, rows, which, p), DOMAIN rows = DOMAIN old, g.person = p
  PROVE  Rewritten(old, Append(rows, g), which, p)
<1> DEFINE new == Append(rows, g)
<1>1. rows \in Seq(Grant) /\ DOMAIN rows = 1 .. Len(rows) /\ Len(rows) \in Nat
  BY Rows DEF Rewritten
<1>2. /\ new \in Seq(Grant) /\ DOMAIN new = DOMAIN rows \union {Len(rows) + 1}
      /\ new[Len(rows) + 1] = g /\ \A i \in DOMAIN rows : new[i] = rows[i]
  BY <1>1
<1> HIDE DEF new
<1>3. Rewritten(old, new, which, p)
  BY <1>2 DEF Rewritten
<1> QED
  BY <1>3 DEF new

LEMMA HeadGivenRewrites ==
  ASSUME grants \in Seq(Grant), NEW d \in Departments, NEW p \in Somebody
  PROVE  Rewritten(grants, HeadGiven(d, p), {i \in HeadsOf(d) : grants[i].person # p}, p)
<1> DEFINE others == {i \in HeadsOf(d) : grants[i].person # p}
           g == Given(p, "head", d, FALSE)
<1>1. Rewritten(grants, Ending(others), others, p) /\ DOMAIN Ending(others) = DOMAIN grants
  BY EndingRewrites
<1>2. CASE p = None \/ HeadsOf(d) # others
  <2>1. HeadGiven(d, p) = Ending(others)
    BY <1>2 DEF HeadGiven
  <2> QED
    BY <1>1, <2>1
<1>3. CASE ~(p = None \/ HeadsOf(d) # others)
  <2>1. HeadGiven(d, p) = Append(Ending(others), g)
    BY <1>3 DEF HeadGiven
  <2>2. g \in Grant /\ g.person = p
    BY <1>3, GivenRow DEF Somebody, Somewhere, GrantedRoles
  <2> HIDE DEF others, g
  <2>3. Rewritten(grants, Append(Ending(others), g), others, p)
    BY <1>1, <2>2, AppendRewrites
  <2> QED
    BY <2>1, <2>3 DEF others
<1> QED
  BY <1>2, <1>3

LEMMA LeadGivenRewrites ==
  ASSUME grants \in Seq(Grant), NEW p \in Persons, NEW lead \in BOOLEAN
  PROVE  Rewritten(grants, LeadGiven(p, lead), IF lead THEN {} ELSE HeldAs(p, "lead"), p)
<1> DEFINE g == Given(p, "lead", None, FALSE)
<1>1. CASE ~lead
  BY <1>1, EndingRewrites DEF LeadGiven
<1>2. CASE lead /\ HeldAs(p, "lead") # {}
  BY <1>2, NothingRewritten DEF LeadGiven
<1>3. CASE lead /\ HeldAs(p, "lead") = {}
  <2>1. LeadGiven(p, lead) = Append(grants, g)
    BY <1>3 DEF LeadGiven
  <2>2. g \in Grant /\ g.person = p
    BY GivenRow DEF Somewhere, GrantedRoles
  <2>3. Rewritten(grants, grants, {}, p)
    BY NothingRewritten
  <2> HIDE DEF g
  <2>4. Rewritten(grants, Append(grants, g), {}, p)
    BY <2>2, <2>3, AppendRewrites
  <2> QED
    BY <1>3, <2>1, <2>4
<1> QED
  BY <1>1, <1>2, <1>3

-----------------------------------------------------------------------------
(* Handlers *)

\* The rows in `which` are some that `r` has listed.
Lists(r, rows, which) ==
  /\ which \subseteq DOMAIN rows
  /\ r.op \in Leaving \union {"remove"} => \A i \in which : rows[i].person = r.person
  /\ r.op = "remove" => \A i \in which : rows[i].role = "lead"

SawOK(h) == /\ Lists(Of(h), grants, SeenBy(h).grants)
            /\ Of(h).op \notin Leaving => SeenBy(h).heads = {}

TypeInv == TypeOK /\ \A h \in Handlers : SawOK(h)

\* What `h` saw of its person's rows is all there is, grants apart that were to start later.
Stands(h) ==
  /\ PersonFacts(Of(h))
  /\ \A i \in Listed(Of(h)) \ SeenBy(h).grants : grants[i].late
  /\ Saw(Of(h)).heads \subseteq SeenBy(h).heads
  /\ Saw(Of(h)).member => SeenBy(h).member
  /\ Saw(Of(h)).addon = SeenBy(h).addon

Fresh ==
  \A h \in Handlers : handlers[h].busy =>
    /\ Of(h).op \in Locking => FreePerson(h, Of(h).person)
    /\ Of(h).op \in Locking \ RoleChange => Stands(h)
    /\ Of(h).op \in Editing => FreeDepartment(h, Of(h).dept)
    /\ Of(h).op = "edit" => Live(Of(h).dept)

Inv == TypeInv /\ Fresh

\* What a step leaves of the rows that belong to `p`.
Spared(p) ==
  /\ people'[p] = people[p]
  /\ members[p] = "none" => members'[p] = "none"
  /\ \A d \in Departments :
       Live(d)' /\ departments'[d].head = p => Live(d) /\ departments[d].head = p
  /\ \A i \in DOMAIN grants' \ DOMAIN grants : grants'[i].person # p

LEMMA Typed ==
  ASSUME TypeInv
  PROVE  /\ people \in [Persons -> Person] /\ departments \in [Departments -> Department]
         /\ members \in [Persons -> Memberships] /\ grants \in Seq(Grant)
         /\ handlers \in [Handlers -> Handler] /\ todo \subseteq Request
         /\ \A h \in Handlers : /\ Of(h) \in Request /\ Of(h).op \in Ops
                                /\ Of(h).person \in Somebody /\ Of(h).dept \in Somewhere
                                /\ Of(h).parent \in Somewhere
                                /\ SeenBy(h).heads \subseteq Departments
                                /\ SeenBy(h).grants \subseteq DOMAIN grants
                                /\ SeenBy(h).member \in BOOLEAN /\ SeenBy(h).addon \in BOOLEAN
BY DEF TypeInv, TypeOK, SawOK, Lists, Handler, Of, SeenBy, Request, Requests

LEMMA IdleTyped ==
  /\ Idle \in Handler /\ ~Idle.busy /\ Idle.request = NoRequest /\ NoRequest.op = "sweep"
  /\ Idle.saw.grants = {} /\ Idle.saw.heads = {}
<1> DEFINE none == "none"
           sweep == "sweep"
           no == FALSE
           r == [op |-> sweep, person |-> None, dept |-> None, parent |-> None, role |-> none,
                 late |-> no]
           empty == {}
           s == [grants |-> empty, heads |-> empty, member |-> no, addon |-> no]
           i == [busy |-> no, request |-> r, saw |-> s]
<1>1. /\ none \in BaseRoles \union Memberships \union GrantedRoles /\ no \in BOOLEAN /\ ~no
      /\ sweep \in Ops /\ sweep = "sweep" /\ empty = {}
      /\ sweep \notin {"create", "edit", "move", "archive", "place", "profile", "join",
                       "grant", "remove", "sign-in"} \union Locking \union Leaving
                         \union RoleChange
  BY DEF Memberships, Ops, Locking, Leaving, RoleChange
<1>2. r = NoRequest /\ i = Idle
  BY DEF NoRequest, Idle
<1> HIDE DEF none, sweep, no, empty
<1>3. r \in Request /\ r.op = sweep
  BY <1>1 DEF Request, Requests, Somebody, Somewhere
<1>4. s \in [grants : SUBSET Nat, heads : SUBSET Departments, member : BOOLEAN, addon : BOOLEAN]
      /\ s.grants = {} /\ s.heads = {}
  BY <1>1
<1> HIDE DEF r, s
<1>5. i \in Handler /\ i.busy = no /\ i.request = r /\ i.saw = s
  BY <1>1, <1>3, <1>4 DEF Handler
<1> HIDE DEF i
<1> QED
  BY <1>1, <1>2, <1>3, <1>4, <1>5

\* What a request lists and sees is of its kind.
LEMMA SawTyped ==
  ASSUME TypeInv, NEW r \in Request
  PROVE  /\ Saw(r) \in [grants : SUBSET Nat, heads : SUBSET Departments, member : BOOLEAN,
                        addon : BOOLEAN]
         /\ Lists(r, grants, Saw(r).grants)
         /\ r.op \notin Leaving => Saw(r).heads = {}
         /\ Saw(r).grants = Listed(r)
<1> DEFINE heads == IF r.op \in Leaving THEN HeadedBy(r.person) ELSE {}
           member == r.op \in Leaving /\ members[r.person] # "none"
           addon == r.op \in RoleChange /\ r.role # "employee" /\ HeldAs(r.person, "addon") # {}
           which == Listed(r)
<1>1. Lists(r, grants, Listed(r))
  BY DEF Lists, Listed, Held, HeldAs, Leaving
<1>2. Listed(r) \subseteq Nat
  BY <1>1, Rows, Typed DEF Lists
<1>3. /\ heads \subseteq Departments /\ member \in BOOLEAN /\ addon \in BOOLEAN
      /\ r.op \notin Leaving => heads = {}
  BY DEF HeadedBy
<1>4. Saw(r) = [grants |-> which, heads |-> heads, member |-> member, addon |-> addon]
  BY DEF Saw
<1>5. which = Listed(r) /\ which \subseteq Nat
  BY <1>2
<1> HIDE DEF heads, member, addon, which
<1> QED
  BY <1>1, <1>3, <1>4, <1>5

\* Listed rows stay listed as grants are rewritten.
LEMMA ListsStay ==
  ASSUME NEW r, NEW which, Lists(r, grants, which),
         \A i \in DOMAIN grants : i \in DOMAIN grants' /\ SameGrant(grants[i], grants'[i])
  PROVE  Lists(r, grants', which)
BY DEF Lists, SameGrant

\* What a handler saw stands if the others spare its person.
LEMMA StandsStays ==
  ASSUME TypeInv, NEW h \in Handlers, Stands(h), Of(h).op \in Locking \ RoleChange,
         Spared(Of(h).person), handlers'[h] = handlers[h],
         \A i \in DOMAIN grants : i \in DOMAIN grants' /\ SameGrant(grants[i], grants'[i])
  PROVE  Stands(h)'
<1>a. PICK r : r = Of(h)
  OBVIOUS
<1>b. PICK p : p = r.person
  OBVIOUS
<1>c. PICK saw : saw = SeenBy(h)
  OBVIOUS
<1>1. r.op \in {"profile", "grant", "suspend", "reactivate", "deactivate"} /\ p \in Persons
  BY <1>a, <1>b, Typed DEF Locking, RoleChange, Request
<1>2. Of(h)' = r /\ SeenBy(h)' = saw
  BY <1>a, <1>c DEF Of, SeenBy
<1>3. people'[p] = people[p]
  BY <1>a, <1>b DEF Spared
<1>4. PersonFacts(r)'
  <2>1. PersonFacts(r)
    BY <1>a DEF Stands
  <2> QED
    BY <1>1, <1>3, <1>b, <2>1 DEF PersonFacts, Staff, Gone
<1>5. PersonFacts(Of(h))'
  BY <1>2, <1>4 DEF PersonFacts, Staff
<1>6. CASE r.op # "deactivate"
  <2>1. /\ Listed(r)' = {} /\ Saw(r)'.heads = {} /\ ~Saw(r)'.member
        /\ ~Saw(r)'.addon /\ ~Saw(r).addon
    BY <1>1, <1>6 DEF Listed, Saw, Leaving, RoleChange
  <2>2. Saw(r).addon = saw.addon
    BY <1>a, <1>c DEF Stands
  <2>3. /\ Listed(Of(h))' = {} /\ Saw(Of(h))'.heads = {} /\ ~Saw(Of(h))'.member
        /\ Saw(Of(h))'.addon = SeenBy(h)'.addon
    BY <1>2, <1>c, <2>1, <2>2 DEF Listed, Saw, Leaving, RoleChange
  <2> QED
    BY <1>5, <2>3 DEF Stands
<1>7. CASE r.op = "deactivate"
  <2>1. /\ Listed(r) = Held(p) /\ Saw(r).heads = HeadedBy(p)
        /\ Saw(r).member = (members[p] # "none") /\ ~Saw(r).addon
    BY <1>7, <1>b DEF Listed, Saw, Leaving, RoleChange
  <2>2. /\ Listed(r)' = Held(p)' /\ Saw(r)'.heads = HeadedBy(p)'
        /\ Saw(r)'.member = (members'[p] # "none") /\ ~Saw(r)'.addon
    BY <1>7, <1>b DEF Listed, Saw, Leaving, RoleChange
  <2>3. /\ \A i \in Held(p) \ saw.grants : grants[i].late
        /\ HeadedBy(p) \subseteq saw.heads /\ (members[p] # "none" => saw.member)
        /\ Saw(r).addon = saw.addon
    BY <2>1, <1>a, <1>c DEF Stands
  <2>4. \A i \in Held(p)' \ saw.grants : grants'[i].late
    BY <2>3, <1>a, <1>b DEF Held, SameGrant, Spared
  <2>5. HeadedBy(p)' \subseteq saw.heads
    BY <2>3, <1>a, <1>b DEF HeadedBy, Spared
  <2>6. members'[p] # "none" => saw.member
    BY <2>3, <1>a, <1>b DEF Spared
  <2>7. /\ Listed(Of(h))' = Held(p)' /\ Saw(Of(h))'.heads = HeadedBy(p)'
        /\ Saw(Of(h))'.member = (members'[p] # "none")
        /\ Saw(Of(h))'.addon = SeenBy(h)'.addon
    BY <1>7, <1>2, <1>b, <1>c, <2>1, <2>2, <2>3 DEF Listed, Saw, Leaving, RoleChange
  <2> QED
    BY <1>2, <1>5, <2>4, <2>5, <2>6, <2>7 DEF Stands
<1> QED
  BY <1>6, <1>7

-----------------------------------------------------------------------------
(* Commits *)

About == Somebody \union Somewhere \union {"admins"}

LEMMA MismatchTyped ==
  ASSUME TypeInv, NEW h \in Handlers
  PROVE  Mismatch(h) \subseteq Ops \X About
<1>1. /\ Of(h).op \in Ops /\ Of(h).person \in About /\ Of(h).dept \in About
      /\ "admins" \in About /\ SeenBy(h).heads \subseteq Departments
      /\ SeenBy(h).grants \subseteq DOMAIN grants /\ "sweep" \in Ops
  BY Typed DEF About, Ops
<1>2. \A i \in DOMAIN grants : grants[i].person \in About
  BY Rows, Typed DEF About, Somebody, GrantRows
<1>3. Saw(Of(h)).heads \subseteq Departments /\ Departments \subseteq About
  BY SawTyped, Typed DEF About, Somewhere
<1>4. CASE Of(h).op = "sweep"
  <2>1. \A m \in Mismatch(h) : \E i \in SeenBy(h).grants : m = <<"sweep", grants[i].person>>
    BY <1>4 DEF Mismatch
  <2> QED
    BY <1>1, <1>2, <2>1
<1>5. CASE Of(h).op # "sweep"
  <2>1. \A m \in Mismatch(h) :
          \/ m = <<Of(h).op, Of(h).person>> \/ m = <<Of(h).op, Of(h).dept>>
          \/ m = <<Of(h).op, "admins">>
          \/ \E d \in Saw(Of(h)).heads \union SeenBy(h).heads : m = <<Of(h).op, d>>
    BY <1>5 DEF Mismatch
  <2> QED
    BY <1>1, <1>3, <2>1
<1> QED
  BY <1>4, <1>5

\* Facts about a locked person, or about a locked department, hold when they are used, those of a
\* change of role apart.
LEMMA MismatchFresh ==
  ASSUME Inv, NEW h \in Handlers, handlers[h].busy
  PROVE  /\ \A p \in Persons : \A op \in Locking \ RoleChange : <<op, p>> \notin Mismatch(h)
         /\ \A d \in Departments : <<"edit", d>> \notin Mismatch(h)
<1> DEFINE r == Of(h)
           now == Saw(r)
           saw == SeenBy(h)
<1>1. TypeInv /\ r \in Request
  BY Typed DEF Inv
<1>2. CASE r.op = "sweep"
  <2>1. \A m \in Mismatch(h) : m[1] = "sweep"
    BY <1>2 DEF Mismatch
  <2> QED
    BY <2>1 DEF Locking
<1>3. CASE r.op \in Locking \ RoleChange
  <2>1. Stands(h) /\ now.grants = Listed(r)
    BY <1>1, <1>3, SawTyped DEF Inv, Fresh
  <2>2. /\ PersonFacts(r) /\ \A i \in now.grants \ saw.grants : grants[i].late
        /\ now.heads \subseteq saw.heads /\ (now.member => saw.member)
        /\ now.addon = saw.addon
    BY <2>1 DEF Stands
  <2>3. r.op # "sweep" /\ r.op # "edit"
    BY <1>3 DEF Locking
  <2>4. /\ {i \in now.grants \ saw.grants : ~grants[i].late} = {}
        /\ now.heads \ saw.heads = {}
    BY <2>2
  <2>5. now.heads \subseteq Departments /\ saw.heads \subseteq Departments
        /\ r.dept \in Departments \union {None}
    BY <1>1, SawTyped, Typed DEF Somewhere
  <2>6. \A m \in Mismatch(h) : m \in {<<r.op, r.dept>>, <<r.op, "admins">>} \union
                                     {<<r.op, d>> : d \in now.heads \union saw.heads}
    BY <2>2, <2>3, <2>4 DEF Mismatch
  <2>7. \A m \in Mismatch(h) : m[1] # "edit" /\ m[2] \in Departments \union {None, "admins"}
    BY <2>3, <2>5, <2>6
  <2> QED
    BY <2>7, NoneAssumption
<1>4. CASE r.op = "edit"
  <2>1. Live(r.dept) /\ saw.heads = {} /\ now.heads = {}
    BY <1>1, <1>4, SawTyped DEF Inv, Fresh, TypeInv, SawOK, Leaving
  <2>2. DepartmentFacts(r)
    BY <1>4, <2>1 DEF DepartmentFacts
  <2>3. \A m \in Mismatch(h) : m = <<r.op, r.person>> \/ m = <<r.op, "admins">>
    BY <1>4, <2>1, <2>2 DEF Mismatch
  <2>4. r.person \in Persons \union {None} /\ r.op \notin Locking
    BY <1>1, <1>4, Typed DEF Somebody, Locking
  <2> QED
    BY <2>3, <2>4, NoneAssumption
<1>5. CASE r.op \notin (Locking \ RoleChange) \union {"edit", "sweep"}
  <2>1. \A m \in Mismatch(h) : m[1] = r.op
    BY <1>5 DEF Mismatch
  <2> QED
    BY <1>5, <2>1
<1> QED
  BY <1>2, <1>3, <1>4, <1>5

\* What a handler has locked is spared.
LockSpared(k) == /\ \A q \in LockedPersons(k) : Spared(q)
                 /\ \A d \in LockedDepartments(k) : Live(d) => Live(d)'
OthersSpared(h) == \A k \in Handlers \ {h} : LockSpared(k)

\* Nobody else's facts change in a step that spares what they locked.
LEMMA FreshStays ==
  ASSUME Inv,
         \A k \in Handlers : handlers'[k].busy => handlers'[k] = handlers[k] /\ LockSpared(k),
         \A i \in DOMAIN grants : i \in DOMAIN grants' /\ SameGrant(grants[i], grants'[i])
  PROVE  Fresh'
<1>1. ASSUME NEW k \in Handlers, handlers'[k].busy
      PROVE  /\ Of(k)'.op \in Locking => FreePerson(k, Of(k).person)'
             /\ Of(k)'.op \in Locking \ RoleChange => Stands(k)'
             /\ Of(k)'.op \in Editing => FreeDepartment(k, Of(k).dept)'
             /\ Of(k)'.op = "edit" => Live(Of(k).dept)'
  <2>1. handlers'[k] = handlers[k] /\ handlers[k].busy /\ Of(k)' = Of(k) /\ LockSpared(k)
    BY <1>1 DEF Of
  <2>2. \A j \in Handlers : LockedPersons(j)' \subseteq LockedPersons(j)
    BY DEF LockedPersons, Of
  <2>3. \A j \in Handlers : LockedDepartments(j)' \subseteq LockedDepartments(j)
    BY DEF LockedDepartments, Of
  <2>4. ASSUME Of(k).op \in Locking
        PROVE  /\ FreePerson(k, Of(k).person)'
               /\ Of(k).op \notin RoleChange => Stands(k)'
    <3>1. /\ Of(k).op \notin RoleChange => Stands(k)
          /\ FreePerson(k, Of(k).person) /\ Of(k).person \in Persons
      BY <2>1, <2>4, Typed DEF Inv, Fresh, Request
    <3>2. Of(k).person \in LockedPersons(k)
      BY <2>1, <2>4, <3>1 DEF LockedPersons
    <3>3. Of(k).op \notin RoleChange => Stands(k)'
      BY <2>1, <2>4, <3>1, <3>2, StandsStays DEF Inv, LockSpared
    <3> QED
      BY <2>1, <2>2, <3>1, <3>3 DEF FreePerson
  <2>5. ASSUME Of(k).op \in Editing
        PROVE  FreeDepartment(k, Of(k).dept)'
    <3>1. FreeDepartment(k, Of(k).dept)
      BY <2>1, <2>5 DEF Inv, Fresh
    <3> QED
      BY <2>1, <2>3, <3>1 DEF FreeDepartment
  <2>6. ASSUME Of(k).op = "edit"
        PROVE  Live(Of(k).dept)'
    <3>1. Live(Of(k).dept) /\ Of(k).dept \in Departments
      BY <2>1, <2>6 DEF Inv, Fresh, Live
    <3>2. Of(k).dept \in LockedDepartments(k)
      BY <2>1, <2>6, <3>1 DEF LockedDepartments, Editing
    <3>3. \A d \in LockedDepartments(k) : Live(d) => Live(d)'
      BY <2>1 DEF LockSpared
    <3> QED
      BY <2>1, <3>1, <3>2, <3>3 DEF Live
  <2> QED
    BY <2>1, <2>4, <2>5, <2>6
<1> QED
  BY <1>1 DEF Fresh

\* A commit that writes rows of their types, and spares what others have locked.
LEMMA CommitStep ==
  ASSUME Inv, NEW h \in Handlers, NEW op, Commits(h, op), NEW which, NEW p,
         people' \in [Persons -> Person], departments' \in [Departments -> Department],
         members' \in [Persons -> Memberships], Rewritten(grants, grants', which, p),
         OthersSpared(h)
  PROVE  Inv'
<1>1. /\ TypeInv /\ Idle \in Handler /\ ~Idle.busy
      /\ handlers' = [handlers EXCEPT ![h] = Idle] /\ todo' = todo
      /\ outdated' = outdated \union Mismatch(h)
  BY IdleTyped DEF Inv, Commits
<1>2. /\ handlers' \in [Handlers -> Handler] /\ handlers'[h] = Idle
      /\ \A k \in Handlers \ {h} : handlers'[k] = handlers[k]
  BY <1>1, Typed
<1>3. outdated' \subseteq Ops \X About
  BY <1>1, MismatchTyped DEF TypeInv, TypeOK, About
<1>4. TypeOK'
  BY <1>1, <1>2, <1>3, Typed DEF TypeOK, About, Rewritten
<1>5. \A i \in DOMAIN grants : i \in DOMAIN grants' /\ SameGrant(grants[i], grants'[i])
  BY DEF Rewritten
<1>6. ASSUME NEW k \in Handlers
      PROVE  SawOK(k)'
  <2>1. CASE k = h
    BY <1>2, <2>1, IdleTyped DEF SawOK, Lists, Of, SeenBy, Leaving
  <2>2. CASE k # h
    <3>1. Of(k)' = Of(k) /\ SeenBy(k)' = SeenBy(k)
      BY <1>2, <2>2 DEF Of, SeenBy
    <3>2. SawOK(k)
      BY <1>1 DEF TypeInv
    <3>3. Lists(Of(k), grants', SeenBy(k).grants)
      BY <1>5, <3>2, ListsStay DEF SawOK
    <3> QED
      BY <3>1, <3>2, <3>3 DEF SawOK
  <2> QED
    BY <2>1, <2>2
<1>7. Fresh'
  BY <1>1, <1>2, <1>5, FreshStays DEF OthersSpared
<1> QED
  BY <1>4, <1>6, <1>7 DEF Inv, TypeInv

\* It does so if it leaves alone everybody but its own person, whom nobody else has locked,
\* and if every other department stays live.
LEMMA CommitSpares ==
  ASSUME Inv, NEW h \in Handlers, NEW op, Commits(h, op), op # "remove",
         \A q \in Persons \ {Of(h).person} : Spared(q),
         \A d \in Departments \ {Of(h).dept} : Live(d) => Live(d)'
  PROVE  OthersSpared(h)
<1>1. ASSUME NEW k \in Handlers \ {h}, NEW q \in LockedPersons(k)
      PROVE  Spared(q)
  BY <1>1 DEF Commits, Free, FreePerson, LockedPersons
<1>2. ASSUME NEW k \in Handlers \ {h}, NEW d \in LockedDepartments(k), Live(d)
      PROVE  Live(d)'
  BY <1>2 DEF Commits, Free, FreeDepartment, LockedDepartments
<1> QED
  BY <1>1, <1>2 DEF OthersSpared, LockSpared

\* Whoever's rows, headships and team are not touched is spared.
LEMMA Untouched ==
  ASSUME NEW q \in Persons, NEW p, p # q, NEW which, Rewritten(grants, grants', which, p),
         people'[q] = people[q], members'[q] = members[q],
         \A d \in Departments :
           Live(d)' /\ departments'[d].head = q => Live(d) /\ departments[d].head = q
  PROVE  Spared(q)
BY DEF Spared, Rewritten

LEMMA OwnPerson ==
  ASSUME Inv, NEW h \in Handlers
  PROVE  /\ Of(h).op \in {"place", "profile", "join", "remove", "grant", "suspend", "reactivate",
                          "deactivate", "sync", "role", "assign"} => Of(h).person \in Persons
         /\ Of(h).op \in {"create", "edit", "move", "archive", "place", "profile"} =>
              Of(h).dept \in Departments
         /\ Of(h).op = "join" => Of(h).role \in {"member", "lead"}
         /\ Of(h).op \in RoleChange => Of(h).role \in BaseRoles
         /\ Of(h).op = "grant" => /\ Of(h).role \in GrantedRoles /\ Of(h).dept \in Somewhere
                                  /\ Of(h).late \in BOOLEAN
BY Typed DEF Inv, Request, Requests, Locking, Leaving, RoleChange, Somewhere, GrantedRoles

-----------------------------------------------------------------------------
(* The steps *)

LEMMA CreateStep ==
  ASSUME Inv, NEW h \in Handlers, Create(h)
  PROVE  Inv'
<1> DEFINE r == Of(h)
           live == "live"
           new == [state |-> live, parent |-> r.parent, head |-> r.person]
           which == {i \in HeadsOf(r.dept) : grants[i].person # r.person}
<1>1. /\ Commits(h, "create") /\ r.op = "create" /\ r.dept \in Departments
      /\ r.person \in Somebody /\ r.parent \in Somewhere
  BY OwnPerson, Typed DEF Create, Commits, Inv
<1>2. new \in Department /\ new.head = r.person
  BY <1>1 DEF Department
<1>3. /\ departments' = [departments EXCEPT ![r.dept] = new]
      /\ people' = people /\ members' = members /\ grants' = HeadGiven(r.dept, r.person)
  BY DEF Create
<1>4. Rewritten(grants, grants', which, r.person)
  BY <1>1, <1>3, HeadGivenRewrites, Typed DEF Inv
<1> HIDE DEF new, which
<1>5. /\ departments' \in [Departments -> Department]
      /\ departments'[r.dept].head = r.person
      /\ \A d \in Departments \ {r.dept} : departments'[d] = departments[d]
  BY <1>1, <1>2, <1>3, Typed DEF Inv
<1>6. \A q \in Persons \ {r.person} : Spared(q)
  BY <1>3, <1>4, <1>5, Untouched DEF Live
<1>7. \A d \in Departments \ {r.dept} : Live(d) => Live(d)'
  BY <1>5 DEF Live
<1>8. OthersSpared(h)
  BY <1>1, <1>6, <1>7, CommitSpares
<1> QED
  BY <1>1, <1>3, <1>4, <1>5, <1>8, CommitStep, Typed DEF Inv

LEMMA EditStep ==
  ASSUME Inv, NEW h \in Handlers, Edit(h)
  PROVE  Inv'
<1> DEFINE r == Of(h)
           new == [departments[r.dept] EXCEPT !.head = r.person]
           which == {i \in HeadsOf(r.dept) : grants[i].person # r.person}
<1>1. /\ Commits(h, "edit") /\ r.op = "edit" /\ r.dept \in Departments /\ r.person \in Somebody
      /\ departments[r.dept] \in Department
  BY OwnPerson, Typed DEF Edit, Commits, Inv
<1>2. new \in Department /\ new.head = r.person
  BY <1>1 DEF Department
<1>3. /\ departments' = [departments EXCEPT ![r.dept] = new]
      /\ people' = people /\ members' = members /\ grants' = HeadGiven(r.dept, r.person)
  BY <1>1, Typed DEF Edit, Inv
<1>4. Rewritten(grants, grants', which, r.person)
  BY <1>1, <1>3, HeadGivenRewrites, Typed DEF Inv
<1> HIDE DEF new, which
<1>5. /\ departments' \in [Departments -> Department]
      /\ departments'[r.dept].head = r.person
      /\ \A d \in Departments \ {r.dept} : departments'[d] = departments[d]
  BY <1>1, <1>2, <1>3, Typed DEF Inv
<1>6. \A q \in Persons \ {r.person} : Spared(q)
  BY <1>3, <1>4, <1>5, Untouched DEF Live
<1>7. \A d \in Departments \ {r.dept} : Live(d) => Live(d)'
  BY <1>5 DEF Live
<1>8. OthersSpared(h)
  BY <1>1, <1>6, <1>7, CommitSpares
<1> QED
  BY <1>1, <1>3, <1>4, <1>5, <1>8, CommitStep, Typed DEF Inv

LEMMA MoveStep ==
  ASSUME Inv, NEW h \in Handlers, Move(h)
  PROVE  Inv'
<1> DEFINE r == Of(h)
           new == [departments[r.dept] EXCEPT !.parent = r.parent]
<1>1. /\ Commits(h, "move") /\ r.op = "move" /\ r.dept \in Departments /\ r.parent \in Somewhere
      /\ departments[r.dept] \in Department
  BY OwnPerson, Typed DEF Move, Commits, Inv
<1>2. /\ new \in Department /\ new.head = departments[r.dept].head
      /\ new.state = departments[r.dept].state
  BY <1>1 DEF Department
<1>3. /\ departments' = [departments EXCEPT ![r.dept] = new]
      /\ people' = people /\ members' = members /\ grants' = grants
  BY <1>1, Typed DEF Move, Inv
<1>4. Rewritten(grants, grants', {}, None)
  BY <1>3, NothingRewritten, Typed DEF Inv
<1> HIDE DEF new
<1>5. /\ departments' \in [Departments -> Department]
      /\ \A d \in Departments : /\ departments'[d].head = departments[d].head
                                /\ departments'[d].state = departments[d].state
  BY <1>1, <1>2, <1>3, Typed DEF Inv
<1>6. \A q \in Persons \ {r.person} : Spared(q)
  BY <1>3, <1>4, <1>5, Untouched, NoneAssumption DEF Live
<1>7. \A d \in Departments \ {r.dept} : Live(d) => Live(d)'
  BY <1>5 DEF Live
<1>8. OthersSpared(h)
  BY <1>1, <1>6, <1>7, CommitSpares
<1> QED
  BY <1>1, <1>3, <1>4, <1>5, <1>8, CommitStep, Typed DEF Inv

LEMMA ArchiveStep ==
  ASSUME Inv, NEW h \in Handlers, Archive(h)
  PROVE  Inv'
<1> DEFINE r == Of(h)
           archived == "archived"
           new == [departments[r.dept] EXCEPT !.head = None, !.state = archived]
<1>1. /\ Commits(h, "archive") /\ r.op = "archive" /\ r.dept \in Departments
      /\ departments[r.dept] \in Department /\ archived \in {"absent", "live", "archived"}
      /\ None \in Somebody
  BY OwnPerson, Typed DEF Archive, Commits, Inv, Somebody
<1>2. departments' = [departments EXCEPT ![r.dept] = new]
  BY <1>1, Typed DEF Archive, Inv
<1>3. /\ people' = people /\ members' = members
      /\ grants' = Ending(HeldAt(r.dept))
  BY DEF Archive
<1>4. Rewritten(grants, grants', HeldAt(r.dept), None)
  BY <1>3, EndingRewrites, Typed DEF Inv
<1> HIDE DEF archived
<1>5. new \in Department /\ new.head = None
  BY <1>1 DEF Department
<1> HIDE DEF new
<1>6. /\ departments' \in [Departments -> Department] /\ departments'[r.dept].head = None
      /\ \A d \in Departments \ {r.dept} : departments'[d] = departments[d]
  BY <1>1, <1>2, <1>5, Typed DEF Inv
<1>7. \A q \in Persons \ {r.person} : Spared(q)
  BY <1>3, <1>4, <1>6, Untouched, NoneAssumption DEF Live
<1>8. \A d \in Departments \ {r.dept} : Live(d) => Live(d)'
  BY <1>6 DEF Live
<1>9. OthersSpared(h)
  BY <1>1, <1>7, <1>8, CommitSpares
<1> QED
  BY <1>1, <1>3, <1>4, <1>6, <1>9, CommitStep, Typed DEF Inv

LEMMA PlaceStep ==
  ASSUME Inv, NEW h \in Handlers, Place(h)
  PROVE  Inv'
<1> DEFINE r == Of(h)
           p == r.person
           flagged == "flagged"
           new == [people[p] EXCEPT !.dept = r.dept]
           row(i) == [grants[i] EXCEPT !.review = flagged]
<1>1. PICK op \in {"place", "profile"} : Commits(h, op)
  BY DEF Place
<1>2. /\ r.op = op /\ op # "remove" /\ p \in Persons /\ r.dept \in Departments
      /\ people[p] \in Person /\ flagged \in {"none", "flagged", "due"}
  BY <1>1, OwnPerson, Typed DEF Commits, Inv
<1>3. /\ people' = [people EXCEPT ![p] = new]
      /\ departments' = departments /\ members' = members
      /\ DOMAIN grants' = DOMAIN grants /\ grants' = [i \in DOMAIN grants |-> grants'[i]]
      /\ \A i \in DOMAIN grants : grants'[i] = grants[i] \/ grants'[i] = row(i)
  BY <1>2, Typed DEF Place, Inv
<1> HIDE DEF flagged
<1>4. new \in Person
  BY <1>2 DEF Person
<1> HIDE DEF new
<1>5. people' \in [Persons -> Person] /\ \A q \in Persons \ {p} : people'[q] = people[q]
  BY <1>2, <1>3, <1>4, Typed DEF Inv
<1>6. ASSUME NEW i \in DOMAIN grants
      PROVE  /\ grants'[i] \in Grant /\ SameGrant(grants[i], grants'[i])
             /\ grants'[i].ended = grants[i].ended
  <2>1. grants[i] \in Grant /\ grants[i] \in GrantRows
    BY Rows, Typed DEF Inv
  <2>2. /\ row(i) \in Grant /\ SameGrant(grants[i], row(i))
        /\ row(i).ended = grants[i].ended
    BY <1>2, <2>1 DEF Grant, GrantRows, SameGrant, Active
  <2> HIDE DEF row
  <2> QED
    BY <1>3, <2>1, <2>2, SameRow
<1>7. grants' \in Seq(Grant)
  BY <1>3, <1>6, RowsWritten, Typed DEF Inv
<1>8. Rewritten(grants, grants', {}, p)
  BY <1>3, <1>6, <1>7 DEF Rewritten
<1>9. \A q \in Persons \ {p} : Spared(q)
  BY <1>3, <1>5, <1>8, Untouched DEF Live
<1>10. OthersSpared(h)
  BY <1>1, <1>2, <1>3, <1>9, CommitSpares DEF Live
<1> QED
  BY <1>1, <1>3, <1>5, <1>8, <1>10, CommitStep, Typed DEF Inv

LEMMA AddMemberStep ==
  ASSUME Inv, NEW h \in Handlers, AddMember(h)
  PROVE  Inv'
<1> DEFINE r == Of(h)
           p == r.person
           lead == r.role = "lead"
           which == IF lead THEN {} ELSE HeldAs(p, "lead")
<1>1. /\ Commits(h, "join") /\ r.op = "join" /\ p \in Persons /\ r.role \in Memberships
      /\ lead \in BOOLEAN
  BY OwnPerson DEF AddMember, Commits, Memberships
<1>2. /\ members' = [members EXCEPT ![p] = r.role]
      /\ people' = people /\ departments' = departments /\ grants' = LeadGiven(p, lead)
  BY DEF AddMember
<1> HIDE DEF lead
<1>3. Rewritten(grants, grants', which, p)
  BY <1>1, <1>2, LeadGivenRewrites, Typed DEF Inv
<1> HIDE DEF which
<1>4. /\ members' \in [Persons -> Memberships]
      /\ \A q \in Persons \ {p} : members'[q] = members[q]
  BY <1>1, <1>2, Typed DEF Inv
<1>5. \A q \in Persons \ {p} : Spared(q)
  BY <1>2, <1>3, <1>4, Untouched DEF Live
<1>6. OthersSpared(h)
  BY <1>1, <1>2, <1>5, CommitSpares DEF Live
<1> QED
  BY <1>1, <1>2, <1>3, <1>4, <1>6, CommitStep, Typed DEF Inv

\* remove_member waits for nobody, but only takes away.
LEMMA RemoveMemberStep ==
  ASSUME Inv, NEW h \in Handlers, RemoveMember(h)
  PROVE  Inv'
<1> DEFINE p == Of(h).person
           none == "none"
<1>1. /\ Commits(h, "remove") /\ p \in Persons /\ none \in Memberships /\ none = "none"
  BY OwnPerson DEF RemoveMember, Commits, Memberships
<1>2. /\ members' = [members EXCEPT ![p] = none]
      /\ people' = people /\ departments' = departments /\ grants' = Ending(SeenBy(h).grants)
  BY DEF RemoveMember
<1> HIDE DEF none
<1>3. /\ Rewritten(grants, grants', SeenBy(h).grants, None)
      /\ DOMAIN grants' = DOMAIN grants
  BY <1>2, EndingRewrites, Typed DEF Inv
<1>4. /\ members' \in [Persons -> Memberships]
      /\ \A q \in Persons : members[q] = "none" => members'[q] = "none"
  BY <1>1, <1>2, Typed DEF Inv
<1>5. \A q \in Persons : Spared(q)
  BY <1>2, <1>3, <1>4 DEF Spared, Live
<1>6. OthersSpared(h)
  BY <1>2, <1>5 DEF OthersSpared, LockSpared, LockedPersons, Live
<1> QED
  BY <1>1, <1>2, <1>3, <1>4, <1>6, CommitStep, Typed DEF Inv

LEMMA GiveStep ==
  ASSUME Inv, NEW h \in Handlers, Give(h)
  PROVE  Inv'
<1> DEFINE r == Of(h)
           g == Given(r.person, r.role, r.dept, r.late)
<1>1. /\ Commits(h, "grant") /\ r.op = "grant" /\ r.person \in Persons
      /\ g \in Grant /\ g.person = r.person
  BY OwnPerson, GivenRow DEF Give, Commits
<1>2. /\ people' = people /\ departments' = departments /\ members' = members
      /\ grants' = Append(grants, g)
  BY DEF Give
<1> HIDE DEF g
<1>3. Rewritten(grants, grants, {}, r.person)
  BY NothingRewritten, Typed DEF Inv
<1>4. Rewritten(grants, grants', {}, r.person)
  BY <1>1, <1>2, <1>3, AppendRewrites, Typed DEF Inv
<1>5. \A q \in Persons \ {r.person} : Spared(q)
  BY <1>2, <1>4, Untouched DEF Live
<1>6. OthersSpared(h)
  BY <1>1, <1>2, <1>5, CommitSpares DEF Live
<1> QED
  BY <1>1, <1>2, <1>4, <1>6, CommitStep, Typed DEF Inv

\* A status set, for one person.
LEMMA StatusSet ==
  ASSUME Inv, NEW p \in Persons, NEW statuses \in SUBSET Statuses, NEW active \in BOOLEAN,
         SetStatus(p, statuses, active)
  PROVE  /\ people' \in [Persons -> Person]
         /\ \A q \in Persons \ {p} : people'[q] = people[q]
         /\ people'[p].role = people[p].role /\ people'[p].active = active
         /\ people'[p].status \in statuses
<1>1. PICK status \in statuses :
        people' = [people EXCEPT ![p].status = status, ![p].active = active,
                                 ![p].returned = @ \/ (active /\ ~people[p].active)]
  BY DEF SetStatus
<1> DEFINE returned == people[p].returned \/ (active /\ ~people[p].active)
           new == [people[p] EXCEPT !.status = status, !.active = active, !.returned = returned]
<1>2. people[p] \in Person /\ returned \in BOOLEAN /\ status \in Statuses
  BY Typed DEF Inv, Person
<1>3. people' = [people EXCEPT ![p] = new]
  BY <1>1, Typed DEF Inv
<1> HIDE DEF returned
<1>4. /\ new \in Person /\ new.role = people[p].role /\ new.active = active
      /\ new.status = status
  BY <1>2 DEF Person
<1> HIDE DEF new
<1> QED
  BY <1>3, <1>4, Typed DEF Inv

\* A commit that sets a status and nothing else.
LEMMA StatusStep ==
  ASSUME Inv, NEW h \in Handlers, NEW op \in {"suspend", "reactivate"}, Commits(h, op),
         NEW statuses \in SUBSET Statuses, NEW active \in BOOLEAN,
         SetStatus(Of(h).person, statuses, active),
         departments' = departments, members' = members, grants' = grants
  PROVE  Inv'
<1>1. Of(h).op = op /\ op # "remove" /\ Of(h).person \in Persons
  BY OwnPerson DEF Commits
<1>2. Rewritten(grants, grants', {}, None)
  BY NothingRewritten, Typed DEF Inv
<1>3. /\ people' \in [Persons -> Person]
      /\ \A q \in Persons \ {Of(h).person} : people'[q] = people[q]
  BY <1>1, StatusSet
<1>4. \A q \in Persons \ {Of(h).person} : Spared(q)
  BY <1>2, <1>3, Untouched, NoneAssumption DEF Live
<1>5. OthersSpared(h)
  BY <1>1, <1>4, CommitSpares DEF Live
<1> QED
  BY <1>2, <1>3, <1>5, CommitStep, Typed DEF Inv

LEMMA SuspendStep ==
  ASSUME Inv, NEW h \in Handlers, Suspend(h)
  PROVE  Inv'
<1> DEFINE no == FALSE
           statuses == {"suspended"}
<1>1. no \in BOOLEAN /\ statuses \in SUBSET Statuses
  BY DEF Statuses
<1>2. /\ Commits(h, "suspend") /\ SetStatus(Of(h).person, statuses, no)
      /\ departments' = departments /\ members' = members /\ grants' = grants
  BY DEF Suspend
<1> HIDE DEF no, statuses
<1> QED
  BY <1>1, <1>2, StatusStep

LEMMA ReactivateStep ==
  ASSUME Inv, NEW h \in Handlers, Reactivate(h)
  PROVE  Inv'
<1> DEFINE yes == TRUE
           statuses == {"active", "invited"}
<1>1. yes \in BOOLEAN /\ statuses \in SUBSET Statuses
  BY DEF Statuses
<1>2. /\ Commits(h, "reactivate") /\ SetStatus(Of(h).person, statuses, yes)
      /\ departments' = departments /\ members' = members /\ grants' = grants
  BY DEF Reactivate
<1> HIDE DEF yes, statuses
<1> QED
  BY <1>1, <1>2, StatusStep

LEMMA LeaveStep ==
  ASSUME Inv, NEW h \in Handlers, Leave(h)
  PROVE  Inv'
<1> DEFINE p == Of(h).person
           saw == SeenBy(h)
           no == FALSE
           statuses == {"deactivated"}
           which == saw.grants \union UNION {HeadsOf(d) : d \in saw.heads}
           headless(d) == [departments[d] EXCEPT !.head = None]
<1>1. PICK op \in Leaving : Commits(h, op)
  BY DEF Leave
<1>2. /\ Of(h).op = op /\ op # "remove" /\ p \in Persons
      /\ no \in BOOLEAN /\ statuses \in SUBSET Statuses
  BY <1>1, OwnPerson DEF Commits, Leaving, Statuses
<1>3. /\ SetStatus(p, statuses, no) /\ grants' = Ending(which)
      /\ members' = [members EXCEPT ![p] = IF saw.member THEN "none" ELSE @]
      /\ departments' = [d \in Departments |->
                           IF d \in saw.heads THEN headless(d) ELSE departments[d]]
  BY DEF Leave
<1> HIDE DEF no, statuses
<1>4. /\ people' \in [Persons -> Person]
      /\ \A q \in Persons \ {p} : people'[q] = people[q]
  BY <1>2, <1>3, StatusSet
<1>5. Rewritten(grants, grants', which, None)
  BY <1>3, EndingRewrites, Typed DEF Inv
<1> HIDE DEF which
<1>6. /\ members' \in [Persons -> Memberships]
      /\ \A q \in Persons \ {p} : members'[q] = members[q]
  BY <1>2, <1>3, Typed DEF Inv, Memberships
<1>7. \A d \in Departments : /\ headless(d) \in Department /\ headless(d).head = None
                             /\ headless(d).state = departments[d].state
  BY Typed DEF Inv, Department, Somebody
<1> HIDE DEF headless
<1>8. /\ departments' \in [Departments -> Department]
      /\ \A d \in Departments : /\ departments'[d].state = departments[d].state
                                /\ departments'[d].head \in {departments[d].head, None}
  BY <1>3, <1>7, Typed DEF Inv
<1>9. \A q \in Persons \ {p} : Spared(q)
  BY <1>4, <1>5, <1>6, <1>8, Untouched, NoneAssumption DEF Live
<1>10. OthersSpared(h)
  BY <1>1, <1>2, <1>8, <1>9, CommitSpares DEF Live
<1> QED
  BY <1>1, <1>4, <1>5, <1>6, <1>8, <1>10, CommitStep

LEMMA AssignStep ==
  ASSUME Inv, NEW h \in Handlers, Assign(h)
  PROVE  Inv'
<1> DEFINE r == Of(h)
           p == r.person
           addons == HeldAs(p, "addon")
           toEmployee == r.role = "employee"
           kept == SeenBy(h).addon
           new == [people[p] EXCEPT !.role = r.role]
           g == Given(p, "addon", None, FALSE)
           all == Held(p) \ HeldAs(p, "head")
<1>1. /\ Commits(h, "assign") /\ r.op = "assign" /\ p \in Persons /\ r.role \in BaseRoles
      /\ people[p] \in Person
  BY OwnPerson, Typed DEF Assign, Commits, Inv, RoleChange
<1>2. /\ people' = [people EXCEPT ![p] = new] /\ departments' = departments
      /\ members' = [members EXCEPT ![p] = IF toEmployee THEN "none" ELSE @]
      /\ grants' = IF toEmployee THEN Ending(all) ELSE IF ~kept THEN Ending(addons)
                   ELSE IF addons # {} THEN grants ELSE Append(grants, g)
  BY <1>1, Typed DEF Assign, Inv
<1>3. new \in Person
  BY <1>1 DEF Person
<1>4. g \in Grant /\ g.person = p
  BY <1>1, GivenRow DEF Somewhere, GrantedRoles
<1> HIDE DEF new, g, addons, all, kept, toEmployee
<1>5. /\ people' \in [Persons -> Person] /\ members' \in [Persons -> Memberships]
      /\ \A q \in Persons \ {p} : people'[q] = people[q] /\ members'[q] = members[q]
  BY <1>1, <1>2, <1>3, Typed DEF Inv, Memberships
<1>6. Rewritten(grants, grants, {}, p)
  BY NothingRewritten, Typed DEF Inv
<1>7. Rewritten(grants, Append(grants, g), {}, p)
  BY <1>4, <1>6, AppendRewrites, Typed DEF Inv
<1>8. \E which : Rewritten(grants, grants', which, p)
  BY <1>2, <1>6, <1>7, EndingRewrites, Typed DEF Inv
<1>9. PICK which : Rewritten(grants, grants', which, p)
  BY <1>8
<1>10. \A q \in Persons \ {p} : Spared(q)
  BY <1>2, <1>5, <1>9, Untouched DEF Live
<1>11. OthersSpared(h)
  BY <1>1, <1>2, <1>10, CommitSpares DEF Live
<1> QED
  BY <1>1, <1>2, <1>5, <1>9, <1>11, CommitStep, Typed DEF Inv

LEMMA SweepStep ==
  ASSUME Inv, NEW h \in Handlers, Sweep(h)
  PROVE  Inv'
<1>1. /\ Commits(h, "sweep") /\ Of(h).op = "sweep"
      /\ people' = people /\ departments' = departments /\ members' = members
      /\ grants' = Ending(SeenBy(h).grants)
  BY DEF Sweep, Commits
<1>2. Rewritten(grants, grants', SeenBy(h).grants, None)
  BY <1>1, EndingRewrites, Typed DEF Inv
<1>3. \A q \in Persons : Spared(q)
  BY <1>1, <1>2, Untouched, NoneAssumption DEF Live
<1>4. OthersSpared(h)
  BY <1>1, <1>3, CommitSpares DEF Live
<1> QED
  BY <1>1, <1>2, <1>4, CommitStep, Typed DEF Inv

\* A step that leaves the handlers, and whoever they have locked, alone.
LEMMA PlainStep ==
  ASSUME Inv, handlers' = handlers, todo' \subseteq todo, outdated' = outdated,
         people' \in [Persons -> Person], departments' = departments, members' = members,
         NEW which, NEW p, Rewritten(grants, grants', which, p),
         \A k \in Handlers : LockSpared(k)
  PROVE  Inv'
<1>1. \A i \in DOMAIN grants : i \in DOMAIN grants' /\ SameGrant(grants[i], grants'[i])
  BY DEF Rewritten
<1>2. TypeOK'
  BY DEF Inv, TypeInv, TypeOK, Rewritten
<1>3. \A k \in Handlers : SawOK(k)'
  BY <1>1, ListsStay DEF Inv, TypeInv, SawOK, Of, SeenBy
<1>4. Fresh'
  BY <1>1, FreshStays
<1> QED
  BY <1>2, <1>3, <1>4 DEF Inv, TypeInv

LEMMA SignInStep ==
  ASSUME Inv, NEW r \in todo, SignIn(r), todo' = todo \ {r}, handlers' = handlers,
         outdated' = outdated
  PROVE  Inv'
<1> DEFINE p == r.person
           yes == TRUE
           statuses == {IF people[p].status = "invited" THEN "active" ELSE people[p].status}
<1>1. r.op = "sign-in" /\ r \in Request /\ p \in Persons /\ yes \in BOOLEAN
  BY Typed DEF Inv, SignIn, Request
<1>2. statuses \in SUBSET Statuses
  BY <1>1, Typed DEF Inv, Person, Statuses
<1>3. /\ SetStatus(p, statuses, yes) /\ \A k \in Handlers : p \notin LockedPersons(k)
      /\ departments' = departments /\ members' = members /\ grants' = grants
  BY DEF SignIn
<1> HIDE DEF yes, statuses
<1>4. people' \in [Persons -> Person] /\ \A q \in Persons \ {p} : people'[q] = people[q]
  BY <1>1, <1>2, <1>3, StatusSet
<1>5. Rewritten(grants, grants', {}, None)
  BY <1>3, NothingRewritten, Typed DEF Inv
<1>6. \A q \in Persons \ {p} : Spared(q)
  BY <1>3, <1>4, <1>5, Untouched, NoneAssumption DEF Live
<1>7. \A k \in Handlers : LockSpared(k)
  BY <1>3, <1>6 DEF LockSpared, LockedPersons, Live
<1> QED
  BY <1>3, <1>4, <1>5, <1>7, PlainStep

\* One row rewritten, and nothing else.
LEMMA RowStep ==
  ASSUME Inv, NEW i \in DOMAIN grants, NEW new \in Grant, SameGrant(grants[i], new),
         grants' = [grants EXCEPT ![i] = new], todo' \subseteq todo,
         people' = people, departments' = departments, members' = members,
         handlers' = handlers, outdated' = outdated
  PROVE  Inv'
<1>1. /\ DOMAIN grants' = DOMAIN grants /\ grants' = [j \in DOMAIN grants |-> grants'[j]]
      /\ \A j \in DOMAIN grants : grants'[j] = IF j = i THEN new ELSE grants[j]
  BY Typed DEF Inv
<1>2. \A j \in DOMAIN grants : grants'[j] \in Grant /\ SameGrant(grants[j], grants'[j])
  BY <1>1, Rows, SameRow, Typed DEF Inv
<1>3. grants' \in Seq(Grant)
  BY <1>1, <1>2, RowsWritten, Typed DEF Inv
<1>4. Rewritten(grants, grants', {i}, None)
  BY <1>1, <1>2, <1>3 DEF Rewritten
<1>5. \A q \in Persons : Spared(q)
  BY <1>4, Untouched, NoneAssumption DEF Live
<1>6. \A k \in Handlers : LockSpared(k)
  BY <1>5 DEF LockSpared, LockedPersons, Live
<1> QED
  BY <1>4, <1>6, PlainStep, Typed DEF Inv

\* What may change in one row.
LEMMA RowKept ==
  ASSUME NEW g \in Grant, NEW ended \in BOOLEAN, NEW begun \in BOOLEAN,
         NEW date \in {"open", "dated", "over"}, NEW review \in {"none", "flagged", "due"}
  PROVE  /\ ended => /\ [g EXCEPT !.ended = ended] \in Grant
                     /\ SameGrant(g, [g EXCEPT !.ended = ended])
         /\ begun /\ ~g.begun => /\ [g EXCEPT !.begun = begun] \in Grant
                                 /\ SameGrant(g, [g EXCEPT !.begun = begun])
         /\ date = "over" \/ g.date # "over" =>
              /\ [g EXCEPT !.date = date] \in Grant
              /\ SameGrant(g, [g EXCEPT !.date = date])
         /\ /\ [g EXCEPT !.review = review] \in Grant
            /\ SameGrant(g, [g EXCEPT !.review = review])
<1>1. g \in GrantRows /\ (g.late \/ g.begun)
  BY DEF Grant
<1>2. ended => /\ [g EXCEPT !.ended = ended] \in Grant
               /\ SameGrant(g, [g EXCEPT !.ended = ended])
  BY <1>1 DEF Grant, GrantRows, SameGrant, Active
<1>3. begun /\ ~g.begun => /\ [g EXCEPT !.begun = begun] \in Grant
                          /\ SameGrant(g, [g EXCEPT !.begun = begun])
  BY <1>1 DEF Grant, GrantRows, SameGrant, Active
<1>4. date = "over" \/ g.date # "over" => /\ [g EXCEPT !.date = date] \in Grant
                                         /\ SameGrant(g, [g EXCEPT !.date = date])
  BY <1>1 DEF Grant, GrantRows, SameGrant, Active
<1>5. /\ [g EXCEPT !.review = review] \in Grant
      /\ SameGrant(g, [g EXCEPT !.review = review])
  BY <1>1 DEF Grant, GrantRows, SameGrant, Active
<1> QED
  BY <1>2, <1>3, <1>4, <1>5

LEMMA ChangeStep ==
  ASSUME Inv, NEW r \in todo, Change(r), todo' = todo \ {r}, handlers' = handlers,
         outdated' = outdated
  PROVE  Inv'
<1>1. PICK i \in DOMAIN grants :
        /\ grants[i].date # "over"
        /\ \/ grants' = [grants EXCEPT ![i].ended = TRUE]
           \/ \E date \in {"open", "dated"} : grants' = [grants EXCEPT ![i].date = date]
           \/ grants' = [grants EXCEPT ![i].review = "none"]
  BY DEF Change
<1>2. /\ people' = people /\ departments' = departments /\ members' = members
      /\ grants[i] \in Grant /\ grants \in Seq(Grant)
  BY Rows, Typed DEF Inv, Change
<1> DEFINE Writes(new) == grants' = [grants EXCEPT ![i] = new]
           yes == TRUE
           none == "none"
<1>3. /\ yes \in BOOLEAN /\ yes /\ none \in {"none", "flagged", "due"}
      /\ \/ Writes([grants[i] EXCEPT !.ended = yes])
         \/ \E date \in {"open", "dated"} : Writes([grants[i] EXCEPT !.date = date])
         \/ Writes([grants[i] EXCEPT !.review = none])
  BY <1>1, <1>2
<1> HIDE DEF Writes, yes, none
<1>4. \E new \in Grant : SameGrant(grants[i], new) /\ Writes(new)
  BY <1>1, <1>2, <1>3, RowKept
<1> QED
  BY <1>2, <1>4, RowStep DEF Writes

LEMMA TimeStep ==
  ASSUME Inv, Time
  PROVE  Inv'
<1>1. PICK i \in DOMAIN grants :
        \/ ~grants[i].begun /\ grants' = [grants EXCEPT ![i].begun = TRUE]
        \/ grants' = [grants EXCEPT ![i].date = "over"]
        \/ grants' = [grants EXCEPT ![i].review = "due"]
  BY DEF Time
<1>2. /\ people' = people /\ departments' = departments /\ members' = members
      /\ handlers' = handlers /\ todo' \subseteq todo /\ outdated' = outdated
      /\ grants[i] \in Grant /\ grants \in Seq(Grant)
  BY Rows, Typed DEF Inv, Time
<1> DEFINE Writes(new) == grants' = [grants EXCEPT ![i] = new]
           yes == TRUE
           over == "over"
           due == "due"
<1>3. /\ yes \in BOOLEAN /\ yes /\ due \in {"none", "flagged", "due"} /\ over = "over"
      /\ \/ ~grants[i].begun /\ Writes([grants[i] EXCEPT !.begun = yes])
         \/ Writes([grants[i] EXCEPT !.date = over])
         \/ Writes([grants[i] EXCEPT !.review = due])
  BY <1>1, <1>2
<1> HIDE DEF Writes, yes, over, due
<1>4. \E new \in Grant : SameGrant(grants[i], new) /\ Writes(new)
  BY <1>1, <1>2, <1>3, RowKept
<1> QED
  BY <1>2, <1>4, RowStep DEF Writes

LEMMA AbortStep ==
  ASSUME Inv, NEW h \in Handlers, Abort(h)
  PROVE  Inv'
<1>1. /\ handlers' = [handlers EXCEPT ![h] = Idle] /\ Idle \in Handler /\ ~Idle.busy
      /\ people' = people /\ departments' = departments /\ members' = members
      /\ grants' = grants /\ todo' = todo /\ outdated' = outdated
  BY IdleTyped DEF Abort
<1>2. /\ handlers' \in [Handlers -> Handler] /\ handlers'[h] = Idle
      /\ \A k \in Handlers \ {h} : handlers'[k] = handlers[k]
  BY <1>1, Typed DEF Inv
<1>3. Rewritten(grants, grants', {}, None)
  BY <1>1, NothingRewritten, Typed DEF Inv
<1>4. \A k \in Handlers : LockSpared(k)
  BY <1>1 DEF LockSpared, Spared, Live
<1>5. TypeOK'
  BY <1>1, <1>2 DEF Inv, TypeInv, TypeOK
<1>6. ASSUME NEW k \in Handlers
      PROVE  SawOK(k)'
  <2>1. CASE k = h
    BY <1>2, <2>1, IdleTyped DEF SawOK, Lists, Of, SeenBy, Leaving
  <2>2. CASE k # h
    BY <1>1, <1>2, <2>2 DEF Inv, TypeInv, SawOK, Lists, Of, SeenBy
  <2> QED
    BY <2>1, <2>2
<1>7. Fresh'
  BY <1>1, <1>2, <1>3, <1>4, FreshStays DEF Rewritten
<1> QED
  BY <1>5, <1>6, <1>7 DEF Inv, TypeInv

\* What is asked is typed, sees its person as they are, and is alone with what it locks.
LEMMA AskStep ==
  ASSUME Inv, NEW h \in Handlers, Ask(h)
  PROVE  Inv'
<1>1. PICK r \in todo :
        /\ PersonFacts(r) /\ DepartmentFacts(r)
        /\ r.op \in Locking => FreePerson(h, r.person)
        /\ r.op \in Editing => FreeDepartment(h, r.dept)
        /\ handlers' = [handlers EXCEPT ![h] = [busy |-> TRUE, request |-> r, saw |-> Saw(r)]]
        /\ todo' = todo \ {r}
  BY DEF Ask
<1>2. /\ people' = people /\ departments' = departments /\ members' = members
      /\ grants' = grants /\ outdated' = outdated
  BY DEF Ask
<1> DEFINE saw == Saw(r)
           yes == TRUE
           new == [busy |-> yes, request |-> r, saw |-> saw]
<1>3. /\ r \in Request /\ Lists(r, grants, saw.grants)
      /\ (r.op \notin Leaving => saw.heads = {}) /\ saw.grants = Listed(r)
      /\ saw \in [grants : SUBSET Nat, heads : SUBSET Departments, member : BOOLEAN,
                  addon : BOOLEAN]
  BY SawTyped, Typed DEF Inv
<1>4. handlers' = [handlers EXCEPT ![h] = new] /\ yes \in BOOLEAN
  BY <1>1
<1> HIDE DEF saw, yes
<1>5. new \in Handler /\ new.request = r /\ new.saw = saw
  BY <1>3, <1>4 DEF Handler
<1> HIDE DEF new
<1>6. /\ handlers' \in [Handlers -> Handler] /\ Of(h)' = r /\ SeenBy(h)' = saw
      /\ \A k \in Handlers \ {h} : handlers'[k] = handlers[k]
  BY <1>4, <1>5, Typed DEF Inv, Of, SeenBy
<1>7. TypeOK'
  BY <1>1, <1>2, <1>6 DEF Inv, TypeInv, TypeOK
<1>8. ASSUME NEW k \in Handlers
      PROVE  SawOK(k)'
  <2>1. CASE k = h
    BY <1>2, <1>3, <1>6, <2>1 DEF SawOK
  <2>2. CASE k # h
    BY <1>2, <1>6, <2>2 DEF Inv, TypeInv, SawOK, Lists, Of, SeenBy
  <2> QED
    BY <2>1, <2>2
<1>9. /\ \A k \in Handlers \ {h} : LockedPersons(k)' = LockedPersons(k)
                                /\ LockedDepartments(k)' = LockedDepartments(k)
      /\ LockedPersons(h)' \subseteq {p \in Persons : r.op \in Locking /\ r.person = p}
      /\ LockedDepartments(h)' \subseteq {d \in Departments : r.op \in Editing /\ r.dept = d}
  BY <1>6 DEF LockedPersons, LockedDepartments, Of
<1>10. PersonFacts(r)' /\ Listed(r)' = saw.grants /\ Saw(r)' = saw
  BY <1>1, <1>2, <1>3 DEF PersonFacts, Staff, Gone, Listed, Held, HeldAs, Saw, HeadedBy, Live,
                          saw
<1>11. Stands(h)'
  <2>1. PersonFacts(Of(h))' /\ Listed(Of(h))' = saw.grants /\ Saw(Of(h))' = saw
    BY <1>6, <1>10 DEF PersonFacts, Staff, Gone, Listed, Held, HeldAs, Saw, HeadedBy, Live
  <2> QED
    BY <1>6, <2>1 DEF Stands
<1>12. /\ r.op \in Locking => FreePerson(h, Of(h).person)'
       /\ r.op \in Editing => FreeDepartment(h, Of(h).dept)'
       /\ r.op = "edit" => Live(Of(h).dept)'
  BY <1>1, <1>2, <1>6, <1>9 DEF FreePerson, FreeDepartment, Live, DepartmentFacts
<1>13. ASSUME NEW k \in Handlers \ {h}, handlers'[k].busy
       PROVE  /\ Of(k)'.op \in Locking => FreePerson(k, Of(k).person)'
              /\ Of(k)'.op \in Locking \ RoleChange => Stands(k)'
              /\ Of(k)'.op \in Editing => FreeDepartment(k, Of(k).dept)'
              /\ Of(k)'.op = "edit" => Live(Of(k).dept)'
  <2>1. /\ Of(k)' = Of(k) /\ SeenBy(k)' = SeenBy(k) /\ handlers[k].busy
    BY <1>6, <1>13 DEF Of, SeenBy
  <2>2. /\ Of(k).op \in Locking \ RoleChange => Stands(k)
        /\ Of(k).op \in Locking => /\ FreePerson(k, Of(k).person)
                                   /\ Of(k).person \in LockedPersons(k)
        /\ Of(k).op \in Editing => /\ FreeDepartment(k, Of(k).dept)
                                   /\ Of(k).dept \in LockedDepartments(k)
        /\ Of(k).op = "edit" => Live(Of(k).dept)
    BY <2>1, OwnPerson, Typed DEF Inv, Fresh, LockedPersons, LockedDepartments, Request, Locking,
                                  Editing
  <2>3. ASSUME Of(k).op \in Locking
        PROVE  /\ FreePerson(k, Of(k).person)'
               /\ Of(k).op \notin RoleChange => Stands(k)'
    <3>1. Of(k).op \notin RoleChange => Stands(k)'
      BY <1>2, <2>1, <2>2, <2>3 DEF Stands, PersonFacts, Staff, Gone, Listed, Held, HeldAs, Saw,
                                    HeadedBy, Live
    <3> QED
      BY <1>1, <1>9, <2>1, <2>2, <2>3, <3>1 DEF FreePerson
  <2>4. ASSUME Of(k).op \in Editing
        PROVE  FreeDepartment(k, Of(k).dept)'
    BY <1>1, <1>9, <2>1, <2>2, <2>4 DEF FreeDepartment
  <2> QED
    BY <1>2, <2>1, <2>2, <2>3, <2>4 DEF Live
<1>14. Fresh'
  BY <1>6, <1>11, <1>12, <1>13 DEF Fresh
<1> QED
  BY <1>7, <1>8, <1>14 DEF Inv, TypeInv

\* A change of role that takes its person's row, or has nothing to change.
LEMMA RightsLocked ==
  ASSUME Inv, NEW h \in Handlers, LockRights(h)
  PROVE  /\ people' = people /\ departments' = departments /\ members' = members
         /\ grants' = grants /\ todo' = todo /\ outdated' = outdated
         /\ handlers' \in [Handlers -> Handler]
         /\ \A k \in Handlers \ {h} : handlers'[k] = handlers[k]
         /\ Of(h).op = "role" /\ Of(h).person \in Persons /\ FreePerson(h, Of(h).person)
         /\ \/ handlers'[h] = Idle
            \/ /\ Of(h)'.op = "assign" /\ Of(h)'.person = Of(h).person
               /\ SeenBy(h)' = SeenBy(h)
<1> DEFINE assign == "assign"
           r == Of(h)
           asked == [r EXCEPT !.op = assign]
           locked == [handlers[h] EXCEPT !.request = asked]
<1>1. /\ people' = people /\ departments' = departments /\ members' = members
      /\ grants' = grants /\ todo' = todo /\ outdated' = outdated
      /\ r.op = "role" /\ FreePerson(h, r.person) /\ Idle \in Handler
      /\ \/ handlers' = [handlers EXCEPT ![h] = Idle]
         \/ handlers' = [handlers EXCEPT ![h].request.op = "assign"]
  BY IdleTyped DEF LockRights
<1>2. /\ r \in Request /\ r.person \in Persons /\ r.role \in BaseRoles
      /\ handlers \in [Handlers -> Handler]
  BY <1>1, OwnPerson, Typed DEF Inv, RoleChange
<1>3. /\ assign \in Ops /\ assign \in RoleChange /\ assign = "assign"
      /\ assign \notin {"create", "edit", "move", "archive", "place", "profile", "join", "grant"}
  BY DEF Ops, RoleChange
<1>4. [handlers EXCEPT ![h].request.op = "assign"] = [handlers EXCEPT ![h] = locked]
  BY <1>2 DEF Of
<1> HIDE DEF assign
<1>5. asked \in Requests /\ asked.op = assign /\ asked.person = r.person /\ asked.role = r.role
  BY <1>2, <1>3 DEF Request, Requests
<1>6. asked \in Request
  BY <1>2, <1>3, <1>5 DEF Request
<1> HIDE DEF asked
<1>7. locked \in Handler /\ locked.request = asked /\ locked.saw = SeenBy(h)
  BY <1>2, <1>6 DEF Handler, SeenBy
<1> HIDE DEF locked
<1>8. /\ handlers' \in [Handlers -> Handler]
      /\ \A k \in Handlers \ {h} : handlers'[k] = handlers[k]
      /\ handlers'[h] \in {Idle, locked}
  BY <1>1, <1>2, <1>4, <1>7
<1>9. handlers'[h] = locked => /\ Of(h)'.op = "assign" /\ Of(h)'.person = Of(h).person
                               /\ SeenBy(h)' = SeenBy(h)
  <2>1. handlers'[h] = locked => Of(h)' = asked /\ SeenBy(h)' = SeenBy(h)
    BY <1>7 DEF Of, SeenBy
  <2> QED
    BY <1>3, <1>5, <2>1
<1> QED
  BY <1>1, <1>2, <1>8, <1>9

LEMMA LockRightsStep ==
  ASSUME Inv, NEW h \in Handlers, LockRights(h)
  PROVE  Inv'
<1>1. /\ people' = people /\ departments' = departments /\ members' = members
      /\ grants' = grants /\ todo' = todo /\ outdated' = outdated
      /\ handlers' \in [Handlers -> Handler]
      /\ \A k \in Handlers \ {h} : handlers'[k] = handlers[k]
      /\ Of(h).op = "role" /\ Of(h).person \in Persons /\ FreePerson(h, Of(h).person)
      /\ \/ handlers'[h] = Idle
         \/ /\ Of(h)'.op = "assign" /\ Of(h)'.person = Of(h).person
            /\ SeenBy(h)' = SeenBy(h)
  BY RightsLocked
<1>2. TypeOK'
  BY <1>1 DEF Inv, TypeInv, TypeOK
<1>3. ASSUME NEW k \in Handlers
      PROVE  SawOK(k)'
  <2>1. CASE k # h
    BY <1>1, <2>1 DEF Inv, TypeInv, SawOK, Lists, Of, SeenBy
  <2>2. CASE k = h /\ handlers'[h] = Idle
    BY <2>2, IdleTyped DEF SawOK, Lists, Of, SeenBy, Leaving
  <2>3. CASE k = h /\ Of(h)'.op = "assign" /\ SeenBy(h)' = SeenBy(h)
    <3>1. /\ SawOK(h) /\ "assign" \notin Leaving \union {"remove"}
          /\ Of(h).op \notin Leaving
      BY <1>1 DEF Inv, TypeInv, Leaving
    <3>2. SeenBy(h).heads = {} /\ SeenBy(h).grants \subseteq DOMAIN grants
      BY <3>1 DEF SawOK, Lists
    <3>3. SawOK(h)'
      BY <1>1, <2>3, <3>1, <3>2 DEF SawOK, Lists
    <3> QED
      BY <2>3, <3>3
  <2> QED
    BY <1>1, <2>1, <2>2, <2>3
<1>4. /\ \A k \in Handlers \ {h} : /\ LockedPersons(k)' = LockedPersons(k)
                                  /\ LockedDepartments(k)' = LockedDepartments(k)
      /\ LockedPersons(h)' \subseteq {Of(h).person} /\ LockedDepartments(h)' = {}
  BY <1>1, IdleTyped DEF LockedPersons, LockedDepartments, Of, Editing
<1>5. ASSUME NEW k \in Handlers \ {h}, handlers'[k].busy
      PROVE  /\ Of(k)'.op \in Locking => FreePerson(k, Of(k).person)'
             /\ Of(k)'.op \in Locking \ RoleChange => Stands(k)'
             /\ Of(k)'.op \in Editing => FreeDepartment(k, Of(k).dept)'
             /\ Of(k)'.op = "edit" => Live(Of(k).dept)'
  <2>1. /\ Of(k)' = Of(k) /\ SeenBy(k)' = SeenBy(k) /\ handlers[k].busy
    BY <1>1, <1>5 DEF Of, SeenBy
  <2>2. /\ Of(k).op \in Locking \ RoleChange => Stands(k)
        /\ Of(k).op \in Locking => FreePerson(k, Of(k).person)
        /\ Of(k).op \in Editing => FreeDepartment(k, Of(k).dept)
        /\ Of(k).op = "edit" => Live(Of(k).dept)
    BY <2>1 DEF Inv, Fresh
  <2>3. Of(k).op \in Locking => Of(k).person # Of(h).person
    <3>1. Of(k).op \in Locking => Of(k).person \in Persons
      BY Typed DEF Inv, Request
    <3>2. Of(k).op \in Locking => Of(k).person \in LockedPersons(k)
      BY <2>1, <3>1 DEF LockedPersons
    <3> QED
      BY <1>1, <3>2 DEF FreePerson
  <2>4. Of(k).op \in Locking => FreePerson(k, Of(k).person)'
    BY <1>4, <2>1, <2>2, <2>3 DEF FreePerson
  <2>5. Of(k).op \in Locking \ RoleChange => Stands(k)'
    BY <1>1, <2>1, <2>2 DEF Stands, PersonFacts, Staff, Gone, Listed, Held, HeldAs, Saw,
                            HeadedBy, Live
  <2>6. Of(k).op \in Editing => FreeDepartment(k, Of(k).dept)'
    BY <1>4, <2>1, <2>2 DEF FreeDepartment
  <2> QED
    BY <1>1, <2>1, <2>2, <2>4, <2>5, <2>6 DEF Live
<1>6. handlers'[h].busy => Of(h)'.op = "assign" /\ FreePerson(h, Of(h).person)'
  <2>1. handlers'[h].busy => Of(h)'.op = "assign" /\ Of(h)'.person = Of(h).person
    BY <1>1, IdleTyped
  <2>2. \A k \in Handlers \ {h} : Of(h).person \notin LockedPersons(k)
    BY <1>1 DEF FreePerson
  <2> QED
    BY <1>4, <2>1, <2>2 DEF FreePerson
<1>7. "assign" \in RoleChange /\ "assign" \notin Editing
  BY DEF RoleChange, Editing
<1>8. Fresh'
  BY <1>5, <1>6, <1>7 DEF Fresh
<1> QED
  BY <1>2, <1>3, <1>8 DEF Inv, TypeInv

-----------------------------------------------------------------------------
(* What the invariant is for *)

\* `outdated` only grows, by what a commit does not match.
LEMMA OutdatedGrows ==
  ASSUME [Next]_vars
  PROVE  /\ outdated \subseteq outdated'
         /\ outdated' # outdated =>
              \E h \in Handlers : handlers[h].busy /\ outdated' = outdated \union Mismatch(h)
<1>1. ASSUME NEW h \in Handlers, NEW op, Commits(h, op)
      PROVE  handlers[h].busy /\ outdated' = outdated \union Mismatch(h)
  BY <1>1 DEF Commits
<1>2. ASSUME NEW h \in Handlers,
             \/ Create(h) \/ Edit(h) \/ Move(h) \/ Archive(h) \/ Place(h)
             \/ AddMember(h) \/ RemoveMember(h)
             \/ Give(h) \/ Suspend(h) \/ Reactivate(h) \/ Leave(h) \/ Assign(h) \/ Sweep(h)
      PROVE  handlers[h].busy /\ outdated' = outdated \union Mismatch(h)
  BY <1>1, <1>2 DEF Create, Edit, Move, Archive, Place, AddMember, RemoveMember, Give, Suspend,
                    Reactivate, Leave, Assign, Sweep
<1>3. ASSUME NEW h \in Handlers, Ask(h) \/ LockRights(h) \/ Abort(h)
      PROVE  outdated' = outdated
  BY <1>3 DEF Ask, LockRights, Abort
<1>4. CASE Act \/ Time \/ UNCHANGED vars
  BY <1>4 DEF Act, Time, vars
<1> QED
  BY <1>2, <1>3, <1>4 DEF Next

LEMMA FreshNext ==
  Inv /\ LocksKeepFactsFresh /\ [Next]_vars => LocksKeepFactsFresh'
<1> SUFFICES ASSUME Inv, LocksKeepFactsFresh, [Next]_vars
             PROVE  LocksKeepFactsFresh'
  OBVIOUS
<1>1. CASE outdated' = outdated
  BY <1>1 DEF LocksKeepFactsFresh
<1>2. CASE outdated' # outdated
  <2>1. PICK h \in Handlers : handlers[h].busy /\ outdated' = outdated \union Mismatch(h)
    BY <1>2, OutdatedGrows
  <2> QED
    BY <2>1, MismatchFresh DEF LocksKeepFactsFresh
<1> QED
  BY <1>1, <1>2

\* An admin remains after a step that touches one person who is not the last.
LEMMA AdminsStay ==
  ASSUME Admins # {}, NEW p, \A q \in Persons \ {p} : people'[q] = people[q], NotLastAdmin(p)
  PROVE  Admins' # {}
<1>1. CASE Admins \ {p} # {}
  BY <1>1 DEF Admins
<1>2. CASE Admins \ {p} = {}
  <2>1. p \in Admins
    BY <1>2
  <2> QED
    BY <1>2, <2>1 DEF Admins, NotLastAdmin
<1> QED
  BY <1>1, <1>2

\* So it does if nobody loses what makes an admin.
LEMMA AdminsGrow ==
  ASSUME Admins # {},
         \A q \in Persons : /\ people'[q].role = people[q].role
                            /\ people[q].active => people'[q].active
  PROVE  Admins' # {}
BY DEF Admins

\* Whoever suspends or demotes somebody, or has them leave, answers for it to the last admin.
LEMMA LastAdminMarked ==
  ASSUME Inv, NEW h \in Handlers, NEW op, Commits(h, op), Demotes(Of(h)),
         \A q \in Persons \ {Of(h).person} : people'[q] = people[q], Admins # {}
  PROVE  Admins' # {} \/ Excused("admins")'
<1>1. CASE NotLastAdmin(Of(h).person)
  BY <1>1, AdminsStay
<1>2. CASE ~NotLastAdmin(Of(h).person)
  <2>1. Of(h).op = op /\ op # "sweep" /\ op \in Ops /\ outdated' = outdated \union Mismatch(h)
    BY DEF Commits, Demotes, Leaving, Ops, Locking
  <2>2. <<op, "admins">> \in Mismatch(h)
    BY <1>2, <2>1 DEF Mismatch
  <2> QED
    BY <2>1, <2>2 DEF Excused
<1> QED
  BY <1>1, <1>2

LEMMA AdminNext == Inv /\ AnAdminRemains /\ [Next]_vars => AnAdminRemains'
<1> SUFFICES ASSUME Inv, AnAdminRemains, [Next]_vars
             PROVE  AnAdminRemains'
  OBVIOUS
<1>1. CASE Excused("admins")
  BY <1>1, OutdatedGrows DEF Excused, AnAdminRemains
<1>2. CASE Admins # {}
  <2>1. CASE people' = people
    BY <1>2, <2>1 DEF Admins, AnAdminRemains
  <2>2. ASSUME NEW h \in Handlers, Place(h)
        PROVE  Admins' # {}
    BY <1>2, <2>2, AdminsGrow, OwnPerson, Typed DEF Inv, Place, Commits, Person
  <2>3. ASSUME NEW h \in Handlers, Suspend(h)
        PROVE  AnAdminRemains'
    <3> DEFINE no == FALSE
               statuses == {"suspended"}
    <3>1. /\ Commits(h, "suspend") /\ SetStatus(Of(h).person, statuses, no)
          /\ Demotes(Of(h))
      BY <2>3 DEF Suspend, Commits, Demotes
    <3>2. Of(h).person \in Persons /\ no \in BOOLEAN /\ statuses \in SUBSET Statuses
      BY <3>1, OwnPerson DEF Commits, Statuses
    <3> HIDE DEF no, statuses
    <3>3. \A q \in Persons \ {Of(h).person} : people'[q] = people[q]
      <4>1. SetStatus(Of(h).person, statuses, no)
        BY <3>1
      <4> QED
        BY <3>2, <4>1, StatusSet
    <3> QED
      BY <1>2, <3>1, <3>3, LastAdminMarked DEF AnAdminRemains
  <2>4. ASSUME NEW h \in Handlers, Leave(h)
        PROVE  AnAdminRemains'
    <3> DEFINE no == FALSE
               statuses == {"deactivated"}
    <3>1. /\ \E op \in Leaving : Commits(h, op)
          /\ SetStatus(Of(h).person, statuses, no) /\ Demotes(Of(h))
      BY <2>4 DEF Leave, Commits, Demotes
    <3>2. Of(h).person \in Persons /\ no \in BOOLEAN /\ statuses \in SUBSET Statuses
      BY <3>1, OwnPerson DEF Commits, Leaving, Statuses
    <3> HIDE DEF no, statuses
    <3>3. \A q \in Persons \ {Of(h).person} : people'[q] = people[q]
      <4>1. SetStatus(Of(h).person, statuses, no)
        BY <3>1
      <4> QED
        BY <3>2, <4>1, StatusSet
    <3> QED
      BY <1>2, <3>1, <3>3, LastAdminMarked DEF AnAdminRemains
  <2>5. ASSUME NEW p \in Persons, NEW statuses \in SUBSET Statuses, NEW yes \in BOOLEAN, yes,
               SetStatus(p, statuses, yes)
        PROVE  Admins' # {}
    <3>1. /\ \A q \in Persons \ {p} : people'[q] = people[q]
          /\ people'[p].role = people[p].role /\ people'[p].active = yes
      BY <2>5, StatusSet
    <3> QED
      BY <1>2, <2>5, <3>1, AdminsGrow
  <2>6. ASSUME NEW h \in Handlers, Reactivate(h)
        PROVE  Admins' # {}
    <3> DEFINE yes == TRUE
               statuses == {"active", "invited"}
    <3>1. /\ Commits(h, "reactivate") /\ SetStatus(Of(h).person, statuses, yes)
          /\ yes \in BOOLEAN /\ yes /\ statuses \in SUBSET Statuses
      BY <2>6 DEF Reactivate, Statuses
    <3>2. Of(h).person \in Persons
      BY <3>1, OwnPerson DEF Commits
    <3> HIDE DEF yes, statuses
    <3> QED
      BY <2>5, <3>1, <3>2
  <2>7. ASSUME NEW r \in todo, SignIn(r)
        PROVE  Admins' # {}
    <3> DEFINE p == r.person
               yes == TRUE
               statuses == {IF people[p].status = "invited" THEN "active" ELSE people[p].status}
    <3>1. r.op = "sign-in" /\ r \in Request /\ p \in Persons /\ yes \in BOOLEAN /\ yes
      BY <2>7, Typed DEF Inv, SignIn, Request
    <3>2. statuses \in SUBSET Statuses /\ SetStatus(p, statuses, yes)
      BY <2>7, <3>1, Typed DEF Inv, Person, Statuses, SignIn
    <3> HIDE DEF yes, statuses
    <3> QED
      BY <2>5, <3>1, <3>2
  <2>8. ASSUME NEW h \in Handlers, Assign(h)
        PROVE  AnAdminRemains'
    <3>1. PICK r : r = Of(h)
      OBVIOUS
    <3>2. /\ Commits(h, "assign") /\ r.op = "assign" /\ r.person \in Persons
          /\ people' = [people EXCEPT ![r.person].role = r.role]
      BY <2>8, <3>1, OwnPerson DEF Assign, Commits
    <3>3. /\ \A q \in Persons \ {r.person} : people'[q] = people[q]
          /\ people'[r.person].role = r.role
          /\ people'[r.person].active = people[r.person].active
      BY <3>2, Typed DEF Inv, Person
    <3>4. CASE r.role = "manager"
      <4>1. Admins \subseteq Admins'
        BY <3>3, <3>4 DEF Admins
      <4> QED
        BY <1>2, <4>1 DEF AnAdminRemains
    <3>5. CASE r.role # "manager"
      <4>1. Demotes(Of(h))
        BY <3>1, <3>2, <3>5 DEF Demotes
      <4> QED
        BY <1>2, <3>1, <3>2, <3>3, <4>1, LastAdminMarked DEF AnAdminRemains
    <3> QED
      BY <3>4, <3>5
  <2>9. ASSUME NEW h \in Handlers,
               \/ Ask(h) \/ LockRights(h) \/ Abort(h)
               \/ Create(h) \/ Edit(h) \/ Move(h) \/ Archive(h)
               \/ AddMember(h) \/ RemoveMember(h) \/ Give(h) \/ Sweep(h)
        PROVE  people' = people
    BY <2>9 DEF Ask, LockRights, Abort, Create, Edit, Move, Archive, AddMember, RemoveMember,
                Give, Sweep
  <2>10. CASE Act
    BY <2>1, <2>7, <2>10 DEF Act, Change, AnAdminRemains
  <2>11. CASE Time \/ UNCHANGED vars
    BY <2>1, <2>11 DEF Time, vars
  <2> QED
    BY <2>1, <2>2, <2>3, <2>4, <2>6, <2>8, <2>9, <2>10, <2>11 DEF Next, AnAdminRemains
<1> QED
  BY <1>1, <1>2 DEF AnAdminRemains

\* What GrantsEndForAReason says of a step.
Reasoned ==
  \A i \in DOMAIN grants :
    /\ i \in DOMAIN grants' /\ grants'[i].person = grants[i].person
    /\ IF grants[i].ended THEN grants'[i].ended ELSE ~grants'[i].ended \/ Reason(i)

LEMMA RewrittenReasoned ==
  ASSUME NEW which, NEW p, Rewritten(grants, grants', which, p),
         \A i \in DOMAIN grants : i \in which /\ ~grants[i].ended => Reason(i)
  PROVE  Reasoned
BY DEF Rewritten, SameGrant, Reasoned

LEMMA NoneEnded ==
  ASSUME NEW p, Rewritten(grants, grants', {}, p)
  PROVE  Reasoned
BY RewrittenReasoned

LEMMA HeadReasoned ==
  ASSUME Inv, NEW h \in Handlers, Create(h) \/ Edit(h)
  PROVE  Reasoned
<1> DEFINE r == Of(h)
           which == {i \in HeadsOf(r.dept) : grants[i].person # r.person}
<1>1. /\ \E op \in {"create", "edit"} : Commits(h, op)
      /\ grants' = HeadGiven(r.dept, r.person)
  BY DEF Create, Edit
<1>2. r.dept \in Departments /\ r.person \in Somebody
  BY <1>1, OwnPerson, Typed DEF Commits, Inv
<1>3. departments'[r.dept].head = r.person
  BY <1>2, Typed DEF Inv, Create, Edit, Department
<1>4. Rewritten(grants, grants', which, r.person)
  BY <1>1, <1>2, HeadGivenRewrites, Typed DEF Inv
<1>5. \A i \in which : /\ grants[i].at = r.dept /\ grants[i].role = "head"
                       /\ grants[i].person # departments'[r.dept].head
  BY <1>3 DEF HeadsOf, HeldAt
<1> HIDE DEF which
<1> QED
  BY <1>2, <1>4, <1>5, RewrittenReasoned DEF Reason

LEMMA ArchiveReasoned ==
  ASSUME Inv, NEW h \in Handlers, Archive(h)
  PROVE  Reasoned
<1> DEFINE d == Of(h).dept
<1>1. Commits(h, "archive") /\ d \in Departments /\ grants' = Ending(HeldAt(d))
  BY OwnPerson DEF Archive, Commits
<1>2. departments'[d].state = "archived"
  BY <1>1, Typed DEF Inv, Archive, Department
<1>3. Rewritten(grants, grants', HeldAt(d), None)
  BY <1>1, EndingRewrites, Typed DEF Inv
<1>4. \A i \in HeldAt(d) : Reason(i)
  BY <1>1, <1>2 DEF HeldAt, Reason
<1> QED
  BY <1>3, <1>4, RewrittenReasoned

LEMMA TeamReasoned ==
  ASSUME Inv, NEW h \in Handlers, AddMember(h) \/ RemoveMember(h)
  PROVE  Reasoned
<1> DEFINE p == Of(h).person
           which == IF AddMember(h)
                    THEN IF Of(h).role = "lead" THEN {} ELSE HeldAs(p, "lead")
                    ELSE SeenBy(h).grants
<1>1. PICK op \in {"join", "remove"} : Commits(h, op)
  BY DEF AddMember, RemoveMember
<1>2. Of(h).op = op /\ p \in Persons
  BY <1>1, OwnPerson DEF Commits
<1>3. \E q : Rewritten(grants, grants', which, q)
  <2>1. CASE AddMember(h)
    <3> DEFINE lead == Of(h).role = "lead"
    <3>1. grants' = LeadGiven(p, lead) /\ lead \in BOOLEAN
      BY <2>1 DEF AddMember
    <3>2. which = IF lead THEN {} ELSE HeldAs(p, "lead")
      BY <2>1
    <3> HIDE DEF lead, which
    <3> QED
      BY <1>2, <3>1, <3>2, LeadGivenRewrites, Typed DEF Inv
  <2>2. CASE ~AddMember(h)
    <3>1. grants' = Ending(which)
      BY <2>2 DEF RemoveMember
    <3> HIDE DEF which
    <3> QED
      BY <3>1, EndingRewrites, Typed DEF Inv
  <2> QED
    BY <2>1, <2>2
<1>4. which # {} => members'[p] # "lead"
  BY <1>2, Typed DEF Inv, AddMember, RemoveMember
<1>5. \A i \in which : grants[i].person = p /\ grants[i].role = "lead"
  <2>1. CASE AddMember(h)
    BY <2>1 DEF HeldAs, Held
  <2>2. CASE ~AddMember(h)
    <3>1. Of(h).op = "remove"
      BY <2>2 DEF RemoveMember, Commits
    <3> QED
      BY <2>2, <3>1 DEF Inv, TypeInv, SawOK, Lists
  <2> QED
    BY <2>1, <2>2
<1> HIDE DEF which
<1> QED
  BY <1>3, <1>4, <1>5, RewrittenReasoned DEF Reason

LEMMA LeaveReasoned ==
  ASSUME Inv, NEW h \in Handlers, Leave(h)
  PROVE  Reasoned
<1> DEFINE p == Of(h).person
           saw == SeenBy(h)
           which == saw.grants \union UNION {HeadsOf(d) : d \in saw.heads}
<1>1. Of(h).op \in Leaving /\ p \in Persons /\ saw.heads \subseteq Departments
  BY OwnPerson, Typed DEF Inv, Leave, Commits, Leaving
<1>2. people'[p].status = "deactivated" /\ ~people'[p].active
  <2> DEFINE no == FALSE
             statuses == {"deactivated"}
  <2>1. SetStatus(p, statuses, no)
    BY DEF Leave
  <2>2. no \in BOOLEAN /\ ~no /\ statuses \in SUBSET Statuses
    BY DEF Statuses
  <2>3. \A status \in statuses : status = "deactivated"
    OBVIOUS
  <2> HIDE DEF no, statuses
  <2> QED
    BY <1>1, <2>1, <2>2, <2>3, StatusSet
<1>3. \A d \in saw.heads : departments'[d].head = None
  BY <1>1, Typed DEF Inv, Leave, Department
<1>4. Rewritten(grants, grants', which, None)
  BY EndingRewrites, Typed DEF Inv, Leave
<1>5. ASSUME NEW i \in DOMAIN grants, i \in which
      PROVE  Reason(i)
  <2>1. CASE i \in saw.grants
    <3>1. grants[i].person = p
      BY <1>1, <2>1 DEF Inv, TypeInv, SawOK, Lists
    <3>2. grants'[i].person = p
      BY <1>4, <3>1 DEF Rewritten, SameGrant
    <3> QED
      BY <1>2, <3>1, <3>2 DEF Reason, Gone
  <2>2. CASE i \notin saw.grants
    <3>1. PICK d \in saw.heads : i \in HeadsOf(d)
      BY <1>5, <2>2
    <3>2. /\ grants[i].at = d /\ d \in Departments /\ grants[i].role = "head"
          /\ grants[i].person # None
      BY <1>1, <3>1, Rows, Typed, NoneAssumption DEF Inv, HeadsOf, HeldAt, GrantRows
    <3> QED
      BY <1>3, <3>1, <3>2 DEF Reason
  <2> QED
    BY <2>1, <2>2
<1> HIDE DEF which
<1> QED
  BY <1>4, <1>5, RewrittenReasoned

\* What a change of role ends, it drops with the role.
LEMMA AssignReasoned ==
  ASSUME Inv, NEW h \in Handlers, Assign(h)
  PROVE  Reasoned
<1> DEFINE r == Of(h)
           p == r.person
           addons == HeldAs(p, "addon")
           toEmployee == r.role = "employee"
           kept == SeenBy(h).addon
           g == Given(p, "addon", None, FALSE)
           all == Held(p) \ HeldAs(p, "head")
<1>1. p \in Persons /\ r.role \in BaseRoles
  BY OwnPerson DEF Assign, Commits, RoleChange
<1>2. RoleCommits(h, p)
  BY Typed DEF Inv, Assign, Commits, RoleCommits
<1>3. grants' = IF toEmployee THEN Ending(all) ELSE IF ~kept THEN Ending(addons)
                ELSE IF addons # {} THEN grants ELSE Append(grants, g)
  BY DEF Assign
<1>4. g \in Grant /\ g.person = p
  BY <1>1, GivenRow DEF Somewhere, GrantedRoles
<1>5. /\ \A i \in all : grants[i].person = p /\ (toEmployee => Drops(h, grants[i].role))
      /\ \A i \in addons : grants[i].person = p /\ (~kept => Drops(h, grants[i].role))
  BY DEF Held, HeldAs, Drops
<1> HIDE DEF g, addons, all, kept, toEmployee
<1>6. Rewritten(grants, grants, {}, p)
  BY NothingRewritten, Typed DEF Inv
<1>7. Rewritten(grants, Append(grants, g), {}, p)
  BY <1>4, <1>6, AppendRewrites, Typed DEF Inv
<1>8. \E which : /\ Rewritten(grants, grants', which, p)
                 /\ \A i \in which : grants[i].person = p /\ Drops(h, grants[i].role)
  <2>1. CASE toEmployee
    <3>1. Rewritten(grants, grants', all, p)
      BY <1>3, <2>1, EndingRewrites, Typed DEF Inv
    <3> QED
      BY <1>5, <2>1, <3>1
  <2>2. CASE ~toEmployee /\ ~kept
    <3>1. Rewritten(grants, grants', addons, p)
      BY <1>3, <2>2, EndingRewrites, Typed DEF Inv
    <3> QED
      BY <1>5, <2>2, <3>1
  <2>3. CASE ~toEmployee /\ kept
    <3>1. Rewritten(grants, grants', {}, p)
      BY <1>3, <1>6, <1>7, <2>3
    <3> QED
      BY <3>1
  <2> QED
    BY <2>1, <2>2, <2>3
<1>9. PICK which : /\ Rewritten(grants, grants', which, p)
                   /\ \A i \in which : grants[i].person = p /\ Drops(h, grants[i].role)
  BY <1>8
<1>10. \A i \in which : Reason(i)
  BY <1>2, <1>9 DEF Reason
<1> QED
  BY <1>9, <1>10, RewrittenReasoned

\* A row the sweep listed is due, has ended, or is one it should not have listed.
LEMMA SweepReasoned ==
  ASSUME Inv, NEW h \in Handlers, Sweep(h)
  PROVE  Reasoned
<1> DEFINE saw == SeenBy(h)
<1>1. /\ Of(h).op = "sweep" /\ outdated' = outdated \union Mismatch(h)
      /\ grants' = Ending(saw.grants) /\ Of(h) \in Request
  BY Typed DEF Inv, Sweep, Commits
<1>2. Rewritten(grants, grants', saw.grants, None)
  BY <1>1, EndingRewrites, Typed DEF Inv
<1>3. ASSUME NEW i \in saw.grants, ~grants[i].ended
      PROVE  Reason(i)
  <2>1. CASE i \in Saw(Of(h)).grants
    <3>1. i \in Listed(Of(h))
      BY <1>1, <2>1, SawTyped DEF Inv
    <3>2. grants[i].date = "over" \/ grants[i].review = "due"
      BY <1>1, <3>1 DEF Listed, Leaving
    <3> QED
      BY <3>2 DEF Reason
  <2>2. CASE i \notin Saw(Of(h)).grants
    <3>1. <<"sweep", grants[i].person>> \in Mismatch(h)
      BY <1>1, <1>3, <2>2 DEF Mismatch
    <3> QED
      BY <1>1, <3>1 DEF Reason
  <2> QED
    BY <2>1, <2>2
<1> QED
  BY <1>2, <1>3, RewrittenReasoned

LEMMA ChangeReasoned ==
  ASSUME Inv, NEW r \in todo, Change(r), todo' = todo \ {r}
  PROVE  Reasoned
<1>1. PICK i \in DOMAIN grants :
        \/ r.op = "end" /\ grants' = [grants EXCEPT ![i].ended = TRUE]
        \/ \E date \in {"open", "dated"} : grants' = [grants EXCEPT ![i].date = date]
        \/ grants' = [grants EXCEPT ![i].review = "none"]
  BY DEF Change
<1>2. grants[i] \in GrantRows /\ grants \in Seq(Grant)
  BY Rows, Typed DEF Inv
<1> DEFINE Writes(new) == grants' = [grants EXCEPT ![i] = new]
           yes == TRUE
           none == "none"
<1>3. /\ yes
      /\ \/ r.op = "end" /\ Writes([grants[i] EXCEPT !.ended = yes])
         \/ \E date \in {"open", "dated"} : Writes([grants[i] EXCEPT !.date = date])
         \/ Writes([grants[i] EXCEPT !.review = none])
  BY <1>1, <1>2
<1> HIDE DEF Writes, yes, none
<1>4. \E new : /\ Writes(new) /\ new.person = grants[i].person
               /\ (r.op = "end" /\ new.ended) \/ new.ended = grants[i].ended
  BY <1>2, <1>3 DEF GrantRows
<1>5. \A j \in DOMAIN grants :
        /\ j \in DOMAIN grants' /\ grants'[j].person = grants[j].person
        /\ (r.op = "end" /\ grants'[j].ended) \/ grants'[j].ended = grants[j].ended
  BY <1>2, <1>4 DEF Writes
<1>6. r.op = "end" => \A j \in DOMAIN grants : Reason(j)
  BY DEF Reason
<1> QED
  BY <1>5, <1>6 DEF Reasoned

LEMMA TimeReasoned ==
  ASSUME Inv, Time
  PROVE  Reasoned
<1>1. PICK i \in DOMAIN grants :
        \/ grants' = [grants EXCEPT ![i].begun = TRUE]
        \/ grants' = [grants EXCEPT ![i].date = "over"]
        \/ grants' = [grants EXCEPT ![i].review = "due"]
  BY DEF Time
<1>2. grants[i] \in GrantRows /\ grants \in Seq(Grant)
  BY Rows, Typed DEF Inv
<1> DEFINE Writes(new) == grants' = [grants EXCEPT ![i] = new]
           yes == TRUE
           over == "over"
           due == "due"
<1>3. \/ Writes([grants[i] EXCEPT !.begun = yes])
      \/ Writes([grants[i] EXCEPT !.date = over])
      \/ Writes([grants[i] EXCEPT !.review = due])
  BY <1>1, <1>2
<1> HIDE DEF Writes, yes, over, due
<1>4. \E new : /\ Writes(new) /\ new.person = grants[i].person
               /\ new.ended = grants[i].ended
  BY <1>2, <1>3 DEF GrantRows
<1>5. \A j \in DOMAIN grants :
        /\ j \in DOMAIN grants' /\ grants'[j].person = grants[j].person
        /\ grants'[j].ended = grants[j].ended
  BY <1>2, <1>4 DEF Writes
<1> QED
  BY <1>5 DEF Reasoned

LEMMA PlaceReasoned ==
  ASSUME Inv, NEW h \in Handlers, Place(h)
  PROVE  Reasoned
<1>1. grants' = [i \in DOMAIN grants |->
                   IF i \in HeldAs(Of(h).person, "custom")
                   THEN [grants[i] EXCEPT !.review = "flagged"] ELSE grants[i]]
  BY DEF Place
<1>2. \A j \in DOMAIN grants :
        /\ j \in DOMAIN grants' /\ grants'[j].person = grants[j].person
        /\ grants'[j].ended = grants[j].ended
  BY <1>1, Rows, Typed DEF Inv, GrantRows
<1> QED
  BY <1>2 DEF Reasoned

LEMMA GiveReasoned ==
  ASSUME Inv, NEW h \in Handlers, Give(h)
  PROVE  Reasoned
<1> DEFINE r == Of(h)
           g == Given(r.person, r.role, r.dept, r.late)
<1>1. grants' = Append(grants, g) /\ g \in Grant /\ g.person = r.person
  BY OwnPerson, GivenRow DEF Give, Commits
<1> HIDE DEF g
<1>2. Rewritten(grants, grants, {}, r.person)
  BY NothingRewritten, Typed DEF Inv
<1>3. Rewritten(grants, grants', {}, r.person)
  BY <1>1, <1>2, AppendRewrites, Typed DEF Inv
<1> QED
  BY <1>3, NoneEnded

LEMMA ReasonedNext == Inv /\ [Next]_vars => Reasoned
<1> SUFFICES ASSUME Inv, [Next]_vars
             PROVE  Reasoned
  OBVIOUS
<1>1. CASE grants' = grants
  <2>1. Rewritten(grants, grants', {}, None)
    BY <1>1, NothingRewritten, Typed DEF Inv
  <2> QED
    BY <2>1, NoneEnded
<1>2. ASSUME NEW h \in Handlers,
             \/ Ask(h) \/ LockRights(h) \/ Abort(h) \/ Move(h) \/ Suspend(h) \/ Reactivate(h)
      PROVE  grants' = grants
  BY <1>2 DEF Ask, LockRights, Abort, Move, Suspend, Reactivate
<1>3. ASSUME NEW h \in Handlers,
             \/ Create(h) \/ Edit(h) \/ Archive(h) \/ Place(h)
             \/ AddMember(h) \/ RemoveMember(h) \/ Give(h) \/ Leave(h) \/ Assign(h) \/ Sweep(h)
      PROVE  Reasoned
  BY <1>3, HeadReasoned, ArchiveReasoned, PlaceReasoned, TeamReasoned, GiveReasoned,
     LeaveReasoned, AssignReasoned, SweepReasoned
<1>4. CASE Act
  <2>1. PICK r \in todo : (SignIn(r) \/ Change(r)) /\ todo' = todo \ {r}
    BY <1>4 DEF Act
  <2>2. SignIn(r) => grants' = grants
    BY DEF SignIn
  <2> QED
    BY <1>1, <2>1, <2>2, ChangeReasoned
<1>5. CASE Time
  BY <1>5, TimeReasoned
<1>6. CASE UNCHANGED vars
  BY <1>1, <1>6 DEF vars
<1> QED
  BY <1>1, <1>2, <1>3, <1>4, <1>5, <1>6 DEF Next

-----------------------------------------------------------------------------
(* The structure and what goes with it *)

\* A row `g` that became `new`: what ends it is its end, or its date.
Kept(g, new) ==
  /\ SameGrant(g, new)
  /\ g.date = "over" => new.date = "over"
  /\ Active(g) => Active(new) \/ new.ended \/ new.date = "over"
  /\ Structural(g) => Structural(new)

\* The rows of `which` have ended, those of `given` are new, and the others are kept.
Regranted(which, given) ==
  /\ \A i \in DOMAIN grants :
       /\ i \in DOMAIN grants' /\ Kept(grants[i], grants'[i])
       /\ grants'[i].ended <=> grants[i].ended \/ i \in which
  /\ \A i \in DOMAIN grants' \ DOMAIN grants : grants'[i] \in given
  /\ \A g \in given : \E i \in DOMAIN grants' : grants'[i] = g

\* What each person's and each department's rows say, if no commit overlooked something.
LeadMatches(p) ==
  /\ HeldAs(p, "lead") # {} => members[p] = "lead"
  /\ members[p] = "lead" => HeldAs(p, "lead") # {} \/ RanOut(p, "lead", None)
HeadMatches(d) ==
  /\ \A i \in HeadsOf(d) : Excused(grants[i].person) \/ departments[d].head = grants[i].person
  /\ \A p \in Persons : departments[d].head = p =>
       Excused(p) \/ RanOut(p, "head", d) \/ \E i \in HeadsOf(d) : grants[i].person = p
  /\ departments[d].state = "archived" => \A i \in HeldAt(d) : grants[i].late
NothingLeft(p) ==
  /\ Gone(p) => /\ members[p] = "none" /\ HeadedBy(p) = {}
                /\ \A i \in Held(p) : grants[i].late
  /\ ~Staff(p) => /\ members[p] = "none"
                  /\ \A i \in HeldAs(p, "lead") \union HeldAs(p, "addon") : grants[i].late

\* What a leaver is about to lose as head of a department goes with the headship, and what the
\* sweep is about to end of the structure has run out.
Foreseen(h) ==
  handlers[h].busy =>
    /\ Of(h).op \in Leaving =>
         \A i \in SeenBy(h).grants : grants[i].role = "head" =>
           \/ grants[i].at \in SeenBy(h).heads
           \/ Excused(Of(h).person) \/ Excused(grants[i].at)
    /\ Of(h).op = "sweep" =>
         \A i \in SeenBy(h).grants :
           grants[i].role \in {"lead", "head"} => grants[i].date = "over"

Ordered ==
  /\ \A i \in DOMAIN grants : Structural(grants[i])
  /\ \A d \in Departments : departments[d].head # None => Live(d)
  /\ \A h \in Handlers : Foreseen(h)
  /\ GrantsFollowTheStructure /\ LeaversKeepNothing

LEMMA Matches ==
  /\ GrantsFollowTheStructure <=> /\ \A p \in Persons : ~Excused(p) => LeadMatches(p)
                                  /\ \A d \in Departments : ~Excused(d) => HeadMatches(d)
  /\ LeaversKeepNothing <=> \A p \in Persons : ~Excused(p) => NothingLeft(p)
BY DEF GrantsFollowTheStructure, LeaversKeepNothing, LeadMatches, HeadMatches, NothingLeft

LEMMA KeptSame ==
  ASSUME NEW g \in Grant
  PROVE  Kept(g, g)
BY SameRow DEF Kept

LEMMA KeptEnded ==
  ASSUME NEW g \in Grant
  PROVE  /\ Kept(g, [g EXCEPT !.ended = TRUE])
         /\ [g EXCEPT !.ended = TRUE].ended <=> TRUE
<1> DEFINE new == [g EXCEPT !.ended = TRUE]
<1>1. /\ new.ended /\ new.date = g.date /\ new.role = g.role /\ new.late = g.late
      /\ new.review = g.review /\ new.at = g.at
  BY DEF Grant, GrantRows
<1>2. SameGrant(g, new)
  BY EndedRow
<1> HIDE DEF new
<1>3. Kept(g, new) /\ new.ended
  BY <1>1, <1>2 DEF Kept, Structural
<1> QED
  BY <1>3 DEF new

LEMMA SameRegrants ==
  ASSUME grants \in Seq(Grant), grants' = grants
  PROVE  Regranted({}, {})
BY Rows, KeptSame DEF Regranted

\* The rows of Ending(which), one by one.
LEMMA EndingRows ==
  ASSUME grants \in Seq(Grant), NEW which
  PROVE  /\ Ending(which) \in Seq(Grant) /\ DOMAIN Ending(which) = DOMAIN grants
         /\ \A i \in DOMAIN grants :
              /\ Kept(grants[i], Ending(which)[i])
              /\ Ending(which)[i].ended <=> grants[i].ended \/ i \in which
<1>1. Ending(which) \in Seq(Grant) /\ DOMAIN Ending(which) = DOMAIN grants
  BY EndingRewrites DEF Rewritten
<1>2. ASSUME NEW i \in DOMAIN grants
      PROVE  /\ Kept(grants[i], Ending(which)[i])
             /\ Ending(which)[i].ended <=> grants[i].ended \/ i \in which
  <2>1. grants[i] \in Grant
    BY Rows
  <2>2. Ending(which)[i] = IF i \in which THEN [grants[i] EXCEPT !.ended = TRUE] ELSE grants[i]
    BY DEF Ending
  <2>3. CASE i \in which
    BY <2>1, <2>2, <2>3, KeptEnded
  <2>4. CASE i \notin which
    BY <2>1, <2>2, <2>4, KeptSame
  <2> QED
    BY <2>3, <2>4
<1> QED
  BY <1>1, <1>2

LEMMA EndingRegrants ==
  ASSUME grants \in Seq(Grant), NEW which, grants' = Ending(which)
  PROVE  Regranted(which, {})
BY EndingRows DEF Regranted

\* A row given, after others have ended.
LEMMA AppendRegrants ==
  ASSUME grants \in Seq(Grant), NEW rows \in Seq(Grant), NEW which, NEW g \in Grant,
         DOMAIN rows = DOMAIN grants,
         \A i \in DOMAIN grants : /\ Kept(grants[i], rows[i])
                                  /\ rows[i].ended <=> grants[i].ended \/ i \in which,
         grants' = Append(rows, g)
  PROVE  Regranted(which, {g})
<1>1. DOMAIN rows = 1 .. Len(rows) /\ Len(rows) \in Nat
  BY Rows
<1>2. /\ DOMAIN grants' = DOMAIN rows \union {Len(rows) + 1}
      /\ grants'[Len(rows) + 1] = g /\ \A i \in DOMAIN rows : grants'[i] = rows[i]
  BY <1>1
<1> QED
  BY <1>2 DEF Regranted

LEMMA GivingRegrants ==
  ASSUME grants \in Seq(Grant), NEW g \in Grant, grants' = Append(grants, g)
  PROVE  Regranted({}, {g})
<1>1. \A i \in DOMAIN grants : /\ Kept(grants[i], grants[i])
                               /\ grants[i].ended <=> grants[i].ended \/ i \in {}
  BY Rows, KeptSame
<1> QED
  BY <1>1, AppendRegrants

\* What a given row is.
LEMMA GivenFields ==
  ASSUME NEW p, NEW role, NEW d, NEW late \in BOOLEAN
  PROVE  /\ Given(p, role, d, late).person = p /\ Given(p, role, d, late).role = role
         /\ Given(p, role, d, late).at = d /\ Given(p, role, d, late).late = late
         /\ ~late => Active(Given(p, role, d, late))
         /\ role \in {"lead", "head"} /\ ~late /\ (role = "lead" <=> d = None) =>
              Structural(Given(p, role, d, late))
         /\ role \notin {"lead", "head"} => Structural(Given(p, role, d, late))
BY DEF Given, Active, Structural

\* Rows of the structure begin at once, so one that is held was held before, or is given now.
LEMMA HeldBefore ==
  ASSUME TypeInv, NEW which, NEW given, Regranted(which, given),
         NEW i \in DOMAIN grants', Active(grants'[i])
  PROVE  \/ grants'[i] \in given /\ i \notin DOMAIN grants
         \/ /\ i \in DOMAIN grants /\ i \notin which
            /\ grants'[i].person = grants[i].person /\ grants'[i].role = grants[i].role
            /\ grants'[i].at = grants[i].at /\ grants'[i].late = grants[i].late
            /\ grants'[i].late \/ Active(grants[i])
<1>1. CASE i \notin DOMAIN grants
  BY <1>1 DEF Regranted
<1>2. CASE i \in DOMAIN grants
  <2>1. Kept(grants[i], grants'[i]) /\ (i \in which => grants'[i].ended)
    BY <1>2 DEF Regranted
  <2> QED
    BY <1>2, <2>1 DEF Kept, SameGrant, Active
<1> QED
  BY <1>1, <1>2

\* A row that is held stays held, ends, or runs out.
LEMMA HeldAfter ==
  ASSUME TypeInv, NEW which, NEW given, Regranted(which, given),
         NEW i \in DOMAIN grants, Active(grants[i]), i \notin which
  PROVE  /\ i \in DOMAIN grants'
         /\ grants'[i].person = grants[i].person /\ grants'[i].role = grants[i].role
         /\ grants'[i].at = grants[i].at
         /\ Active(grants'[i]) \/ grants'[i].date = "over"
<1>1. Kept(grants[i], grants'[i]) /\ i \in DOMAIN grants' /\ ~grants'[i].ended
  BY DEF Regranted, Active
<1> QED
  BY <1>1 DEF Kept, SameGrant

LEMMA RanOutStays ==
  ASSUME NEW which, NEW given, Regranted(which, given), NEW p, NEW role, NEW d,
         RanOut(p, role, d)
  PROVE  RanOut(p, role, d)'
<1>1. PICK i \in DOMAIN grants : /\ grants[i].person = p /\ grants[i].role = role
                                 /\ grants[i].at = d /\ grants[i].date = "over"
  BY DEF RanOut
<1>2. Kept(grants[i], grants'[i]) /\ i \in DOMAIN grants'
  BY DEF Regranted
<1> QED
  BY <1>1, <1>2 DEF RanOut, Kept, SameGrant

\* What a step leaves of a person's lead, of what they are not to keep, of a department's head.
LeadUntouched(p, which, given) ==
  /\ members'[p] = members[p]
  /\ \A i \in HeldAs(p, "lead") : i \notin which
  /\ \A g \in given : g.person = p => g.role # "lead"
NothingNew(p, given) ==
  /\ Gone(p)' => /\ Gone(p) /\ (members[p] = "none" => members'[p] = "none")
                 /\ HeadedBy(p) = {} => HeadedBy(p)' = {}
                 /\ \A g \in given : g.person = p => g.late
  /\ ~Staff(p)' => /\ ~Staff(p) /\ (members[p] = "none" => members'[p] = "none")
                   /\ \A g \in given : g.person = p /\ g.role \in {"lead", "addon"} => g.late
HeadUntouched(d, which, given) ==
  /\ departments'[d].head = departments[d].head
  /\ departments'[d].state = "archived" => departments[d].state = "archived"
  /\ \A i \in HeadsOf(d) : i \in which => Excused(grants[i].person)'
  /\ \A g \in given : g.at = d =>
       g.role # "head" /\ (g.late \/ departments'[d].state # "archived")

LEMMA LeadStays ==
  ASSUME Inv, Ordered, NEW which, NEW given, Regranted(which, given),
         NEW p \in Persons, LeadMatches(p), LeadUntouched(p, which, given)
  PROVE  LeadMatches(p)'
<1>1. ASSUME NEW i \in HeldAs(p, "lead")'
      PROVE  members'[p] = "lead"
  <2>1. /\ i \in DOMAIN grants' /\ Active(grants'[i]) /\ grants'[i].person = p
        /\ grants'[i].role = "lead"
    BY <1>1 DEF HeldAs, Held
  <2>2. i \in DOMAIN grants => Structural(grants[i])
    BY DEF Ordered
  <2>3. i \in HeldAs(p, "lead")
    BY <2>1, <2>2, HeldBefore DEF LeadUntouched, HeldAs, Held, Structural, Inv
  <2> QED
    BY <2>3 DEF LeadMatches, LeadUntouched
<1>2. ASSUME members'[p] = "lead"
      PROVE  HeldAs(p, "lead")' # {} \/ RanOut(p, "lead", None)'
  <2>1. CASE RanOut(p, "lead", None)
    BY <2>1, RanOutStays
  <2>2. ASSUME NEW i \in HeldAs(p, "lead")
        PROVE  HeldAs(p, "lead")' # {} \/ RanOut(p, "lead", None)'
    <3>1. /\ i \in DOMAIN grants /\ Active(grants[i]) /\ grants[i].person = p
          /\ grants[i].role = "lead" /\ i \notin which
      BY <2>2 DEF HeldAs, Held, LeadUntouched
    <3>2. grants[i].at = None
      BY <3>1 DEF Ordered, Structural
    <3>3. /\ i \in DOMAIN grants' /\ grants'[i].person = p /\ grants'[i].role = "lead"
          /\ grants'[i].at = None
          /\ Active(grants'[i]) \/ grants'[i].date = "over"
      BY <3>1, <3>2, HeldAfter DEF Inv
    <3>4. Active(grants'[i]) => i \in HeldAs(p, "lead")'
      BY <3>3 DEF HeldAs, Held
    <3> QED
      BY <3>3, <3>4 DEF RanOut
  <2> QED
    BY <1>2, <2>1, <2>2 DEF LeadMatches, LeadUntouched
<1> QED
  BY <1>1, <1>2 DEF LeadMatches

\* Whoever leaves the lead, with every grant of it.
LEMMA LeadEnds ==
  ASSUME Inv, Ordered, NEW which, NEW given, Regranted(which, given),
         NEW p \in Persons, members'[p] # "lead",
         \A i \in HeldAs(p, "lead") : i \in which,
         \A g \in given : g.person = p => g.role # "lead"
  PROVE  LeadMatches(p)'
<1>1. ASSUME NEW i \in HeldAs(p, "lead")'
      PROVE  FALSE
  <2>1. /\ i \in DOMAIN grants' /\ Active(grants'[i]) /\ grants'[i].person = p
        /\ grants'[i].role = "lead"
    BY <1>1 DEF HeldAs, Held
  <2>2. i \in DOMAIN grants => Structural(grants[i])
    BY DEF Ordered
  <2> QED
    BY <2>1, <2>2, HeldBefore DEF HeldAs, Held, Structural, Inv
<1> QED
  BY <1>1 DEF LeadMatches

LEMMA NothingStays ==
  ASSUME Inv, NEW which, NEW given, Regranted(which, given),
         NEW p \in Persons, NothingLeft(p), NothingNew(p, given)
  PROVE  NothingLeft(p)'
<1>1. ASSUME Gone(p)', NEW i \in Held(p)'
      PROVE  grants'[i].late
  <2>1. i \in DOMAIN grants' /\ Active(grants'[i]) /\ grants'[i].person = p
    BY <1>1 DEF Held
  <2>2. \A j \in Held(p) : grants[j].late
    BY <1>1 DEF NothingLeft, NothingNew
  <2> QED
    BY <1>1, <2>1, <2>2, HeldBefore DEF Held, NothingNew, Inv
<1>2. ASSUME ~Staff(p)', NEW i \in HeldAs(p, "lead")' \union HeldAs(p, "addon")'
      PROVE  grants'[i].late
  <2>1. /\ i \in DOMAIN grants' /\ Active(grants'[i]) /\ grants'[i].person = p
        /\ grants'[i].role \in {"lead", "addon"}
    BY <1>2 DEF HeldAs, Held
  <2>2. \A j \in HeldAs(p, "lead") \union HeldAs(p, "addon") : grants[j].late
    BY <1>2 DEF NothingLeft, NothingNew
  <2> QED
    BY <1>2, <2>1, <2>2, HeldBefore DEF HeldAs, Held, NothingNew, Inv
<1>3. Gone(p)' => members'[p] = "none" /\ HeadedBy(p)' = {}
  BY DEF NothingLeft, NothingNew
<1>4. ~Staff(p)' => members'[p] = "none"
  BY DEF NothingLeft, NothingNew
<1> QED
  BY <1>1, <1>2, <1>3, <1>4 DEF NothingLeft

LEMMA HeadStays ==
  ASSUME Inv, Ordered, NEW which, NEW given, Regranted(which, given),
         outdated \subseteq outdated',
         NEW d \in Departments, HeadMatches(d), HeadUntouched(d, which, given)
  PROVE  HeadMatches(d)'
<1>0. \A x : Excused(x) => Excused(x)'
  BY DEF Excused
<1>1. ASSUME NEW i \in HeadsOf(d)'
      PROVE  Excused(grants[i].person)' \/ departments'[d].head = grants'[i].person
  <2>1. /\ i \in DOMAIN grants' /\ Active(grants'[i]) /\ grants'[i].at = d
        /\ grants'[i].role = "head"
    BY <1>1 DEF HeadsOf, HeldAt
  <2>2. i \in DOMAIN grants => Structural(grants[i])
    BY DEF Ordered
  <2>3. i \in HeadsOf(d) /\ grants'[i].person = grants[i].person
    BY <2>1, <2>2, HeldBefore DEF HeadUntouched, HeadsOf, HeldAt, Structural, Inv
  <2>4. PICK q : q = grants[i].person
    OBVIOUS
  <2>5. Excused(q) \/ departments[d].head = q
    BY <2>3, <2>4 DEF HeadMatches
  <2>6. Excused(q)' => Excused(grants[i].person)'
    BY <2>3, <2>4 DEF Excused
  <2> QED
    BY <1>0, <2>3, <2>4, <2>5, <2>6 DEF HeadUntouched
<1>2. ASSUME NEW p \in Persons, departments'[d].head = p
      PROVE  \/ Excused(p)' \/ RanOut(p, "head", d)'
             \/ \E i \in HeadsOf(d)' : grants'[i].person = p
  <2>1. CASE RanOut(p, "head", d)
    BY <2>1, RanOutStays
  <2>2. ASSUME NEW i \in HeadsOf(d), grants[i].person = p
        PROVE  \/ Excused(p)' \/ RanOut(p, "head", d)'
               \/ \E j \in HeadsOf(d)' : grants'[j].person = p
    <3>1. /\ i \in DOMAIN grants /\ Active(grants[i]) /\ grants[i].at = d
          /\ grants[i].role = "head"
      BY <2>2 DEF HeadsOf, HeldAt
    <3>2. CASE i \in which
      <4>1. Excused(grants[i].person)'
        BY <2>2, <3>2 DEF HeadUntouched
      <4>2. i \in DOMAIN grants' /\ grants'[i].person = p
        BY <2>2, <3>1 DEF Regranted, Kept, SameGrant
      <4> QED
        BY <4>1, <4>2 DEF Excused
    <3>3. CASE i \notin which
      <4>1. /\ i \in DOMAIN grants' /\ grants'[i].person = p /\ grants'[i].role = "head"
            /\ grants'[i].at = d
            /\ Active(grants'[i]) \/ grants'[i].date = "over"
        BY <2>2, <3>1, <3>3, HeldAfter DEF Inv
      <4>2. Active(grants'[i]) => i \in HeadsOf(d)'
        BY <4>1 DEF HeadsOf, HeldAt
      <4> QED
        BY <4>1, <4>2 DEF RanOut
    <3> QED
      BY <3>2, <3>3
  <2> QED
    BY <1>0, <1>2, <2>1, <2>2 DEF HeadMatches, HeadUntouched
<1>3. ASSUME departments'[d].state = "archived", NEW i \in HeldAt(d)'
      PROVE  grants'[i].late
  <2>1. i \in DOMAIN grants' /\ Active(grants'[i]) /\ grants'[i].at = d
    BY <1>3 DEF HeldAt
  <2>2. \A j \in HeldAt(d) : grants[j].late
    BY <1>3 DEF HeadMatches, HeadUntouched
  <2> QED
    BY <1>3, <2>1, <2>2, HeldBefore DEF HeldAt, HeadUntouched, Inv
<1> QED
  BY <1>1, <1>2, <1>3 DEF HeadMatches

\* A step keeps all of this if it does so for every person and every department, or overlooked
\* something about them.
LEMMA StepKeeps ==
  ASSUME Inv, Ordered, NEW which, NEW given, Regranted(which, given),
         \A g \in given : Structural(g),
         outdated \subseteq outdated',
         \A k \in Handlers : handlers'[k].busy => handlers'[k] = handlers[k] \/ Foreseen(k)',
         \A d \in Departments : departments'[d].head # None => Live(d)',
         \A p \in Persons : Excused(p)' \/ LeadMatches(p)' \/ LeadUntouched(p, which, given),
         \A p \in Persons : Excused(p)' \/ NothingLeft(p)' \/ NothingNew(p, given),
         \A d \in Departments :
           Excused(d)' \/ HeadMatches(d)' \/ HeadUntouched(d, which, given)
  PROVE  Ordered'
<1>0. \A x : Excused(x) => Excused(x)'
  BY DEF Excused
<1>1. \A i \in DOMAIN grants' : Structural(grants'[i])
  BY DEF Ordered, Regranted, Kept
<1>2. ASSUME NEW k \in Handlers
      PROVE  Foreseen(k)'
  <2> SUFFICES ASSUME handlers'[k].busy, handlers'[k] = handlers[k]
               PROVE  Foreseen(k)'
    BY DEF Foreseen
  <2> DEFINE r == Of(k)
             saw == SeenBy(k)
  <2>1. Of(k)' = r /\ SeenBy(k)' = saw /\ handlers[k].busy
    BY DEF Of, SeenBy
  <2>2. \A i \in saw.grants : i \in DOMAIN grants
    BY Typed DEF Inv
  <2>3. \A i \in saw.grants : /\ grants'[i].role = grants[i].role /\ grants'[i].at = grants[i].at
                              /\ grants[i].date = "over" => grants'[i].date = "over"
    BY <2>2 DEF Regranted, Kept, SameGrant
  <2>4. Foreseen(k)
    BY DEF Ordered
  <2>5. r.op \in Leaving => \A i \in saw.grants : grants[i].role = "head" =>
          grants[i].at \in saw.heads \/ Excused(r.person) \/ Excused(grants[i].at)
    BY <2>1, <2>4 DEF Foreseen
  <2>6. r.op = "sweep" => \A i \in saw.grants :
          grants[i].role \in {"lead", "head"} => grants[i].date = "over"
    BY <2>1, <2>4 DEF Foreseen
  <2> HIDE DEF r, saw
  <2>7. Excused(r.person) => \E op \in Ops \ {"sweep"} : <<op, r.person>> \in outdated'
    BY DEF Excused
  <2>8. \A i \in saw.grants : Excused(grants[i].at) =>
          \E op \in Ops \ {"sweep"} : <<op, grants'[i].at>> \in outdated'
    BY <2>3 DEF Excused
  <2> QED
    BY <2>1, <2>3, <2>5, <2>6, <2>7, <2>8 DEF Foreseen, Excused
<1>3. ASSUME NEW p \in Persons, ~Excused(p)'
      PROVE  LeadMatches(p)' /\ NothingLeft(p)'
  <2>1. LeadMatches(p) /\ NothingLeft(p)
    BY <1>0, <1>3, Matches DEF Ordered
  <2> QED
    BY <1>3, <2>1, LeadStays, NothingStays
<1>4. ASSUME NEW d \in Departments, ~Excused(d)'
      PROVE  HeadMatches(d)'
  <2>1. HeadMatches(d)
    BY <1>0, <1>4, Matches DEF Ordered
  <2> QED
    BY <1>4, <2>1, HeadStays
<1>5. GrantsFollowTheStructure' /\ LeaversKeepNothing'
  BY <1>3, <1>4 DEF GrantsFollowTheStructure, LeaversKeepNothing, LeadMatches, HeadMatches,
                    NothingLeft
<1> QED
  BY <1>1, <1>2, <1>5 DEF Ordered

\* What a commit leaves of the handlers.
LEMMA CommitHandlers ==
  ASSUME Inv, NEW h \in Handlers, NEW op, Commits(h, op)
  PROVE  /\ outdated \subseteq outdated'
         /\ \A k \in Handlers : handlers'[k].busy => handlers'[k] = handlers[k]
<1>1. handlers' = [handlers EXCEPT ![h] = Idle] /\ ~Idle.busy
  BY IdleTyped DEF Commits
<1> QED
  BY <1>1, Typed DEF Inv, Commits

\* A commit that overlooks something about its person or its department says so.
LEMMA CommitMarks ==
  ASSUME Inv, NEW h \in Handlers, NEW op, Commits(h, op), op # "sweep",
         NEW r, r = Of(h), NEW saw, saw = SeenBy(h)
  PROVE  /\ \/ Excused(r.person)'
            \/ /\ PersonFacts(r)
               /\ \A i \in Listed(r) \ saw.grants : grants[i].late
               /\ Saw(r).heads \subseteq saw.heads
               /\ Saw(r).member => saw.member
               /\ Saw(r).addon = saw.addon
         /\ Excused(r.dept)' \/ DepartmentFacts(r)
<1> DEFINE now == Saw(r)
<1>1. /\ r.op = op /\ op \in Ops \ {"sweep"} /\ outdated' = outdated \union Mismatch(h)
      /\ now.grants = Listed(r)
  BY SawTyped, Typed DEF Inv, Commits
<1>2. <<op, r.person>> \in Mismatch(h) => Excused(r.person)'
  BY <1>1 DEF Excused
<1>3. <<op, r.dept>> \in Mismatch(h) => Excused(r.dept)'
  BY <1>1 DEF Excused
<1>4. ~DepartmentFacts(r) => <<op, r.dept>> \in Mismatch(h)
  BY <1>1 DEF Mismatch
<1>5. \/ ~PersonFacts(r) \/ {i \in now.grants \ saw.grants : ~grants[i].late} # {}
      \/ now.heads \ saw.heads # {} \/ (now.member /\ ~saw.member) \/ now.addon # saw.addon
      => <<op, r.person>> \in Mismatch(h)
  BY <1>1 DEF Mismatch
<1> HIDE DEF now
<1>6. <<op, r.person>> \notin Mismatch(h) =>
        /\ PersonFacts(r) /\ {i \in now.grants \ saw.grants : ~grants[i].late} = {}
        /\ now.heads \subseteq saw.heads /\ (now.member => saw.member)
        /\ now.addon = saw.addon
  BY <1>5
<1> QED
  BY <1>1, <1>2, <1>3, <1>4, <1>6 DEF now

\* Whoever gets no row, team, headship or status loses nothing of this; a department whose head
\* and state stay, and where no head's row ends or is given, does not either.
LEMMA NobodyNew ==
  ASSUME NEW given, NEW q \in Persons, people'[q].role = people[q].role, Gone(q)' => Gone(q),
         members[q] = "none" => members'[q] = "none",
         \A e \in Departments : Live(e)' /\ departments'[e].head = q =>
                                  Live(e) /\ departments[e].head = q,
         \A g \in given : g.person # q
  PROVE  NothingNew(q, given)
BY DEF NothingNew, Staff, HeadedBy

LEMMA LeadAlone ==
  ASSUME NEW which, NEW given, NEW q \in Persons, members'[q] = members[q],
         \A i \in which : i \in DOMAIN grants /\ Active(grants[i]) =>
                            grants[i].role # "lead" \/ grants[i].person # q,
         \A g \in given : g.role # "lead" \/ g.person # q
  PROVE  LeadUntouched(q, which, given)
BY DEF LeadUntouched, HeldAs, Held

LEMMA HeadAlone ==
  ASSUME NEW which, NEW given, NEW d \in Departments,
         departments'[d].head = departments[d].head,
         departments'[d].state = departments[d].state,
         \A i \in which : i \in DOMAIN grants /\ Active(grants[i]) =>
                            grants[i].role # "head" \/ grants[i].at # d,
         \A g \in given : g.at # d
  PROVE  HeadUntouched(d, which, given)
BY DEF HeadUntouched, HeadsOf, HeldAt

\* A step that gives nothing, and takes no held row of the structure.
LEMMA QuietKeeps ==
  ASSUME Inv, Ordered, NEW which, Regranted(which, {}),
         \A i \in which : i \in DOMAIN grants /\ Active(grants[i]) =>
                            grants[i].role \notin {"lead", "head"},
         outdated \subseteq outdated',
         \A k \in Handlers : handlers'[k].busy => handlers'[k] = handlers[k] \/ Foreseen(k)',
         members' = members,
         \A q \in Persons : people'[q].role = people[q].role /\ (Gone(q)' => Gone(q)),
         \A d \in Departments : /\ departments'[d].head = departments[d].head
                                /\ departments'[d].state = departments[d].state
  PROVE  Ordered'
<1>1. \A q \in Persons : NothingNew(q, {})
  BY NobodyNew DEF Live
<1>2. \A q \in Persons : LeadUntouched(q, which, {})
  BY LeadAlone
<1>3. \A d \in Departments : HeadUntouched(d, which, {})
  BY HeadAlone
<1>4. \A d \in Departments : departments'[d].head # None => Live(d)'
  BY DEF Ordered, Live
<1> QED
  BY <1>1, <1>2, <1>3, <1>4, StepKeeps

\* The head that is set is the one who holds the department's grant.
LEMMA HeadTaken ==
  ASSUME Inv, Ordered, NEW d \in Departments, NEW p \in Somebody, grants' = HeadGiven(d, p),
         departments'[d].head = p, departments'[d].state = "live"
  PROVE  \E which, given :
           /\ Regranted(which, given) /\ HeadMatches(d)'
           /\ \A i \in which : i \in HeadsOf(d)
           /\ \A g \in given : Structural(g) /\ g.role = "head" /\ g.at = d /\ g.person = p
<1> DEFINE others == {i \in HeadsOf(d) : grants[i].person # p}
           g == Given(p, "head", d, FALSE)
<1>1. grants \in Seq(Grant) /\ TypeInv /\ d # None
  BY Typed, NoneAssumption DEF Inv
<1>2. ASSUME NEW given, Regranted(others, given), \A new \in given : new.person = p,
             p # None => \/ \E i \in HeadsOf(d) : grants[i].person = p
                         \/ \E new \in given : Active(new) /\ new.role = "head" /\ new.at = d
      PROVE  HeadMatches(d)'
  <2>1. ASSUME NEW i \in HeadsOf(d)'
        PROVE  grants'[i].person = p
    <3>1. /\ i \in DOMAIN grants' /\ Active(grants'[i]) /\ grants'[i].at = d
          /\ grants'[i].role = "head"
      BY <2>1 DEF HeadsOf, HeldAt
    <3>2. i \in DOMAIN grants => Structural(grants[i])
      BY DEF Ordered
    <3>3. \/ grants'[i] \in given
          \/ /\ i \in HeadsOf(d) /\ i \notin others /\ grants'[i].person = grants[i].person
      BY <1>1, <1>2, <3>1, <3>2, HeldBefore DEF HeadsOf, HeldAt, Structural
    <3> QED
      BY <1>2, <3>3
  <2>2. ASSUME NEW q \in Persons, p = q
        PROVE  RanOut(q, "head", d)' \/ \E i \in HeadsOf(d)' : grants'[i].person = q
    <3>1. p # None
      BY <2>2, NoneAssumption
    <3>2. ASSUME NEW i \in HeadsOf(d), grants[i].person = p
          PROVE  RanOut(q, "head", d)' \/ \E j \in HeadsOf(d)' : grants'[j].person = q
      <4>1. /\ i \in DOMAIN grants /\ Active(grants[i]) /\ i \notin others
            /\ grants[i].at = d /\ grants[i].role = "head"
        BY <3>2 DEF HeadsOf, HeldAt
      <4>2. /\ i \in DOMAIN grants' /\ grants'[i].person = q /\ grants'[i].role = "head"
            /\ grants'[i].at = d /\ (Active(grants'[i]) \/ grants'[i].date = "over")
        BY <1>1, <1>2, <2>2, <3>2, <4>1, HeldAfter
      <4> QED
        BY <4>2 DEF RanOut, HeadsOf, HeldAt
    <3>3. ASSUME NEW new \in given, Active(new), new.role = "head", new.at = d
          PROVE  \E j \in HeadsOf(d)' : grants'[j].person = q
      <4>1. PICK i \in DOMAIN grants' : grants'[i] = new
        BY <1>2 DEF Regranted
      <4>2. i \in HeadsOf(d)' /\ grants'[i].person = q
        BY <1>2, <2>2, <3>3, <4>1 DEF HeadsOf, HeldAt
      <4> QED
        BY <4>2
    <3> QED
      BY <1>2, <3>1, <3>2, <3>3
  <2> QED
    BY <2>1, <2>2 DEF HeadMatches
<1>3. CASE p = None \/ HeadsOf(d) # others
  <2>1. grants' = Ending(others)
    BY <1>3 DEF HeadGiven
  <2>2. Regranted(others, {})
    BY <1>1, <2>1, EndingRegrants
  <2>3. p # None => \E i \in HeadsOf(d) : grants[i].person = p
    BY <1>3
  <2> QED
    BY <1>2, <2>2, <2>3
<1>4. CASE ~(p = None \/ HeadsOf(d) # others)
  <2>1. grants' = Append(Ending(others), g)
    BY <1>4 DEF HeadGiven
  <2>2. g \in Grant /\ g.person = p
    BY <1>4, GivenRow DEF Somebody, GrantedRoles, Somewhere
  <2>3. Active(g) /\ g.role = "head" /\ g.at = d /\ Structural(g)
    <3> DEFINE head == "head"
               no == FALSE
    <3>1. no \in BOOLEAN /\ ~no /\ head = "head" /\ g = Given(p, head, d, no)
      OBVIOUS
    <3> HIDE DEF head, no, g
    <3> QED
      BY <1>1, <3>1, GivenFields
  <2> HIDE DEF g, others
  <2>4. Regranted(others, {g})
    BY <1>1, <2>1, <2>2, EndingRows, AppendRegrants
  <2>5. HeadMatches(d)'
    BY <1>2, <2>2, <2>3, <2>4
  <2> QED
    BY <2>2, <2>3, <2>4, <2>5 DEF others
<1> QED
  BY <1>3, <1>4

LEMMA HeadOrdered ==
  ASSUME Inv, Ordered, NEW h \in Handlers, Create(h) \/ Edit(h)
  PROVE  Ordered'
<1>1. PICK r : r = Of(h)
  OBVIOUS
<1> DEFINE d == r.dept
           p == r.person
<1>2. PICK op \in {"create", "edit"} : Commits(h, op)
  BY DEF Create, Edit
<1>3. /\ r.op = op /\ handlers[h].busy /\ d \in Departments /\ p \in Somebody
      /\ grants' = HeadGiven(d, p) /\ members' = members /\ people' = people
  BY <1>1, <1>2, OwnPerson, Typed DEF Inv, Commits, Create, Edit
<1>4. op = "edit" => Live(d)
  BY <1>1, <1>3 DEF Inv, Fresh
<1>5. /\ departments'[d].head = p /\ departments'[d].state = "live"
      /\ \A e \in Departments \ {d} : departments'[e] = departments[e]
  <2>1. CASE Create(h)
    BY <1>1, <1>3, <2>1, Typed DEF Inv, Create, Department
  <2>2. CASE Edit(h)
    <3>1. departments[d] \in Department /\ op = "edit"
      BY <1>2, <1>3, <2>2, Typed DEF Inv, Edit, Commits
    <3> QED
      BY <1>1, <1>3, <1>4, <2>2, <3>1, Typed DEF Inv, Edit, Department, Live
  <2> QED
    BY <2>1, <2>2
<1>6. PICK which, given :
        /\ Regranted(which, given) /\ HeadMatches(d)'
        /\ \A i \in which : i \in HeadsOf(d)
        /\ \A g \in given : Structural(g) /\ g.role = "head" /\ g.at = d /\ g.person = p
  BY <1>3, <1>5, HeadTaken
<1>7. Excused(p)' \/ (p # None => people[p].active)
  BY <1>1, <1>2, <1>3, CommitMarks DEF PersonFacts
<1>8. ASSUME NEW q \in Persons
      PROVE  LeadUntouched(q, which, given)
  BY <1>3, <1>6, LeadAlone DEF HeadsOf, HeldAt
<1>9. ASSUME NEW q \in Persons
      PROVE  Excused(q)' \/ NothingNew(q, given)
  <2>1. CASE q = p
    <3>1. Excused(q)' \/ people[q].active
      BY <1>7, <2>1, NoneAssumption
    <3> QED
      BY <1>3, <1>6, <3>1 DEF NothingNew, Gone, Staff
  <2>2. CASE q # p
    <3>1. \A e \in Departments : Live(e)' /\ departments'[e].head = q =>
                                   Live(e) /\ departments[e].head = q
      BY <1>5, <2>2 DEF Live
    <3> QED
      BY <1>3, <1>6, <2>2, <3>1, NobodyNew DEF Gone
  <2> QED
    BY <2>1, <2>2
<1>10. ASSUME NEW e \in Departments \ {d}
       PROVE  HeadUntouched(e, which, given)
  BY <1>5, <1>6, HeadAlone DEF HeadsOf, HeldAt
<1>11. \A e \in Departments : departments'[e].head # None => Live(e)'
  BY <1>3, <1>5 DEF Ordered, Live
<1> QED
  BY <1>2, <1>6, <1>8, <1>9, <1>10, <1>11, CommitHandlers, StepKeeps

LEMMA MoveOrdered ==
  ASSUME Inv, Ordered, NEW h \in Handlers, Move(h)
  PROVE  Ordered'
<1>1. Commits(h, "move") /\ grants' = grants /\ members' = members /\ people' = people
  BY DEF Move
<1>2. \A d \in Departments : /\ departments'[d].head = departments[d].head
                             /\ departments'[d].state = departments[d].state
  BY Typed DEF Inv, Move, Department
<1> QED
  BY <1>1, <1>2, SameRegrants, CommitHandlers, QuietKeeps, Typed DEF Inv, Gone

LEMMA ArchiveOrdered ==
  ASSUME Inv, Ordered, NEW h \in Handlers, Archive(h)
  PROVE  Ordered'
<1>0. PICK r : r = Of(h)
  OBVIOUS
<1> DEFINE d == r.dept
           which == HeldAt(d)
<1>1. /\ Commits(h, "archive") /\ d \in Departments /\ grants' = Ending(which)
      /\ members' = members /\ people' = people
  BY <1>0, OwnPerson DEF Archive, Commits
<1>2. /\ departments'[d].head = None /\ departments'[d].state = "archived"
      /\ \A e \in Departments \ {d} : departments'[e] = departments[e]
  BY <1>0, <1>1, Typed DEF Inv, Archive, Department
<1>3. Regranted(which, {})
  BY <1>1, EndingRegrants, Typed DEF Inv
<1>4. ASSUME NEW q \in Persons
      PROVE  NothingNew(q, {}) /\ LeadUntouched(q, which, {})
  <2>1. q # None
    BY NoneAssumption
  <2>2. \A e \in Departments : Live(e)' /\ departments'[e].head = q =>
                                 Live(e) /\ departments[e].head = q
    BY <1>2, <2>1 DEF Live
  <2>3. \A i \in which : i \in DOMAIN grants /\ grants[i].at # None /\ Structural(grants[i])
    BY <1>1, NoneAssumption DEF HeldAt, Ordered
  <2> QED
    BY <1>1, <2>2, <2>3, NobodyNew, LeadAlone DEF Gone, Structural
<1>5. HeadMatches(d)'
  <2>1. ASSUME NEW i \in HeldAt(d)'
        PROVE  grants'[i].late /\ grants'[i].role # "head"
    <3>1. i \in DOMAIN grants' /\ Active(grants'[i]) /\ grants'[i].at = d
      BY <2>1 DEF HeldAt
    <3>2. i \in DOMAIN grants => Structural(grants[i])
      BY DEF Ordered
    <3>3. TypeInv
      BY DEF Inv
    <3>4. /\ i \in DOMAIN grants /\ i \notin which /\ grants'[i].role = grants[i].role
          /\ grants'[i].at = grants[i].at /\ grants'[i].late = grants[i].late
          /\ grants'[i].late \/ Active(grants[i])
      BY <1>3, <3>1, <3>3, HeldBefore
    <3> QED
      BY <3>1, <3>2, <3>4 DEF HeldAt, Structural
  <2>2. \A q \in Persons : departments'[d].head # q
    BY <1>2, NoneAssumption
  <2> QED
    BY <2>1, <2>2 DEF HeadMatches, HeadsOf
<1>6. ASSUME NEW e \in Departments \ {d}
      PROVE  HeadUntouched(e, which, {})
  BY <1>2, HeadAlone DEF HeldAt
<1>7. \A e \in Departments : departments'[e].head # None => Live(e)'
  BY <1>1, <1>2 DEF Ordered, Live
<1> HIDE DEF which
<1> QED
  BY <1>1, <1>3, <1>4, <1>5, <1>6, <1>7, CommitHandlers, StepKeeps

\* One row rewritten.
LEMMA RowRegrants ==
  ASSUME Inv, NEW i \in DOMAIN grants, NEW new, Kept(grants[i], new),
         grants' = [grants EXCEPT ![i] = new]
  PROVE  /\ new.ended /\ ~grants[i].ended => Regranted({i}, {})
         /\ (new.ended <=> grants[i].ended) => Regranted({}, {})
<1>1. /\ DOMAIN grants' = DOMAIN grants
      /\ \A j \in DOMAIN grants : grants'[j] = IF j = i THEN new ELSE grants[j]
  BY Typed DEF Inv
<1>2. \A j \in DOMAIN grants : Kept(grants[j], grants'[j])
  BY <1>1, KeptSame, Rows, Typed DEF Inv
<1> QED
  BY <1>1, <1>2 DEF Regranted

LEMMA PlaceOrdered ==
  ASSUME Inv, Ordered, NEW h \in Handlers, Place(h)
  PROVE  Ordered'
<1> DEFINE flagged == "flagged"
           row(i) == [grants[i] EXCEPT !.review = flagged]
<1>1. PICK r : r = Of(h)
  OBVIOUS
<1>2. PICK op \in {"place", "profile"} : Commits(h, op)
  BY DEF Place
<1>3. /\ r.person \in Persons /\ r.dept \in Departments
      /\ departments' = departments /\ members' = members
  BY <1>1, <1>2, OwnPerson DEF Place, Commits
<1>4. \A i \in DOMAIN grants : grants[i] \in Grant /\ grants \in Seq(Grant)
  BY Rows, Typed DEF Inv
<1>5. /\ grants' = [i \in DOMAIN grants |->
                      IF i \in HeldAs(r.person, "custom") THEN row(i) ELSE grants[i]]
      /\ flagged \in {"none", "flagged", "due"}
  BY <1>1 DEF Place
<1> HIDE DEF flagged
<1>6. \A i \in DOMAIN grants : grants[i].role = "custom" => Kept(grants[i], row(i))
  BY <1>4, <1>5, RowKept DEF Kept, Grant, GrantRows, Active, Structural, SameGrant
<1>7. \A i \in DOMAIN grants : row(i).ended = grants[i].ended
  BY <1>4 DEF Grant, GrantRows
<1> HIDE DEF row
<1>8. \A i \in DOMAIN grants : /\ i \in DOMAIN grants' /\ Kept(grants[i], grants'[i])
                               /\ grants'[i].ended <=> grants[i].ended
  BY <1>4, <1>5, <1>6, <1>7, KeptSame DEF HeldAs
<1>9. Regranted({}, {})
  BY <1>5, <1>8 DEF Regranted
<1>10. \A q \in Persons : people'[q].role = people[q].role /\ (Gone(q)' => Gone(q))
  BY <1>1, <1>3, Typed DEF Place, Inv, Person, Gone
<1> QED
  BY <1>2, <1>3, <1>9, <1>10, CommitHandlers, QuietKeeps

LEMMA AddMemberOrdered ==
  ASSUME Inv, Ordered, NEW h \in Handlers, AddMember(h)
  PROVE  Ordered'
<1>1. PICK r : r = Of(h)
  OBVIOUS
<1> DEFINE p == r.person
           led == HeldAs(p, "lead")
<1>2. /\ Commits(h, "join") /\ people' = people /\ departments' = departments
      /\ p \in Persons /\ r.role \in {"member", "lead"} /\ grants \in Seq(Grant)
      /\ r.op = "join" /\ members'[p] = r.role
      /\ \A q \in Persons \ {p} : members'[q] = members[q]
      /\ grants' = LeadGiven(p, r.role = "lead")
  BY <1>1, OwnPerson, Typed DEF Inv, AddMember, Commits
<1>3. Excused(p)' \/ (people[p].active /\ Staff(p))
  BY <1>1, <1>2, CommitMarks DEF PersonFacts
<1>4. \E which, given :
        /\ Regranted(which, given) /\ LeadMatches(p)'
        /\ \A i \in which : i \in led
        /\ \A g \in given : Structural(g) /\ g.role = "lead" /\ g.at = None /\ g.person = p
  <2>1. CASE r.role # "lead"
    <3>1. Regranted(led, {})
      BY <1>2, <2>1, EndingRegrants DEF LeadGiven
    <3>2. LeadMatches(p)'
      BY <1>2, <2>1, <3>1, LeadEnds
    <3> QED
      BY <3>1, <3>2
  <2>2. CASE r.role = "lead" /\ led # {}
    <3>1. grants' = grants
      BY <2>2 , <1>2 DEF LeadGiven
    <3>2. Regranted({}, {})
      BY <1>2, <3>1, SameRegrants
    <3>3. LeadMatches(p)'
      BY <1>2, <2>2, <3>1 DEF LeadMatches, HeldAs, Held
    <3> QED
      BY <3>2, <3>3
  <2>3. CASE r.role = "lead" /\ led = {}
    <3> DEFINE lead == "lead"
               no == FALSE
               g == Given(p, lead, None, no)
    <3>1. grants' = Append(grants, g) /\ no \in BOOLEAN /\ ~no /\ lead = "lead"
          /\ lead \in GrantedRoles /\ None \in Somewhere
      BY <1>2, <2>3 DEF LeadGiven, GrantedRoles, Somewhere
    <3> HIDE DEF lead, no
    <3>2. g \in Grant /\ g.person = p
      BY <1>2, <3>1, GivenRow
    <3>3. Active(g) /\ g.role = "lead" /\ g.at = None /\ Structural(g)
      BY <3>1, GivenFields
    <3> HIDE DEF g
    <3>4. Regranted({}, {g})
      BY <1>2, <3>1, <3>2, GivingRegrants
    <3>5. PICK i \in DOMAIN grants' : grants'[i] = g
      BY <3>4 DEF Regranted
    <3>6. i \in HeldAs(p, "lead")'
      BY <3>2, <3>3, <3>5 DEF HeldAs, Held
    <3>7. LeadMatches(p)'
      BY <1>2, <2>3, <3>6 DEF LeadMatches
    <3> QED
      BY <3>2, <3>3, <3>4, <3>7
  <2> QED
    BY <2>1, <2>2, <2>3
<1>5. PICK which, given :
        /\ Regranted(which, given) /\ LeadMatches(p)'
        /\ \A i \in which : i \in led
        /\ \A g \in given : Structural(g) /\ g.role = "lead" /\ g.at = None /\ g.person = p
  BY <1>4
<1>6. \A i \in which : grants[i].role = "lead" /\ grants[i].person = p
  BY <1>5 DEF HeldAs, Held
<1>7. ASSUME NEW q \in Persons \ {p}
      PROVE  LeadUntouched(q, which, given) /\ NothingNew(q, given)
  BY <1>2, <1>5, <1>6, LeadAlone, NobodyNew DEF Gone, Live
<1>8. Excused(p)' \/ NothingNew(p, given)
  BY <1>2, <1>3 DEF NothingNew, Gone, Staff
<1>9. ASSUME NEW d \in Departments
      PROVE  HeadUntouched(d, which, given)
  BY <1>2, <1>5, <1>6, HeadAlone, NoneAssumption
<1>10. \A d \in Departments : departments'[d].head # None => Live(d)'
  BY <1>2 DEF Ordered, Live
<1> QED
  BY <1>2, <1>5, <1>7, <1>8, <1>9, <1>10, CommitHandlers, StepKeeps

LEMMA RemoveMemberOrdered ==
  ASSUME Inv, Ordered, NEW h \in Handlers, RemoveMember(h)
  PROVE  Ordered'
<1>1. PICK r, saw : r = Of(h) /\ saw = SeenBy(h)
  OBVIOUS
<1> DEFINE p == r.person
           which == saw.grants
<1>2. /\ Commits(h, "remove") /\ people' = people /\ departments' = departments
      /\ p \in Persons /\ r.op = "remove" /\ members'[p] = "none"
      /\ \A q \in Persons \ {p} : members'[q] = members[q]
      /\ grants' = Ending(which)
  BY <1>1, OwnPerson, Typed DEF Inv, RemoveMember, Commits
<1>3. Regranted(which, {})
  BY <1>2, EndingRegrants, Typed DEF Inv
<1>4. \A i \in which : i \in DOMAIN grants /\ grants[i].role = "lead" /\ grants[i].person = p
  BY <1>1, <1>2 DEF Inv, TypeInv, SawOK, Lists
<1>5. Excused(p)' \/ LeadMatches(p)'
  <2>1. Excused(p)' \/ \A i \in Listed(r) \ saw.grants : grants[i].late
    BY <1>1, <1>2, CommitMarks
  <2>2. ASSUME NEW i \in HeldAs(p, "lead")
        PROVE  ~grants[i].late
    BY <2>2 DEF HeldAs, Held, Ordered, Structural
  <2>3. Listed(r) = HeldAs(p, "lead")
    BY <1>2 DEF Listed, Leaving
  <2>4. Excused(p)' \/ \A i \in HeldAs(p, "lead") : i \in which
    BY <2>1, <2>2, <2>3
  <2> HIDE DEF which
  <2> QED
    BY <1>2, <1>3, <2>4, LeadEnds
<1> HIDE DEF which
<1>6. ASSUME NEW q \in Persons \ {p}
      PROVE  LeadUntouched(q, which, {}) /\ NothingNew(q, {})
  BY <1>2, <1>4, LeadAlone, NobodyNew DEF Gone, Live
<1>7. NothingNew(p, {})
  BY <1>2, NobodyNew DEF Gone, Live
<1>8. ASSUME NEW d \in Departments
      PROVE  HeadUntouched(d, which, {})
  BY <1>2, <1>4, HeadAlone
<1>9. \A d \in Departments : departments'[d].head # None => Live(d)'
  BY <1>2 DEF Ordered, Live
<1> QED
  BY <1>2, <1>3, <1>5, <1>6, <1>7, <1>8, <1>9, CommitHandlers, StepKeeps

LEMMA GiveOrdered ==
  ASSUME Inv, Ordered, NEW h \in Handlers, Give(h)
  PROVE  Ordered'
<1>1. PICK r : r = Of(h)
  OBVIOUS
<1> DEFINE p == r.person
           g == Given(p, r.role, r.dept, r.late)
<1>2. /\ Commits(h, "grant") /\ people' = people /\ departments' = departments
      /\ members' = members /\ p \in Persons /\ r.op = "grant"
      /\ r.late \in BOOLEAN /\ grants \in Seq(Grant) /\ grants' = Append(grants, g)
  BY <1>1, OwnPerson, Typed DEF Inv, Give, Commits
<1>3. \/ r.role = "addon" /\ r.dept = None
      \/ r.role = "custom" /\ r.dept \in Departments
  BY <1>1, <1>2, Typed DEF Inv, Request
<1>4. g \in Grant /\ g.person = p
  <2>1. r.role \in GrantedRoles /\ r.dept \in Somewhere
    BY <1>1, <1>2, OwnPerson
  <2> QED
    BY <1>2, <2>1, GivenRow
<1>5. g.role = r.role /\ g.at = r.dept /\ g.late = r.late /\ Structural(g)
  BY <1>2, <1>3, GivenFields
<1> HIDE DEF g
<1>6. Regranted({}, {g})
  BY <1>2, <1>4, GivingRegrants
<1>7. Excused(p)' \/ (people[p].active /\ (r.role = "addon" => Staff(p)))
  BY <1>1, <1>2, CommitMarks DEF PersonFacts, Leaving
<1>8. Excused(r.dept)' \/ (r.role = "custom" => Live(r.dept))
  BY <1>1, <1>2, CommitMarks DEF DepartmentFacts
<1>9. ASSUME NEW q \in Persons
      PROVE  LeadUntouched(q, {}, {g})
  BY <1>2, <1>3, <1>5, LeadAlone
<1>10. ASSUME NEW q \in Persons
       PROVE  Excused(q)' \/ NothingNew(q, {g})
  <2>1. CASE q = p
    BY <1>2, <1>3, <1>5, <1>7, <2>1 DEF NothingNew, Gone, Staff
  <2>2. CASE q # p
    BY <1>2, <1>4, <2>2, NobodyNew DEF Gone, Live
  <2> QED
    BY <2>1, <2>2
<1>11. ASSUME NEW d \in Departments
       PROVE  Excused(d)' \/ HeadUntouched(d, {}, {g})
  <2>1. CASE d # r.dept
    BY <1>2, <1>5, <2>1, HeadAlone
  <2>2. CASE d = r.dept
    <3>1. r.role = "custom"
      BY <1>3, <2>2, NoneAssumption
    <3>2. Excused(d)' \/ departments[d].state # "archived"
      BY <1>8, <2>2, <3>1 DEF Live
    <3> QED
      BY <1>2, <1>5, <3>1, <3>2 DEF HeadUntouched
  <2> QED
    BY <2>1, <2>2
<1>12. \A d \in Departments : departments'[d].head # None => Live(d)'
  BY <1>2 DEF Ordered, Live
<1> QED
  BY <1>2, <1>5, <1>6, <1>9, <1>10, <1>11, <1>12, CommitHandlers, StepKeeps

\* Dates that come or are set, and reviews, end nothing.
LEMMA KeptDated ==
  ASSUME NEW g \in Grant, NEW begun \in BOOLEAN, begun, NEW date \in {"open", "dated", "over"},
         NEW review \in {"none", "flagged", "due"}
  PROVE  /\ ~g.begun => /\ Kept(g, [g EXCEPT !.begun = begun])
                        /\ [g EXCEPT !.begun = begun].ended <=> g.ended
         /\ date = "over" \/ g.date # "over" =>
              /\ Kept(g, [g EXCEPT !.date = date])
              /\ [g EXCEPT !.date = date].ended <=> g.ended
         /\ review = "none" \/ g.review # "none" =>
              /\ Kept(g, [g EXCEPT !.review = review])
              /\ [g EXCEPT !.review = review].ended <=> g.ended
<1>1. g \in GrantRows /\ g.ended \in BOOLEAN
  BY DEF Grant, GrantRows
<1>2. ASSUME ~g.begun
      PROVE  /\ Kept(g, [g EXCEPT !.begun = begun])
             /\ [g EXCEPT !.begun = begun].ended <=> g.ended
  <2> DEFINE new == [g EXCEPT !.begun = begun]
  <2>1. /\ new.person = g.person /\ new.role = g.role /\ new.at = g.at /\ new.late = g.late
        /\ new.date = g.date /\ new.ended = g.ended /\ new.review = g.review /\ new.begun = begun
    BY <1>1 DEF GrantRows
  <2>2. SameGrant(g, new)
    BY <1>2, RowKept
  <2> HIDE DEF new
  <2>3. Kept(g, new) /\ (new.ended <=> g.ended)
    BY <2>1, <2>2 DEF Kept, Active, Structural
  <2> QED
    BY <2>3 DEF new
<1>3. ASSUME date = "over" \/ g.date # "over"
      PROVE  /\ Kept(g, [g EXCEPT !.date = date])
             /\ [g EXCEPT !.date = date].ended <=> g.ended
  <2> DEFINE new == [g EXCEPT !.date = date]
  <2>1. /\ new.person = g.person /\ new.role = g.role /\ new.at = g.at /\ new.late = g.late
        /\ new.date = date /\ new.ended = g.ended /\ new.review = g.review
        /\ new.begun = g.begun
    BY <1>1 DEF GrantRows
  <2>2. SameGrant(g, new)
    BY <1>3, RowKept
  <2> HIDE DEF new
  <2>3. Kept(g, new) /\ (new.ended <=> g.ended)
    BY <1>3, <2>1, <2>2 DEF Kept, Active, Structural
  <2> QED
    BY <2>3 DEF new
<1>4. ASSUME review = "none" \/ g.review # "none"
      PROVE  /\ Kept(g, [g EXCEPT !.review = review])
             /\ [g EXCEPT !.review = review].ended <=> g.ended
  <2> DEFINE new == [g EXCEPT !.review = review]
  <2>1. /\ new.person = g.person /\ new.role = g.role /\ new.at = g.at /\ new.late = g.late
        /\ new.date = g.date /\ new.ended = g.ended /\ new.review = review
        /\ new.begun = g.begun
    BY <1>1 DEF GrantRows
  <2>2. SameGrant(g, new)
    BY RowKept
  <2> HIDE DEF new
  <2>3. Kept(g, new) /\ (new.ended <=> g.ended)
    BY <1>4, <2>1, <2>2 DEF Kept, Active, Structural
  <2> QED
    BY <2>3 DEF new
<1> QED
  BY <1>2, <1>3, <1>4

\* A status that is not a leaver's changes nothing here.
LEMMA StatusOrdered ==
  ASSUME Inv, Ordered, outdated \subseteq outdated',
         \A k \in Handlers : handlers'[k].busy => handlers'[k] = handlers[k],
         grants' = grants, members' = members, departments' = departments,
         NEW p \in Persons, NEW statuses \in SUBSET Statuses, NEW active \in BOOLEAN,
         SetStatus(p, statuses, active), active \/ "deactivated" \notin statuses
  PROVE  Ordered'
<1>1. /\ \A q \in Persons \ {p} : people'[q] = people[q]
      /\ people'[p].role = people[p].role /\ people'[p].active = active
      /\ people'[p].status \in statuses
  BY StatusSet
<1>2. \A q \in Persons : people'[q].role = people[q].role /\ (Gone(q)' => Gone(q))
  BY <1>1 DEF Gone
<1> QED
  BY <1>2, SameRegrants, QuietKeeps, Typed DEF Inv

LEMMA SuspendOrdered ==
  ASSUME Inv, Ordered, NEW h \in Handlers, Suspend(h) \/ Reactivate(h)
  PROVE  Ordered'
<1>1. PICK op \in {"suspend", "reactivate"} : Commits(h, op)
  BY DEF Suspend, Reactivate
<1>2. /\ Of(h).person \in Persons /\ departments' = departments /\ members' = members
      /\ grants' = grants
  BY <1>1, OwnPerson DEF Commits, Suspend, Reactivate
<1> DEFINE active == ~Suspend(h)
           statuses == IF Suspend(h) THEN {"suspended"} ELSE {"active", "invited"}
<1>3. /\ active \in BOOLEAN /\ statuses \in SUBSET Statuses
      /\ "deactivated" \notin statuses
  BY DEF Statuses
<1>4. SetStatus(Of(h).person, statuses, active)
  BY DEF Suspend, Reactivate
<1> HIDE DEF active, statuses
<1> QED
  BY <1>1, <1>2, <1>3, <1>4, CommitHandlers, StatusOrdered

LEMMA LeaveOrdered ==
  ASSUME Inv, Ordered, NEW h \in Handlers, Leave(h)
  PROVE  Ordered'
<1>1. PICK r, saw : r = Of(h) /\ saw = SeenBy(h)
  OBVIOUS
<1>2. PICK op \in Leaving : Commits(h, op)
  BY DEF Leave
<1> DEFINE p == r.person
           which == saw.grants \union UNION {HeadsOf(d) : d \in saw.heads}
           no == FALSE
           statuses == {"deactivated"}
<1>3. /\ r.op = op /\ p \in Persons /\ handlers[h].busy /\ grants' = Ending(which)
      /\ saw.heads \subseteq Departments /\ op # "sweep"
  BY <1>1, <1>2, OwnPerson, Typed DEF Inv, Leave, Commits, Leaving
<1>4. /\ departments' = [d \in Departments |->
            IF d \in saw.heads THEN [departments[d] EXCEPT !.head = None] ELSE departments[d]]
      /\ members' = [members EXCEPT ![p] = IF saw.member THEN "none" ELSE @]
  BY <1>1 DEF Leave
<1>5. /\ \A d \in Departments : departments'[d].state = departments[d].state
      /\ \A d \in saw.heads : departments'[d].head = None
      /\ \A d \in Departments \ saw.heads : departments'[d] = departments[d]
  BY <1>3, <1>4, Typed DEF Inv, Department
<1>6. /\ saw.member => members'[p] = "none"
      /\ ~saw.member => members'[p] = members[p]
      /\ \A q \in Persons \ {p} : members'[q] = members[q]
  BY <1>3, <1>4, Typed DEF Inv
<1>7. SetStatus(p, statuses, no) /\ no \in BOOLEAN /\ statuses \in SUBSET Statuses
  BY <1>1 DEF Leave, Statuses
<1> HIDE DEF no, statuses
<1>8. /\ \A q \in Persons \ {p} : people'[q] = people[q]
      /\ people'[p].role = people[p].role
  BY <1>3, <1>7, StatusSet
<1>9. Regranted(which, {})
  BY <1>3, EndingRegrants, Typed DEF Inv
<1>10. \A i \in which : i \in DOMAIN grants /\ (i \in saw.grants => grants[i].person = p)
  BY <1>1, <1>3 DEF Inv, TypeInv, SawOK, Lists, HeadsOf, HeldAt
<1>11. \A i \in which : i \notin saw.grants =>
         grants[i].role = "head" /\ \E d \in saw.heads : grants[i].at = d
  BY DEF HeadsOf, HeldAt
<1>12. \A d \in saw.heads : \A i \in HeadsOf(d) : i \in which
  OBVIOUS
<1>13. \A i \in saw.grants : i \in which
  OBVIOUS
<1> HIDE DEF which
\* The leaver, unless the commit overlooked something.
<1>14. ASSUME ~Excused(p)'
       PROVE  LeadMatches(p)' /\ NothingLeft(p)'
  <2>1. /\ \A i \in Listed(r) \ saw.grants : grants[i].late
        /\ Saw(r).heads \subseteq saw.heads /\ (Saw(r).member => saw.member)
    BY <1>1, <1>2, <1>3, <1>14, CommitMarks
  <2>2. /\ Listed(r) = Held(p) /\ Saw(r).heads = HeadedBy(p)
        /\ Saw(r).member <=> members[p] # "none"
    BY <1>3 DEF Listed, Saw, Leaving
  <2>3. members'[p] = "none" /\ "none" # "lead"
    BY <1>6, <2>1, <2>2
  <2>4. ASSUME NEW i \in HeldAs(p, "lead")
        PROVE  i \in which
    BY <1>13, <2>1, <2>2, <2>4 DEF HeldAs, Held, Ordered, Structural
  <2>5. LeadMatches(p)'
    BY <1>3, <1>9, <2>3, <2>4, LeadEnds
  <2>6. ASSUME NEW i \in Held(p)'
        PROVE  grants'[i].late
    <3>1. i \in DOMAIN grants' /\ Active(grants'[i]) /\ grants'[i].person = p
      BY <2>6 DEF Held
    <3>2. TypeInv
      BY DEF Inv
    <3>3. /\ i \in DOMAIN grants /\ i \notin which /\ grants[i].person = p
          /\ grants'[i].late = grants[i].late /\ (grants'[i].late \/ Active(grants[i]))
      BY <1>9, <3>1, <3>2, HeldBefore
    <3> QED
      BY <1>13, <2>1, <2>2, <3>3 DEF Held
  <2>7. HeadedBy(p)' = {}
    <3>1. ASSUME NEW d \in Departments, Live(d)', departments'[d].head = p
          PROVE  FALSE
      BY <1>3, <1>5, <2>1, <2>2, <3>1, NoneAssumption DEF HeadedBy, Live
    <3> QED
      BY <3>1 DEF HeadedBy
  <2>8. \A i \in HeldAs(p, "lead")' \union HeldAs(p, "addon")' : i \in Held(p)'
    BY DEF HeldAs
  <2> QED
    BY <2>3, <2>5, <2>6, <2>7, <2>8 DEF NothingLeft
<1>15. ASSUME NEW q \in Persons \ {p}
       PROVE  LeadUntouched(q, which, {}) /\ NothingNew(q, {})
  <2>1. \A i \in which : grants[i].role # "lead" \/ grants[i].person # q
    BY <1>10, <1>11
  <2>2. LeadUntouched(q, which, {})
    BY <1>6, <2>1, LeadAlone
  <2>3. \A e \in Departments : Live(e)' /\ departments'[e].head = q =>
                                 Live(e) /\ departments[e].head = q
    BY <1>5, NoneAssumption DEF Live
  <2> QED
    BY <1>6, <1>8, <2>2, <2>3, NobodyNew DEF Gone
<1>16. ASSUME NEW d \in saw.heads, ~Excused(d)'
       PROVE  HeadMatches(d)'
  <2>0. d \in Departments /\ TypeInv
    BY <1>3 DEF Inv
  <2>1. HeadMatches(d)
    <3>1. ~Excused(d)
      BY <1>2, <1>16, CommitHandlers DEF Excused
    <3> QED
      BY <2>0, <3>1, Matches DEF Ordered
  <2>2. ASSUME NEW i \in HeldAt(d)'
        PROVE  /\ grants'[i].role # "head"
               /\ departments'[d].state = "archived" => grants'[i].late
    <3>1. i \in DOMAIN grants' /\ Active(grants'[i]) /\ grants'[i].at = d
      BY <2>2 DEF HeldAt
    <3>2. i \in DOMAIN grants => Structural(grants[i])
      BY DEF Ordered
    <3>3. /\ i \in DOMAIN grants /\ i \notin which /\ grants'[i].role = grants[i].role
          /\ grants[i].at = d /\ grants'[i].late = grants[i].late
          /\ grants'[i].late \/ Active(grants[i])
      BY <1>9, <2>0, <3>1, HeldBefore
    <3>4. grants[i].role # "head"
      BY <1>12, <3>2, <3>3 DEF HeadsOf, HeldAt, Structural
    <3>5. departments[d].state = "archived" => grants[i].late
      BY <2>1, <3>3 DEF HeadMatches, HeldAt
    <3> QED
      BY <1>5, <2>0, <3>3, <3>4, <3>5
  <2>3. \A q \in Persons : departments'[d].head # q
    BY <1>5, NoneAssumption
  <2> QED
    BY <2>2, <2>3 DEF HeadMatches, HeadsOf
<1>17. ASSUME NEW d \in Departments \ saw.heads, ~Excused(d)'
       PROVE  HeadUntouched(d, which, {})
  <2>1. ASSUME NEW i \in HeadsOf(d), i \in which
        PROVE  Excused(grants[i].person)'
    <3>1. i \in DOMAIN grants /\ grants[i].role = "head" /\ grants[i].at = d
      BY <2>1 DEF HeadsOf, HeldAt
    <3>2. i \in saw.grants /\ grants[i].person = p
      BY <1>10, <1>11, <2>1, <3>1
    <3>3. Foreseen(h)
      BY DEF Ordered
    <3>4. Excused(p) \/ Excused(d)
      BY <1>1, <1>3, <3>1, <3>2, <3>3 DEF Foreseen
    <3>5. Excused(p)'
      BY <1>2, <1>17, <3>4, CommitHandlers DEF Excused
    <3>6. grants'[i].person = p
      BY <1>9, <3>1, <3>2 DEF Regranted, Kept, SameGrant
    <3> QED
      BY <3>5, <3>6 DEF Excused
  <2> QED
    BY <1>5, <2>1 DEF HeadUntouched
<1>18. \A d \in Departments : departments'[d].head # None => Live(d)'
  BY <1>5 DEF Ordered, Live
<1>19. \A d \in Departments : Excused(d)' \/ HeadMatches(d)' \/ HeadUntouched(d, which, {})
  BY <1>16, <1>17
<1>20. \A q \in Persons : /\ Excused(q)' \/ LeadMatches(q)' \/ LeadUntouched(q, which, {})
                          /\ Excused(q)' \/ NothingLeft(q)' \/ NothingNew(q, {})
  BY <1>14, <1>15
<1> QED
  BY <1>2, <1>9, <1>18, <1>19, <1>20, CommitHandlers, StepKeeps

LEMMA AssignOrdered ==
  ASSUME Inv, Ordered, NEW h \in Handlers, Assign(h)
  PROVE  Ordered'
<1>1. PICK r, saw : r = Of(h) /\ saw = SeenBy(h)
  OBVIOUS
<1> DEFINE p == r.person
           addons == HeldAs(p, "addon")
           all == Held(p) \ HeldAs(p, "head")
<1>2. /\ Commits(h, "assign") /\ r.op = "assign" /\ p \in Persons /\ departments' = departments
      /\ r.role \in BaseRoles /\ grants \in Seq(Grant)
  BY <1>1, OwnPerson, Typed DEF Inv, Assign, Commits, RoleChange
<1>3. /\ people'[p].role = r.role /\ people'[p].status = people[p].status
      /\ people'[p].active = people[p].active
      /\ \A q \in Persons \ {p} : people'[q] = people[q] /\ members'[q] = members[q]
      /\ members'[p] = IF r.role = "employee" THEN "none" ELSE members[p]
  BY <1>1, <1>2, Typed DEF Inv, Assign, Person
<1>4. \A d \in Departments : departments'[d].head # None => Live(d)'
  BY <1>2 DEF Ordered, Live
<1>5. \A which, given :
        (\A i \in which : i \in Held(p) /\ grants[i].role # "head") /\
        (\A g \in given : g.person = p /\ g.role = "addon" /\ g.at = None) =>
          /\ \A d \in Departments : HeadUntouched(d, which, given)
          /\ \A q \in Persons \ {p} : LeadUntouched(q, which, given) /\ NothingNew(q, given)
  <2> SUFFICES ASSUME NEW which, NEW given,
                      \A i \in which : i \in Held(p) /\ grants[i].role # "head",
                      \A g \in given : g.person = p /\ g.role = "addon" /\ g.at = None
               PROVE  /\ \A d \in Departments : HeadUntouched(d, which, given)
                      /\ \A q \in Persons \ {p} :
                           LeadUntouched(q, which, given) /\ NothingNew(q, given)
    OBVIOUS
  <2>1. ASSUME NEW d \in Departments
        PROVE  HeadUntouched(d, which, given)
    BY <1>2, HeadAlone, NoneAssumption
  <2>2. ASSUME NEW q \in Persons \ {p}
        PROVE  LeadUntouched(q, which, given) /\ NothingNew(q, given)
    BY <1>2, <1>3, LeadAlone, NobodyNew DEF Held, Gone, Live
  <2> QED
    BY <2>1, <2>2
\* Somebody who becomes an employee.
<1>6. CASE r.role = "employee"
  <2>1. grants' = Ending(all)
    BY <1>1, <1>6 DEF Assign
  <2>2. Regranted(all, {})
    BY <1>2, <2>1, EndingRegrants
  <2>3. \A i \in all : i \in Held(p) /\ grants[i].role # "head"
    BY DEF HeldAs
  <2>4. \A i \in Held(p) : grants[i].role # "head" => i \in all
    BY DEF HeldAs
  <2> HIDE DEF all
  <2>5. LeadMatches(p)'
    <3>1. members'[p] # "lead"
      BY <1>3, <1>6
    <3>2. \A i \in HeldAs(p, "lead") : i \in all
      BY <2>4 DEF HeldAs
    <3> QED
      BY <1>2, <2>2, <3>1, <3>2, LeadEnds
  <2>6. ASSUME ~Excused(p)'
        PROVE  NothingLeft(p)'
    <3>1. NothingLeft(p)
      <4>1. ~Excused(p)
        BY <1>2, <2>6, CommitHandlers DEF Excused
      <4> QED
        BY <1>2, <4>1, Matches DEF Ordered
    <3>2. ASSUME NEW i \in Held(p)', Gone(p)' \/ grants'[i].role # "head"
          PROVE  grants'[i].late
      <4>1. i \in DOMAIN grants' /\ Active(grants'[i]) /\ grants'[i].person = p /\ TypeInv
        BY <3>2 DEF Held, Inv
      <4>2. /\ i \in DOMAIN grants /\ i \notin all /\ grants[i].person = p
            /\ grants'[i].role = grants[i].role /\ grants'[i].late = grants[i].late
            /\ grants'[i].late \/ Active(grants[i])
        BY <2>2, <4>1, HeldBefore
      <4>3. Gone(p)' => Gone(p)
        BY <1>3 DEF Gone
      <4> QED
        BY <2>4, <3>1, <3>2, <4>2, <4>3 DEF Held, NothingLeft
    <3>3. members'[p] = "none"
      BY <1>3, <1>6
    <3>4. Gone(p)' => HeadedBy(p)' = {}
      BY <1>2, <1>3, <3>1 DEF Gone, NothingLeft, HeadedBy, Live
    <3>5. /\ Gone(p)' => \A i \in Held(p)' : grants'[i].late
          /\ \A i \in HeldAs(p, "lead")' \union HeldAs(p, "addon")' : grants'[i].late
      BY <3>2 DEF HeldAs
    <3> QED
      BY <3>3, <3>4, <3>5 DEF NothingLeft
  <2>7. /\ \A d \in Departments : HeadUntouched(d, all, {})
        /\ \A q \in Persons \ {p} : LeadUntouched(q, all, {}) /\ NothingNew(q, {})
    BY <1>5, <2>3
  <2>8. \A q \in Persons : /\ Excused(q)' \/ LeadMatches(q)' \/ LeadUntouched(q, all, {})
                           /\ Excused(q)' \/ NothingLeft(q)' \/ NothingNew(q, {})
    BY <2>5, <2>6, <2>7
  <2> QED
    BY <1>2, <1>4, <2>2, <2>7, <2>8, CommitHandlers, StepKeeps
\* Somebody who becomes or stays staff, and keeps an add-on or does not.
<1>7. CASE r.role # "employee"
  <2>1. \E which, given :
          /\ Regranted(which, given) /\ which \subseteq addons
          /\ \A g \in given : /\ g.person = p /\ g.role = "addon" /\ g.at = None
                              /\ Structural(g) /\ saw.addon /\ addons = {}
    <3>1. CASE ~saw.addon
      <4>1. grants' = Ending(addons)
        BY <1>1, <1>7, <3>1 DEF Assign
      <4>2. Regranted(addons, {})
        BY <1>2, <4>1, EndingRegrants
      <4> QED
        BY <4>2
    <3>2. CASE saw.addon /\ addons # {}
      <4>1. grants' = grants
        BY <1>1, <1>7, <3>2 DEF Assign
      <4>2. Regranted({}, {})
        BY <1>2, <4>1, SameRegrants
      <4> QED
        BY <4>2
    <3>3. CASE saw.addon /\ addons = {}
      <4> DEFINE addon == "addon"
                 no == FALSE
                 g == Given(p, addon, None, no)
      <4>1. /\ grants' = Append(grants, g) /\ no \in BOOLEAN /\ addon = "addon"
            /\ addon \notin {"lead", "head"} /\ addon \in GrantedRoles /\ None \in Somewhere
        BY <1>1, <1>7, <3>3 DEF Assign, GrantedRoles, Somewhere
      <4> HIDE DEF addon, no
      <4>2. g \in Grant /\ g.person = p
        BY <1>2, <4>1, GivenRow
      <4>3. g.role = "addon" /\ g.at = None /\ Structural(g)
        BY <4>1, GivenFields
      <4> HIDE DEF g
      <4>4. Regranted({}, {g})
        BY <1>2, <4>1, <4>2, GivingRegrants
      <4> QED
        BY <3>3, <4>2, <4>3, <4>4
    <3> QED
      BY <3>1, <3>2, <3>3
  <2>2. PICK which, given :
          /\ Regranted(which, given) /\ which \subseteq addons
          /\ \A g \in given : /\ g.person = p /\ g.role = "addon" /\ g.at = None
                              /\ Structural(g) /\ saw.addon /\ addons = {}
    BY <2>1
  <2>3. \A i \in which : i \in Held(p) /\ grants[i].role = "addon"
    BY <2>2 DEF HeldAs
  <2>4. LeadUntouched(p, which, given)
    BY <1>2, <1>3, <1>7, <2>2, <2>3, LeadAlone
  <2>5. Excused(p)' \/ NothingNew(p, given)
    <3>1. Excused(p)' \/ Saw(r).addon = saw.addon
      BY <1>1, <1>2, CommitMarks
    <3>2. Saw(r).addon <=> addons # {}
      BY <1>2, <1>7 DEF Saw, RoleChange
    <3>3. Excused(p)' \/ \A g \in given : FALSE
      BY <2>2, <3>1, <3>2
    <3> QED
      BY <1>2, <1>3, <1>7, <3>3 DEF NothingNew, Gone, Staff, HeadedBy, Live
  <2>6. /\ \A d \in Departments : HeadUntouched(d, which, given)
        /\ \A q \in Persons \ {p} : LeadUntouched(q, which, given) /\ NothingNew(q, given)
    <3>1. \A i \in which : i \in Held(p) /\ grants[i].role # "head"
      BY <2>3
    <3>2. \A g \in given : g.person = p /\ g.role = "addon" /\ g.at = None
      BY <2>2
    <3> QED
      BY <1>5, <3>1, <3>2
  <2>7. \A q \in Persons : /\ LeadUntouched(q, which, given)
                           /\ Excused(q)' \/ NothingNew(q, given)
    BY <2>4, <2>5, <2>6
  <2> QED
    BY <1>2, <1>4, <2>2, <2>6, <2>7, CommitHandlers, StepKeeps
<1> QED
  BY <1>6, <1>7

LEMMA SweepOrdered ==
  ASSUME Inv, Ordered, NEW h \in Handlers, Sweep(h)
  PROVE  Ordered'
<1>1. PICK which : which = SeenBy(h).grants
  OBVIOUS
<1>2. /\ Commits(h, "sweep") /\ handlers[h].busy /\ Of(h).op = "sweep"
      /\ people' = people /\ departments' = departments /\ members' = members
      /\ grants' = Ending(which)
  BY <1>1 DEF Sweep, Commits
<1>3. Regranted(which, {})
  BY <1>2, EndingRegrants, Typed DEF Inv
<1>4. \A i \in which : grants[i].role \in {"lead", "head"} => ~Active(grants[i])
  BY <1>1, <1>2 DEF Ordered, Foreseen, Active
<1> QED
  BY <1>2, <1>3, <1>4, CommitHandlers, QuietKeeps DEF Gone

LEMMA RowOrdered ==
  ASSUME Inv, Ordered, NEW i \in DOMAIN grants, NEW new, Kept(grants[i], new),
         (new.ended <=> grants[i].ended) \/ (new.ended /\ ~grants[i].ended /\
                                             grants[i].role \notin {"lead", "head"}),
         grants' = [grants EXCEPT ![i] = new],
         people' = people, departments' = departments, members' = members,
         handlers' = handlers, outdated' = outdated
  PROVE  Ordered'
<1>1. \/ Regranted({}, {})
      \/ Regranted({i}, {}) /\ grants[i].role \notin {"lead", "head"}
  BY RowRegrants
<1> QED
  BY <1>1, QuietKeeps DEF Gone

LEMMA ChangeOrdered ==
  ASSUME Inv, Ordered, NEW r \in todo, Change(r), handlers' = handlers, outdated' = outdated
  PROVE  Ordered'
<1>1. PICK i \in DOMAIN grants :
        /\ ~grants[i].ended /\ grants[i].date # "over"
        /\ \/ grants[i].role \in {"addon", "custom"} /\ grants' = [grants EXCEPT ![i].ended = TRUE]
           \/ \E date \in {"open", "dated"} : grants' = [grants EXCEPT ![i].date = date]
           \/ grants' = [grants EXCEPT ![i].review = "none"]
  BY DEF Change
<1>2. /\ people' = people /\ departments' = departments /\ members' = members
      /\ grants[i] \in Grant /\ grants \in Seq(Grant)
  BY Rows, Typed DEF Inv, Change
<1> DEFINE yes == TRUE
           none == "none"
<1>3. yes /\ yes \in BOOLEAN /\ none = "none" /\ none \in {"none", "flagged", "due"}
  OBVIOUS
<1>4. /\ Kept(grants[i], [grants[i] EXCEPT !.ended = yes])
      /\ [grants[i] EXCEPT !.ended = yes].ended
  BY <1>2, KeptEnded
<1>5. CASE grants[i].role \in {"addon", "custom"} /\ grants' = [grants EXCEPT ![i].ended = TRUE]
  <2> DEFINE new == [grants[i] EXCEPT !.ended = yes]
  <2>1. grants' = [grants EXCEPT ![i] = new]
    BY <1>2, <1>5
  <2> HIDE DEF yes
  <2>2. Kept(grants[i], new) /\ new.ended
    BY <1>4
  <2> HIDE DEF new
  <2> QED
    BY <1>1, <1>2, <1>5, <2>1, <2>2, RowOrdered
<1>6. ASSUME NEW date \in {"open", "dated"}, grants' = [grants EXCEPT ![i].date = date]
      PROVE  Ordered'
  <2> DEFINE new == [grants[i] EXCEPT !.date = date]
  <2>1. grants' = [grants EXCEPT ![i] = new]
    BY <1>2, <1>6
  <2>2. Kept(grants[i], new) /\ (new.ended <=> grants[i].ended)
    <3>1. date \in {"open", "dated", "over"}
      BY <1>6
    <3> HIDE DEF yes, none
    <3> QED
      BY <1>1, <1>2, <1>3, <3>1, KeptDated
  <2> HIDE DEF new
  <2> QED
    BY <1>2, <2>1, <2>2, RowOrdered
<1>7. CASE grants' = [grants EXCEPT ![i].review = "none"]
  <2> DEFINE new == [grants[i] EXCEPT !.review = none]
             open == "open"
  <2>1. grants' = [grants EXCEPT ![i] = new] /\ open \in {"open", "dated", "over"}
    BY <1>2, <1>7
  <2> HIDE DEF yes, none, open
  <2>2. Kept(grants[i], new) /\ (new.ended <=> grants[i].ended)
    BY <1>2, <1>3, <2>1, KeptDated
  <2> HIDE DEF new
  <2> QED
    BY <1>2, <2>1, <2>2, RowOrdered
<1> QED
  BY <1>1, <1>5, <1>6, <1>7

LEMMA TimeOrdered ==
  ASSUME Inv, Ordered, Time
  PROVE  Ordered'
<1>1. PICK i \in DOMAIN grants :
        \/ ~grants[i].begun /\ grants' = [grants EXCEPT ![i].begun = TRUE]
        \/ grants' = [grants EXCEPT ![i].date = "over"]
        \/ grants[i].review = "flagged" /\ grants' = [grants EXCEPT ![i].review = "due"]
  BY DEF Time
<1>2. /\ people' = people /\ departments' = departments /\ members' = members
      /\ handlers' = handlers /\ outdated' = outdated
      /\ grants[i] \in Grant /\ grants \in Seq(Grant)
  BY Rows, Typed DEF Inv, Time
<1> DEFINE yes == TRUE
           over == "over"
           due == "due"
<1>3. /\ yes /\ yes \in BOOLEAN /\ over = "over" /\ over \in {"open", "dated", "over"}
      /\ due \in {"none", "flagged", "due"}
  OBVIOUS
<1>4. \E new : /\ grants' = [grants EXCEPT ![i] = new] /\ Kept(grants[i], new)
               /\ new.ended <=> grants[i].ended
  <2>1. CASE ~grants[i].begun /\ grants' = [grants EXCEPT ![i].begun = TRUE]
    <3> DEFINE new == [grants[i] EXCEPT !.begun = yes]
    <3>1. grants' = [grants EXCEPT ![i] = new]
      BY <1>2, <2>1
    <3> HIDE DEF yes, over, due
    <3>2. Kept(grants[i], new) /\ (new.ended <=> grants[i].ended)
      BY <1>2, <1>3, <2>1, KeptDated
    <3> HIDE DEF new
    <3> QED
      BY <3>1, <3>2
  <2>2. CASE grants' = [grants EXCEPT ![i].date = "over"]
    <3> DEFINE new == [grants[i] EXCEPT !.date = over]
    <3>1. grants' = [grants EXCEPT ![i] = new]
      BY <1>2, <2>2
    <3> HIDE DEF yes, over, due
    <3>2. Kept(grants[i], new) /\ (new.ended <=> grants[i].ended)
      BY <1>2, <1>3, KeptDated
    <3> HIDE DEF new
    <3> QED
      BY <3>1, <3>2
  <2>3. CASE grants[i].review = "flagged" /\ grants' = [grants EXCEPT ![i].review = "due"]
    <3> DEFINE new == [grants[i] EXCEPT !.review = due]
    <3>1. grants' = [grants EXCEPT ![i] = new]
      BY <1>2, <2>3
    <3> HIDE DEF yes, over, due
    <3>2. Kept(grants[i], new) /\ (new.ended <=> grants[i].ended)
      BY <1>2, <1>3, <2>3, KeptDated
    <3> HIDE DEF new
    <3> QED
      BY <3>1, <3>2
  <2> QED
    BY <1>1, <2>1, <2>2, <2>3
<1> HIDE DEF yes, over, due
<1>5. PICK new : /\ grants' = [grants EXCEPT ![i] = new] /\ Kept(grants[i], new)
                 /\ new.ended <=> grants[i].ended
  BY <1>4
<1> QED
  BY <1>2, <1>5, RowOrdered

LEMMA SignInOrdered ==
  ASSUME Inv, Ordered, NEW r \in todo, SignIn(r), handlers' = handlers, outdated' = outdated
  PROVE  Ordered'
<1> DEFINE p == r.person
           yes == TRUE
           statuses == {IF people[p].status = "invited" THEN "active" ELSE people[p].status}
<1>1. /\ p \in Persons /\ departments' = departments /\ members' = members /\ grants' = grants
  BY Typed DEF SignIn, Inv, Request
<1>2. SetStatus(p, statuses, yes) /\ yes \in BOOLEAN /\ yes
  BY DEF SignIn
<1>3. statuses \in SUBSET Statuses
  BY <1>1, Typed DEF Inv, Person, Statuses
<1> HIDE DEF yes, statuses
<1> QED
  BY <1>1, <1>2, <1>3, StatusOrdered

\* What a handler reads at first is in order, so that what it will end is foreseen.
LEMMA AskOrdered ==
  ASSUME Inv, Ordered, NEW h \in Handlers, Ask(h)
  PROVE  Ordered'
<1>1. PICK r \in todo :
        handlers' = [handlers EXCEPT ![h] = [busy |-> TRUE, request |-> r, saw |-> Saw(r)]]
  BY DEF Ask
<1>2. /\ people' = people /\ departments' = departments /\ members' = members
      /\ grants' = grants /\ outdated' = outdated /\ r \in Request
  BY Typed DEF Ask, Inv
<1>3. /\ Of(h)' = r /\ SeenBy(h)' = Saw(r)
      /\ \A k \in Handlers \ {h} : handlers'[k] = handlers[k]
  BY <1>1, Typed DEF Of, SeenBy, Inv
<1>4. Saw(r).grants = Listed(r)
  BY <1>2, SawTyped DEF Inv
<1>5. ASSUME r.op \in Leaving, NEW i \in Listed(r), grants[i].role = "head"
      PROVE  grants[i].at \in Saw(r).heads \/ Excused(r.person) \/ Excused(grants[i].at)
  <2>1. PICK d, p : d = grants[i].at /\ p = r.person
    OBVIOUS
  <2>2. /\ i \in DOMAIN grants /\ Active(grants[i]) /\ grants[i].person = p /\ r.op # "sweep"
        /\ r.op # "remove"
    BY <1>5, <2>1 DEF Listed, Held, Leaving
  <2>3. Structural(grants[i]) /\ grants[i] \in GrantRows
    BY <2>2, Rows, Typed DEF Ordered, Inv
  <2>4. d \in Departments /\ p \in Persons /\ ~grants[i].late
    BY <1>5, <2>1, <2>2, <2>3 DEF Structural, GrantRows, Somewhere
  <2>5. i \in HeadsOf(d)
    BY <1>5, <2>1, <2>2 DEF HeadsOf, HeldAt
  <2>6. Excused(d) \/ Excused(p) \/ departments[d].head = p
    <3>1. Excused(d) \/ HeadMatches(d)
      BY <2>4, Matches DEF Ordered
    <3>2. HeadMatches(d) => Excused(grants[i].person) \/ departments[d].head = grants[i].person
      BY <2>5 DEF HeadMatches
    <3> QED
      BY <2>2, <3>1, <3>2
  <2>7. departments[d].head = p => d \in HeadedBy(p)
    BY <2>4, NoneAssumption DEF Ordered, HeadedBy
  <2>8. Saw(r).heads = HeadedBy(p)
    BY <1>5, <2>1 DEF Saw
  <2> QED
    BY <2>1, <2>6, <2>7, <2>8
<1>6. ASSUME r.op = "sweep", NEW i \in Listed(r), grants[i].role \in {"lead", "head"}
      PROVE  grants[i].date = "over"
  <2>1. i \in DOMAIN grants /\ (grants[i].date = "over" \/ grants[i].review = "due")
    BY <1>6 DEF Listed, Leaving
  <2>2. Structural(grants[i])
    BY <2>1 DEF Ordered
  <2> QED
    BY <1>6, <2>1, <2>2 DEF Structural
<1>7. Foreseen(h)'
  <2>1. \A x : Excused(x) => \E op \in Ops \ {"sweep"} : <<op, x>> \in outdated'
    BY <1>2 DEF Excused
  <2>2. r.op \in Leaving => \A i \in Listed(r) : grants[i].role = "head" =>
          \/ grants[i].at \in Saw(r).heads
          \/ \E op \in Ops \ {"sweep"} : <<op, r.person>> \in outdated'
          \/ \E op \in Ops \ {"sweep"} : <<op, grants[i].at>> \in outdated'
    BY <1>5, <2>1
  <2> QED
    BY <1>2, <1>3, <1>4, <1>6, <2>2 DEF Foreseen, Excused
<1>8. Regranted({}, {})
  BY <1>2, SameRegrants, Typed DEF Inv
<1> QED
  BY <1>2, <1>3, <1>7, <1>8, QuietKeeps DEF Gone

\* A change of role that takes its person's row ends nothing yet.
LEMMA LockRightsOrdered ==
  ASSUME Inv, Ordered, NEW h \in Handlers, LockRights(h)
  PROVE  Ordered'
<1>1. /\ people' = people /\ departments' = departments /\ members' = members
      /\ grants' = grants /\ outdated' = outdated
      /\ \A k \in Handlers \ {h} : handlers'[k] = handlers[k]
      /\ handlers'[h] = Idle \/ Of(h)'.op = "assign"
  BY RightsLocked
<1>2. Foreseen(h)'
  BY <1>1, IdleTyped DEF Foreseen, Leaving
<1>3. Regranted({}, {})
  BY <1>1, SameRegrants, Typed DEF Inv
<1> QED
  BY <1>1, <1>2, <1>3, QuietKeeps DEF Gone

LEMMA OrderedNext == Inv /\ Ordered /\ [Next]_vars => Ordered'
<1> SUFFICES ASSUME Inv, Ordered, [Next]_vars
             PROVE  Ordered'
  OBVIOUS
<1>1. ASSUME NEW h \in Handlers,
             \/ Ask(h) \/ LockRights(h)
             \/ Create(h) \/ Edit(h) \/ Move(h) \/ Archive(h) \/ Place(h)
             \/ AddMember(h) \/ RemoveMember(h)
             \/ Give(h) \/ Suspend(h) \/ Reactivate(h) \/ Leave(h) \/ Assign(h) \/ Sweep(h)
      PROVE  Ordered'
  BY <1>1, AskOrdered, LockRightsOrdered, HeadOrdered, MoveOrdered, ArchiveOrdered, PlaceOrdered,
     AddMemberOrdered, RemoveMemberOrdered, GiveOrdered, SuspendOrdered, LeaveOrdered,
     AssignOrdered, SweepOrdered
<1>2. ASSUME NEW h \in Handlers, Abort(h)
      PROVE  Ordered'
  <2>1. /\ people' = people /\ departments' = departments /\ members' = members
        /\ grants' = grants /\ outdated' = outdated
        /\ handlers' = [handlers EXCEPT ![h] = Idle] /\ ~Idle.busy
    BY <1>2, IdleTyped DEF Abort
  <2>2. \A k \in Handlers : handlers'[k].busy => handlers'[k] = handlers[k]
    BY <2>1, Typed DEF Inv
  <2> QED
    BY <2>1, <2>2, SameRegrants, QuietKeeps, Typed DEF Inv, Gone
<1>3. CASE Act
  BY <1>3, SignInOrdered, ChangeOrdered DEF Act
<1>4. CASE Time
  BY <1>4, TimeOrdered
<1>5. CASE UNCHANGED vars
  BY <1>5, SameRegrants, QuietKeeps, Typed DEF Inv, Gone, vars
<1> QED
  BY <1>1, <1>2, <1>3, <1>4, <1>5 DEF Next

\* The structure is in order at the beginning.
LEMMA InitOrdered == Init => Ordered
<1> SUFFICES ASSUME NEW scene \in Scenes, Starts(scene), InOrder
             PROVE  Ordered
  BY DEF Init
<1>1. \A h \in Handlers : Foreseen(h)
  <2>1. \A h \in Handlers : ~handlers[h].busy
    BY IdleTyped DEF Starts
  <2> QED
    BY <2>1 DEF Foreseen
<1>2. \A d \in Departments : {grants[i].person : i \in HeadsOf(d)} = {departments[d].head} \ {None}
  BY DEF InOrder
<1>3. ASSUME NEW d \in Departments
      PROVE  /\ \A i \in HeadsOf(d) : departments[d].head = grants[i].person
             /\ departments[d].head # None =>
                  \E i \in HeadsOf(d) : grants[i].person = departments[d].head
  <2>1. \A i \in HeadsOf(d) : grants[i].person \in {departments[d].head} \ {None}
    BY <1>2
  <2>2. departments[d].head # None =>
          departments[d].head \in {grants[i].person : i \in HeadsOf(d)}
    BY <1>2
  <2> QED
    BY <2>1, <2>2
<1>4. \A d \in Departments : ~Live(d) => HeadsOf(d) = {} /\ HeldAt(d) = {}
  BY DEF InOrder, HeadsOf
<1>5. ASSUME NEW d \in Departments
      PROVE  HeadMatches(d) /\ (departments[d].head # None => Live(d))
  BY <1>3, <1>4, NoneAssumption DEF HeadMatches, Live
<1>6. ASSUME NEW p \in Persons
      PROVE  LeadMatches(p) /\ NothingLeft(p)
  BY DEF InOrder, LeadMatches, NothingLeft
<1>7. \A i \in DOMAIN grants : Structural(grants[i])
  BY DEF InOrder
<1> QED
  BY <1>1, <1>5, <1>6, <1>7, Matches DEF Ordered

\* The department of somebody active is live, unless they came back to it or it was overlooked.
HasPlace(p) ==
  people[p].active /\ ~people[p].returned => Live(people[p].dept) \/ Excused(people[p].dept)

LEMMA PlaceStays ==
  ASSUME NEW p \in Persons, NEW d, d = people[p].dept, HasPlace(p), outdated \subseteq outdated',
         people'[p].active /\ ~people'[p].returned =>
           people[p].active /\ ~people[p].returned /\ people'[p].dept = d,
         people[p].active /\ Live(d) => Live(d)' \/ Excused(d)'
  PROVE  HasPlace(p)'
<1>1. people'[p].active /\ ~people'[p].returned => Live(d) \/ Excused(d)
  BY DEF HasPlace
<1>2. Excused(d) => Excused(d)'
  BY DEF Excused
<1>3. people'[p].active /\ ~people'[p].returned =>
        people'[p].dept = d /\ (Live(d)' \/ Excused(d)')
  BY <1>1, <1>2
<1> QED
  BY <1>3 DEF HasPlace, Live, Excused

\* Whoever was not active comes back.
LEMMA StatusPlaced ==
  ASSUME Inv, NEW p \in Persons, NEW statuses \in SUBSET Statuses, NEW active \in BOOLEAN,
         SetStatus(p, statuses, active)
  PROVE  \A q \in Persons :
           /\ people'[q].dept = people[q].dept
           /\ people'[q].active /\ ~people'[q].returned =>
                people[q].active /\ ~people[q].returned
<1>1. PICK status \in statuses :
        people' = [people EXCEPT ![p].status = status, ![p].active = active,
                                 ![p].returned = @ \/ (active /\ ~people[p].active)]
  BY DEF SetStatus
<1> DEFINE returned == people[p].returned \/ (active /\ ~people[p].active)
           new == [people[p] EXCEPT !.status = status, !.active = active, !.returned = returned]
<1>2. people[p] \in Person /\ returned \in BOOLEAN
  BY Typed DEF Inv, Person
<1>3. people' = [people EXCEPT ![p] = new]
  BY <1>1, Typed DEF Inv
<1>4. ~returned => ~people[p].returned /\ (active => people[p].active)
  OBVIOUS
<1> HIDE DEF returned
<1>5. new.dept = people[p].dept /\ new.active = active /\ new.returned = returned
  BY <1>2 DEF Person
<1> HIDE DEF new
<1>6. new.active /\ ~new.returned => people[p].active /\ ~people[p].returned
  BY <1>4, <1>5
<1> QED
  BY <1>3, <1>5, <1>6, Typed DEF Inv

LEMMA PlacesNext == Inv /\ PeopleHaveADepartment /\ [Next]_vars => PeopleHaveADepartment'
<1> SUFFICES ASSUME Inv, PeopleHaveADepartment, [Next]_vars, NEW p \in Persons
             PROVE  HasPlace(p)'
  BY DEF PeopleHaveADepartment, HasPlace
<1>1. outdated \subseteq outdated' /\ HasPlace(p)
  BY OutdatedGrows DEF PeopleHaveADepartment, HasPlace
<1>2. PICK d : d = people[p].dept
  OBVIOUS
<1>3. d \in Departments
  BY <1>2, Typed DEF Inv, Person
\* Where no department is archived.
<1>4. ASSUME \A e \in Departments : Live(e) => Live(e)',
             people' = people \/ (people'[p].active /\ ~people'[p].returned =>
               people[p].active /\ ~people[p].returned /\ people'[p].dept = d)
      PROVE  HasPlace(p)'
  BY <1>1, <1>2, <1>3, <1>4, PlaceStays
<1>5. ASSUME NEW h \in Handlers, Create(h) \/ Edit(h) \/ Move(h)
      PROVE  HasPlace(p)'
  <2>1. people' = people /\ \A e \in Departments : Live(e) => Live(e)'
    BY <1>5, Typed DEF Inv, Create, Edit, Move, Department, Live
  <2> QED
    BY <1>4, <2>1
<1>6. ASSUME NEW h \in Handlers, Archive(h)
      PROVE  HasPlace(p)'
  <2>1. PICK r : r = Of(h)
    OBVIOUS
  <2>2. Commits(h, "archive") /\ people' = people /\ r.op = "archive"
    BY <1>6, <2>1 DEF Archive, Commits
  <2>3. Excused(r.dept)' \/ \A q \in Persons : people[q].active => people[q].dept # r.dept
    BY <2>1, <2>2, CommitMarks DEF DepartmentFacts
  <2>4. \A e \in Departments \ {r.dept} : departments'[e] = departments[e]
    BY <1>6, <2>1, Typed DEF Inv, Archive
  <2>5. people[p].active /\ Live(d) => Live(d)' \/ Excused(d)'
    <3>1. CASE d = r.dept
      BY <1>2, <2>3, <3>1
    <3>2. CASE d # r.dept
      BY <1>3, <2>4, <3>2 DEF Live
    <3> QED
      BY <3>1, <3>2
  <2> QED
    BY <1>1, <1>2, <2>2, <2>5, PlaceStays
<1>7. ASSUME NEW h \in Handlers, Place(h)
      PROVE  HasPlace(p)'
  <2>1. PICK r : r = Of(h)
    OBVIOUS
  <2>2. PICK op \in {"place", "profile"} : Commits(h, op)
    BY <1>7 DEF Place
  <2>3. r.op = op /\ departments' = departments /\ r.person \in Persons
    BY <1>7, <2>1, <2>2, OwnPerson DEF Place, Commits
  <2>4. Excused(r.dept)' \/ Live(r.dept)
    BY <2>1, <2>2, <2>3, CommitMarks DEF DepartmentFacts
  <2>5. /\ people'[r.person].dept = r.dept
        /\ \A q \in Persons \ {r.person} : people'[q] = people[q]
    BY <1>7, <2>1, <2>3, Typed DEF Inv, Place, Person
  <2>6. CASE p = r.person
    <3>1. Live(r.dept)' \/ Excused(r.dept)'
      BY <2>3, <2>4 DEF Live
    <3> QED
      BY <2>5, <2>6, <3>1 DEF HasPlace, Live, Excused
  <2>7. CASE p # r.person
    BY <1>2, <1>4, <2>3, <2>5, <2>7 DEF Live
  <2> QED
    BY <2>6, <2>7
<1>8. ASSUME NEW h \in Handlers,
             \/ Ask(h) \/ LockRights(h) \/ Abort(h)
             \/ AddMember(h) \/ RemoveMember(h) \/ Give(h) \/ Sweep(h)
      PROVE  HasPlace(p)'
  <2>1. people' = people /\ departments' = departments
    BY <1>8 DEF Ask, LockRights, Abort, AddMember, RemoveMember, Give, Sweep
  <2> QED
    BY <1>4, <2>1 DEF Live
<1>9. ASSUME NEW q \in Persons, NEW statuses \in SUBSET Statuses, NEW active \in BOOLEAN,
             SetStatus(q, statuses, active), \A e \in Departments : Live(e) => Live(e)'
      PROVE  HasPlace(p)'
  BY <1>2, <1>4, <1>9, StatusPlaced
<1>10. ASSUME NEW h \in Handlers, Suspend(h) \/ Reactivate(h) \/ Leave(h)
       PROVE  HasPlace(p)'
  <2>1. Of(h).op \in {"suspend", "reactivate"} \union Leaving
    BY <1>10 DEF Suspend, Reactivate, Leave, Commits
  <2>2. Of(h).person \in Persons
    BY <2>1, OwnPerson DEF Leaving
  <2> DEFINE active == Of(h).op = "reactivate"
             statuses == IF Of(h).op \in Leaving THEN {"deactivated"}
                         ELSE IF active THEN {"active", "invited"} ELSE {"suspended"}
  <2>3. active \in BOOLEAN /\ statuses \in SUBSET Statuses
    BY DEF Statuses
  <2>4. SetStatus(Of(h).person, statuses, active)
    BY <1>10 DEF Suspend, Reactivate, Leave, Commits, Leaving
  <2>5. \A e \in Departments : Live(e) => Live(e)'
    BY <1>10, Typed DEF Inv, Suspend, Reactivate, Leave, Department, Live
  <2> HIDE DEF active, statuses
  <2> QED
    BY <1>9, <2>2, <2>3, <2>4, <2>5
<1>11. ASSUME NEW h \in Handlers, Assign(h)
       PROVE  HasPlace(p)'
  <2>1. Of(h).person \in Persons /\ departments' = departments
    BY <1>11, OwnPerson DEF Assign, Commits
  <2>2. /\ people'[p].dept = people[p].dept /\ people'[p].active = people[p].active
        /\ people'[p].returned = people[p].returned
    BY <1>11, <2>1, Typed DEF Inv, Assign, Person
  <2> QED
    BY <1>2, <1>4, <2>1, <2>2 DEF Live
<1>12. CASE Act
  <2>1. PICK r \in todo : SignIn(r) \/ Change(r)
    BY <1>12 DEF Act
  <2>2. departments' = departments
    BY <2>1 DEF SignIn, Change
  <2>3. CASE SignIn(r)
    <3> DEFINE q == r.person
               yes == TRUE
               statuses == {IF people[q].status = "invited" THEN "active"
                            ELSE people[q].status}
    <3>1. q \in Persons
      BY <2>3, Typed DEF SignIn, Inv, Request
    <3>2. SetStatus(q, statuses, yes) /\ yes \in BOOLEAN
      BY <2>3 DEF SignIn
    <3>3. statuses \in SUBSET Statuses
      BY <3>1, Typed DEF Inv, Person, Statuses
    <3> HIDE DEF yes, statuses
    <3> QED
      BY <1>9, <2>2, <3>1, <3>2, <3>3 DEF Live
  <2>4. CASE Change(r)
    BY <1>4, <2>2, <2>4 DEF Change, Live
  <2> QED
    BY <2>1, <2>3, <2>4
<1>13. CASE Time \/ UNCHANGED vars
  BY <1>4, <1>13 DEF Time, Live, vars
<1> QED
  BY <1>5, <1>6, <1>7, <1>8, <1>10, <1>11, <1>12, <1>13 DEF Next

-----------------------------------------------------------------------------
(* The departments above one *)

Before == {ss \in Nat \X Nat : ss[1] < ss[2]}

LEMMA BeforeIsWellFounded == IsWellFoundedOn(Before, Nat)
<1>1. OpToRel(<, Nat) = Before
  BY Zenon DEF OpToRel, Before
<1> QED
  BY <1>1, NatLessThanWellFounded, Zenon

LEMMA Least ==
  ASSUME NEW S, S \subseteq Nat, S # {}
  PROVE  \E n \in S : \A m \in S : n <= m
<1>1. PICK n \in S : \A m \in S : ~(<<m, n>> \in Before)
  BY BeforeIsWellFounded, WFMin, Zenon
<1>2. \A m \in S : ~(m < n)
  BY <1>1 DEF Before
<1> QED
  BY <1>2

Count == Cardinality(Departments)

LEMMA CountType == Count \in Nat /\ Count > 0 /\ IsFiniteSet(Departments)
<1>1. Count \in Nat /\ IsFiniteSet(Departments)
  BY DepartmentsAssumption, FS_CardinalityType DEF Count
<1>2. Count # 0
  BY DepartmentsAssumption, OrganisationAssumption, FS_EmptySet DEF Count
<1> QED
  BY <1>1, <1>2

\* Above, for any departments `ds`.
ParentIn(ds, x) == IF x = None THEN None ELSE ds[x].parent
AboveIn(ds, d) ==
  LET up[n \in 0 .. Cardinality(Departments)] ==
        IF n = 0 THEN d ELSE IF up[n - 1] = None THEN None ELSE ds[up[n - 1]].parent
  IN up

\* A walk up from `d` of `m` steps.
Walk(ds, d, m, w) ==
  w = [n \in 0 .. m |-> IF n = 0 THEN d ELSE IF w[n - 1] = None THEN None ELSE ds[w[n - 1]].parent]

LEMMA WalkOn ==
  ASSUME NEW ds, NEW d, NEW m \in Nat, m > 0, NEW w, Walk(ds, d, m - 1, w)
  PROVE  \E v : Walk(ds, d, m, v)
<1> DEFINE v == [n \in 0 .. m |-> IF n = m THEN ParentIn(ds, w[m - 1]) ELSE w[n]]
<1>1. ASSUME NEW n \in 0 .. m
      PROVE  v[n] = IF n = 0 THEN d ELSE ParentIn(ds, v[n - 1])
  <2>1. CASE n = m
    <3>1. v[n - 1] = w[m - 1] /\ v[n] = ParentIn(ds, w[m - 1])
      BY <2>1
    <3> QED
      BY <2>1, <3>1
  <2>2. CASE n # m
    <3>1. n \in 0 .. (m - 1) /\ v[n] = w[n]
      BY <2>2
    <3>2. w[n] = IF n = 0 THEN d ELSE ParentIn(ds, w[n - 1])
      BY <3>1 DEF Walk, ParentIn
    <3>3. n # 0 => v[n - 1] = w[n - 1]
      BY <2>2
    <3> QED
      BY <3>1, <3>2, <3>3
  <2> QED
    BY <2>1, <2>2
<1>2. v = [n \in 0 .. m |-> v[n]]
  OBVIOUS
<1> HIDE DEF v
<1>3. Walk(ds, d, m, v)
  BY <1>1, <1>2 DEF Walk, ParentIn
<1> QED
  BY <1>3

LEMMA WalkExists ==
  ASSUME NEW ds, NEW d, NEW m \in Nat
  PROVE  \E w : Walk(ds, d, m, w)
<1> DEFINE Bad == {k \in Nat : ~ \E w : Walk(ds, d, k, w)}
<1>1. SUFFICES ASSUME Bad # {} PROVE FALSE
  OBVIOUS
<1>2. Bad \subseteq Nat
  OBVIOUS
<1>3. PICK k \in Bad : \A j \in Bad : k <= j
  <2> HIDE DEF Bad
  <2> QED
    BY <1>1, <1>2, Least
<1>4. CASE k = 0
  <2>1. Walk(ds, d, 0, [n \in 0 .. 0 |-> d])
    BY DEF Walk
  <2> QED
    BY <1>4, <2>1
<1>5. CASE k > 0
  <2>1. k - 1 \in Nat /\ k - 1 \notin Bad
    <3> HIDE DEF Bad
    <3> QED
      BY <1>2, <1>3, <1>5
  <2>2. PICK w : Walk(ds, d, k - 1, w)
    <3> HIDE DEF Walk
    <3> QED
      BY <2>1
  <2> QED
    BY <1>5, <2>2, WalkOn
<1> QED
  BY <1>3, <1>4, <1>5

LEMMA AboveIs ==
  ASSUME NEW ds, NEW d, NEW w, w = AboveIn(ds, d)
  PROVE  /\ DOMAIN w = 0 .. Count /\ w[0] = d
         /\ \A n \in 1 .. Count : w[n] = ParentIn(ds, w[n - 1])
<1>1. \E v : Walk(ds, d, Count, v)
  BY CountType, WalkExists
<1> DEFINE up[n \in 0 .. Count] ==
             IF n = 0 THEN d ELSE IF up[n - 1] = None THEN None ELSE ds[up[n - 1]].parent
<1>2. w = up
  BY DEF AboveIn, Count
<1>3. Walk(ds, d, Count, up)
  BY <1>1 DEF Walk
<1> HIDE DEF up
<1>4. Walk(ds, d, Count, w)
  BY <1>2, <1>3
<1>5. \A n \in 0 .. Count : w[n] = IF n = 0 THEN d ELSE ParentIn(ds, w[n - 1])
  BY <1>4 DEF Walk, ParentIn
<1>6. DOMAIN w = 0 .. Count
  BY <1>4 DEF Walk
<1> QED
  BY <1>5, <1>6, CountType

\* Whom a walk up from `d` meets, None if it comes to an end.
Line(ds, d) == {AboveIn(ds, d)[n] : n \in 0 .. Count}

LEMMA AboveTyped ==
  ASSUME NEW ds \in [Departments -> Department], NEW d \in Somewhere,
         NEW w, w = AboveIn(ds, d)
  PROVE  \A n \in 0 .. Count : w[n] \in Somewhere
<1> DEFINE Bad == {n \in 0 .. Count : w[n] \notin Somewhere}
<1>1. SUFFICES ASSUME Bad # {} PROVE FALSE
  OBVIOUS
<1>2. PICK n \in Bad : \A m \in Bad : n <= m
  <2>1. Bad \subseteq Nat
    BY CountType
  <2> HIDE DEF Bad
  <2> QED
    BY <1>1, <2>1, Least
<1>3. n # 0 /\ n \in 1 .. Count /\ n - 1 \in 0 .. Count
  BY <1>2, AboveIs, CountType
<1>4. w[n - 1] \in Somewhere
  BY <1>2, <1>3
<1>5. w[n] = ParentIn(ds, w[n - 1])
  BY <1>3, AboveIs
<1>6. \A x \in Somewhere : ParentIn(ds, x) \in Somewhere
  BY DEF ParentIn, Somewhere, Department
<1> QED
  BY <1>2, <1>4, <1>5, <1>6

\* There are not departments enough for it to meet a new one at each step.
LEMMA WalkTurns ==
  ASSUME NEW ds \in [Departments -> Department], NEW d \in Somewhere,
         NEW w, w = AboveIn(ds, d)
  PROVE  \E r \in 1 .. Count : ParentIn(ds, w[Count]) = w[r]
<1>1. /\ DOMAIN w = 0 .. Count /\ \A n \in 1 .. Count : w[n] = ParentIn(ds, w[n - 1])
  BY AboveIs
<1>2. Count \in Nat /\ Count > 0 /\ IsFiniteSet(Departments)
  BY CountType
<1>3. CASE w[Count] = None
  <2>1. ParentIn(ds, w[Count]) = w[Count] /\ Count \in 1 .. Count
    BY <1>2, <1>3 DEF ParentIn
  <2> QED
    BY <2>1
<1>4. CASE w[Count] # None
  <2>1. \A n \in 0 .. Count : w[n] # None
    <3> SUFFICES ASSUME NEW k \in 0 .. Count, w[k] = None PROVE FALSE
      OBVIOUS
    <3> DEFINE Bad == {n \in k .. Count : w[n] # None}
    <3>1. Count \in Bad /\ Bad \subseteq Nat
      BY <1>2, <1>4
    <3>2. PICK n \in Bad : \A m \in Bad : n <= m
      <4> HIDE DEF Bad
      <4> QED
        BY <3>1, Least
    <3>3. n \in 1 .. Count /\ n - 1 \in k .. Count
      BY <1>2, <3>2
    <3>4. w[n - 1] = None
      BY <3>2, <3>3
    <3> QED
      BY <1>1, <3>2, <3>3, <3>4 DEF ParentIn
  <2>2. \A n \in 0 .. Count : w[n] \in Departments
    BY <2>1, AboveTyped DEF Somewhere
  <2> DEFINE f == [n \in 0 .. Count |-> w[n]]
  <2>3. f \in [0 .. Count -> Departments]
    BY <2>2
  <2>4. IsFiniteSet(0 .. Count) /\ Cardinality(0 .. Count) = Count + 1
    BY <1>2, FS_Interval
  <2>5. PICK x \in 0 .. Count, y \in 0 .. Count : x # y /\ f[x] = f[y]
    <3>1. Cardinality(Departments) < Cardinality(0 .. Count)
      BY <1>2, <2>4 DEF Count
    <3> HIDE DEF f
    <3> QED
      BY <1>2, <2>3, <2>4, <3>1, FS_PigeonHole
  <2>6. PICK i \in 0 .. Count, j \in 0 .. Count : i < j /\ w[i] = w[j]
    BY <1>2, <2>5
  <2> DEFINE k == Count - j
             Bad == {m \in 0 .. k : w[i + m] # w[j + m]}
  <2>7. Bad = {}
    <3> SUFFICES ASSUME Bad # {} PROVE FALSE
      OBVIOUS
    <3>1. PICK m \in Bad : \A l \in Bad : m <= l
      <4>1. Bad \subseteq Nat
        BY <1>2
      <4> HIDE DEF Bad
      <4> QED
        BY <4>1, Least
    <3>2. m # 0 /\ m \in 0 .. k
      BY <1>2, <2>6, <3>1
    <3>3. m - 1 \in 0 .. k /\ m - 1 < m
      BY <1>2, <2>6, <3>2
    <3>4. w[i + (m - 1)] = w[j + (m - 1)]
      BY <3>1, <3>3
    <3>5. i + m \in 1 .. Count /\ j + m \in 1 .. Count
          /\ (i + m) - 1 = i + (m - 1) /\ (j + m) - 1 = j + (m - 1)
      BY <1>2, <2>6, <3>2
    <3>6. w[i + m] = w[j + m]
      BY <1>1, <3>4, <3>5
    <3> QED
      BY <3>1, <3>6
  <2>8. k \in 0 .. k /\ j + k = Count /\ i + k + 1 \in 1 .. Count /\ (i + k + 1) - 1 = i + k
    BY <1>2, <2>6
  <2>9. w[i + k] = w[Count]
    BY <2>7, <2>8
  <2>10. w[i + k + 1] = ParentIn(ds, w[Count])
    BY <1>1, <2>8, <2>9
  <2> QED
    BY <2>8, <2>10
<1> QED
  BY <1>3, <1>4

\* So it is the least set with `d` that no parent leads out of.
LEMMA LineIs ==
  ASSUME NEW ds \in [Departments -> Department], NEW d \in Somewhere
  PROVE  /\ d \in Line(ds, d) /\ Line(ds, d) \subseteq Somewhere
         /\ \A x \in Line(ds, d) : ParentIn(ds, x) \in Line(ds, d)
<1>1. PICK w : w = AboveIn(ds, d)
  OBVIOUS
<1>2. w[0] = d /\ \A n \in 1 .. Count : w[n] = ParentIn(ds, w[n - 1])
  BY <1>1, AboveIs
<1>3. Line(ds, d) = {w[n] : n \in 0 .. Count}
  BY <1>1 DEF Line
<1>4. d \in Line(ds, d)
  BY <1>2, <1>3, CountType
<1>5. Line(ds, d) \subseteq Somewhere
  BY <1>1, <1>3, AboveTyped
<1>6. ASSUME NEW n \in 0 .. Count PROVE ParentIn(ds, w[n]) \in Line(ds, d)
  <2>1. CASE n = Count
    <3>1. PICK r \in 1 .. Count : ParentIn(ds, w[Count]) = w[r]
      BY <1>1, WalkTurns
    <3>2. r \in 0 .. Count
      BY CountType
    <3> QED
      BY <1>3, <2>1, <3>1, <3>2
  <2>2. CASE n # Count
    <3>1. n + 1 \in 1 .. Count /\ n + 1 \in 0 .. Count /\ (n + 1) - 1 = n
      BY <2>2, CountType
    <3>2. w[n + 1] = ParentIn(ds, w[n])
      BY <1>2, <3>1
    <3> QED
      BY <1>3, <3>1, <3>2
  <2> QED
    BY <2>1, <2>2
<1> QED
  BY <1>3, <1>4, <1>5, <1>6

LEMMA LineWithin ==
  ASSUME NEW ds \in [Departments -> Department], NEW d \in Somewhere, NEW T, d \in T,
         \A x \in T : ParentIn(ds, x) \in T
  PROVE  Line(ds, d) \subseteq T
<1>1. PICK w : w = AboveIn(ds, d)
  OBVIOUS
<1>2. w[0] = d /\ \A n \in 1 .. Count : w[n] = ParentIn(ds, w[n - 1])
  BY <1>1, AboveIs
<1> DEFINE Bad == {n \in 0 .. Count : w[n] \notin T}
<1>3. Bad = {}
  <2> SUFFICES ASSUME Bad # {} PROVE FALSE
    OBVIOUS
  <2>1. PICK n \in Bad : \A m \in Bad : n <= m
    <3>1. Bad \subseteq Nat
      BY CountType
    <3> HIDE DEF Bad
    <3> QED
      BY <3>1, Least
  <2>2. n # 0 /\ n \in 1 .. Count /\ n - 1 \in 0 .. Count /\ n - 1 < n
    BY <1>2, <2>1, CountType
  <2>3. w[n - 1] \in T
    BY <2>1, <2>2
  <2> QED
    BY <1>2, <2>1, <2>2, <2>3
<1> QED
  BY <1>1, <1>3 DEF Line

LEMMA LineOf ==
  ASSUME NEW ds \in [Departments -> Department], NEW d \in Somewhere, NEW x \in Line(ds, d)
  PROVE  x \in Somewhere /\ Line(ds, x) \subseteq Line(ds, d)
<1>1. x \in Somewhere
  BY LineIs
<1> QED
  BY <1>1, LineIs, LineWithin

LEMMA LineFrom ==
  ASSUME NEW ds \in [Departments -> Department], NEW d \in Somewhere
  PROVE  /\ ParentIn(ds, d) \in Somewhere
         /\ Line(ds, d) = {d} \union Line(ds, ParentIn(ds, d))
<1> DEFINE p == ParentIn(ds, d)
           T == {d} \union Line(ds, p)
<1>1. p \in Line(ds, d) /\ d \in Line(ds, d)
  BY LineIs
<1>2. p \in Somewhere /\ Line(ds, p) \subseteq Line(ds, d)
  BY <1>1, LineOf
<1>3. p \in Line(ds, p) /\ \A x \in Line(ds, p) : ParentIn(ds, x) \in Line(ds, p)
  BY <1>2, LineIs
<1>4. \A x \in T : ParentIn(ds, x) \in T
  BY <1>3
<1>5. Line(ds, d) \subseteq T
  BY <1>4, LineWithin
<1> QED
  BY <1>1, <1>2, <1>5

\* Of two above one, one is above the other.
LEMMA InLine ==
  ASSUME NEW ds \in [Departments -> Department], NEW f \in Somewhere,
         NEW x \in Line(ds, f), NEW y \in Line(ds, f)
  PROVE  x \in Line(ds, y) \/ y \in Line(ds, x)
<1> DEFINE T == {z \in Line(ds, f) : y \in Line(ds, z) \/ z \in Line(ds, y)}
<1>1. f \in T /\ y \in Somewhere
  BY LineIs, LineOf
<1>2. ASSUME NEW z \in T PROVE ParentIn(ds, z) \in T
  <2>1. z \in Somewhere /\ ParentIn(ds, z) \in Line(ds, f)
    BY LineIs, LineOf
  <2>2. CASE z \in Line(ds, y)
    <3>1. ParentIn(ds, z) \in Line(ds, y)
      BY <1>1, <2>2, LineIs
    <3> QED
      BY <2>1, <3>1
  <2>3. CASE z \notin Line(ds, y)
    <3>1. y \in Line(ds, z) /\ y # z
      BY <1>1, <2>3, LineIs
    <3>2. y \in Line(ds, ParentIn(ds, z))
      BY <2>1, <3>1, LineFrom
    <3> QED
      BY <2>1, <3>2
  <2> QED
    BY <2>2, <2>3
<1>3. Line(ds, f) \subseteq T
  BY <1>1, <1>2, LineWithin
<1> QED
  BY <1>3

\* One that a walk up does not come back to is not above its parent.
LEMMA NoCycle ==
  ASSUME NEW ds \in [Departments -> Department], NEW d \in Departments,
         \A n \in 1 .. Count : AboveIn(ds, d)[n] # d
  PROVE  d \notin Line(ds, ParentIn(ds, d))
<1>1. PICK w : w = AboveIn(ds, d)
  OBVIOUS
<1>2. d \in Somewhere /\ w[0] = d /\ \A n \in 1 .. Count : w[n] = ParentIn(ds, w[n - 1])
  BY <1>1, AboveIs DEF Somewhere
<1> DEFINE T == {w[n] : n \in 1 .. Count}
<1>3. ParentIn(ds, d) \in T
  <2>1. 1 \in 1 .. Count /\ 1 - 1 = 0
    BY CountType
  <2>2. w[1] = ParentIn(ds, d)
    BY <1>2, <2>1
  <2> QED
    BY <2>1, <2>2
<1>4. ASSUME NEW n \in 1 .. Count PROVE ParentIn(ds, w[n]) \in T
  <2>1. CASE n = Count
    BY <1>1, <1>2, <2>1, WalkTurns
  <2>2. CASE n # Count
    <3>1. n + 1 \in 1 .. Count /\ (n + 1) - 1 = n
      BY <2>2, CountType
    <3>2. w[n + 1] = ParentIn(ds, w[n])
      BY <1>2, <3>1
    <3> QED
      BY <3>1, <3>2
  <2> QED
    BY <2>1, <2>2
<1>5. ParentIn(ds, d) \in Somewhere
  BY <1>2, LineFrom
<1>6. \A x \in T : ParentIn(ds, x) \in T
  BY <1>4
<1>7. d \notin T
  BY <1>1
<1> HIDE DEF T
<1>8. Line(ds, ParentIn(ds, d)) \subseteq T
  BY <1>3, <1>5, <1>6, LineWithin
<1> QED
  BY <1>7, <1>8

\* Whoever is not below a department that is hung elsewhere keeps the departments above, ...
LEMMA LineApart ==
  ASSUME NEW ds \in [Departments -> Department], NEW es \in [Departments -> Department],
         NEW d \in Departments,
         \A e \in Departments \ {d} : es[e].parent = ds[e].parent,
         NEW f \in Somewhere, d \notin Line(ds, f)
  PROVE  Line(es, f) \subseteq Line(ds, f) /\ d \notin Line(es, f)
<1>1. /\ f \in Line(ds, f) /\ Line(ds, f) \subseteq Somewhere
      /\ \A x \in Line(ds, f) : ParentIn(ds, x) \in Line(ds, f)
  BY LineIs
<1>2. \A x \in Line(ds, f) : ParentIn(es, x) = ParentIn(ds, x)
  BY <1>1 DEF ParentIn, Somewhere
<1>3. \A x \in Line(ds, f) : ParentIn(es, x) \in Line(ds, f)
  BY <1>1, <1>2
<1>4. Line(es, f) \subseteq Line(ds, f)
  BY <1>1, <1>3, LineWithin
<1> QED
  BY <1>4

LEMMA LineKept ==
  ASSUME NEW ds \in [Departments -> Department], NEW es \in [Departments -> Department],
         NEW d \in Departments,
         \A e \in Departments \ {d} : es[e].parent = ds[e].parent,
         NEW f \in Somewhere, d \notin Line(ds, f) \/ d \notin Line(es, f)
  PROVE  Line(es, f) = Line(ds, f) /\ d \notin Line(ds, f) /\ d \notin Line(es, f)
<1>1. \A e \in Departments \ {d} : ds[e].parent = es[e].parent
  OBVIOUS
<1>2. d \notin Line(ds, f) => Line(es, f) \subseteq Line(ds, f) /\ d \notin Line(es, f)
  BY LineApart
<1>3. d \notin Line(es, f) => Line(ds, f) \subseteq Line(es, f) /\ d \notin Line(ds, f)
  BY <1>1, LineApart
<1> QED
  BY <1>2, <1>3

\* ... and whoever is below it has those that were below it, and its own.
LEMMA LineBelow ==
  ASSUME NEW ds \in [Departments -> Department], NEW es \in [Departments -> Department],
         NEW d \in Departments,
         \A e \in Departments \ {d} : es[e].parent = ds[e].parent,
         NEW f \in Somewhere, d \in Line(ds, f), d \notin Line(ds, ParentIn(ds, d))
  PROVE  Line(es, f) \subseteq (Line(ds, f) \ Line(ds, d)) \union Line(es, d)
<1> DEFINE T == (Line(ds, f) \ Line(ds, d)) \union Line(es, d)
<1>1. d \in Somewhere /\ d \in Line(ds, d) /\ d \in Line(es, d)
  BY LineIs DEF Somewhere
<1>2. ASSUME NEW y \in Line(ds, d), d \in Line(ds, y) PROVE y = d
  <2>1. CASE y \in Line(ds, ParentIn(ds, d))
    <3>1. ParentIn(ds, d) \in Somewhere
      BY <1>1, LineFrom
    <3> QED
      BY <1>2, <2>1, <3>1, LineOf
  <2>2. CASE y \notin Line(ds, ParentIn(ds, d))
    BY <1>1, <1>2, <2>2, LineFrom
  <2> QED
    BY <2>1, <2>2
<1>3. f \in T
  <2>1. f \in Line(ds, f)
    BY LineIs
  <2>2. f \in Line(ds, d) => f = d
    BY <1>2
  <2> QED
    BY <1>1, <2>1, <2>2
<1>4. ASSUME NEW x \in T PROVE ParentIn(es, x) \in T
  <2>1. CASE x \in Line(es, d)
    BY <1>1, <2>1, LineIs
  <2>2. CASE x \notin Line(es, d)
    <3> DEFINE y == ParentIn(ds, x)
    <3>1. /\ x \in Line(ds, f) /\ x \notin Line(ds, d) /\ x # d /\ x \in Somewhere
          /\ y \in Line(ds, f)
      BY <1>1, <2>2, LineIs
    <3>2. ParentIn(es, x) = y
      BY <3>1 DEF ParentIn, Somewhere
    <3>3. d \in Line(ds, x)
      BY <3>1, InLine
    <3>4. d \in Line(ds, y)
      BY <3>1, <3>3, LineFrom
    <3>5. y \in Line(ds, d) => y = d
      BY <1>2, <3>4
    <3> QED
      BY <1>1, <3>1, <3>2, <3>5
  <2> QED
    BY <2>1, <2>2
<1> HIDE DEF T
<1>5. Line(es, f) \subseteq T
  BY <1>3, <1>4, LineWithin
<1> QED
  BY <1>5 DEF T

LEMMA LineOfNone ==
  ASSUME NEW ds \in [Departments -> Department]
  PROVE  Line(ds, None) = {None}
<1> DEFINE T == {None}
<1>1. None \in T /\ \A x \in T : ParentIn(ds, x) \in T
  BY DEF ParentIn
<1>2. None \in Somewhere
  BY DEF Somewhere
<1>3. Line(ds, None) \subseteq T
  BY <1>1, <1>2, LineWithin
<1> QED
  BY <1>2, <1>3, LineIs

\* Where the parents stay, so do the departments above.
LEMMA SameLine ==
  ASSUME NEW ds \in [Departments -> Department], NEW es \in [Departments -> Department],
         \A e \in Departments : es[e].parent = ds[e].parent, NEW f \in Somewhere
  PROVE  Line(es, f) = Line(ds, f)
<1>1. \A x \in Somewhere : ParentIn(es, x) = ParentIn(ds, x)
  BY DEF ParentIn, Somewhere
<1>2. \A x \in Line(ds, f) : x \in Somewhere /\ ParentIn(es, x) \in Line(ds, f)
  BY <1>1, LineIs
<1>3. \A x \in Line(es, f) : x \in Somewhere /\ ParentIn(ds, x) \in Line(es, f)
  BY <1>1, LineIs
<1>4. f \in Line(ds, f) /\ f \in Line(es, f)
  BY LineIs
<1>5. Line(es, f) \subseteq Line(ds, f)
  BY <1>2, <1>4, LineWithin
<1>6. Line(ds, f) \subseteq Line(es, f)
  BY <1>3, <1>4, LineWithin
<1> QED
  BY <1>5, <1>6

-----------------------------------------------------------------------------
(* Trees *)

LiveIn(ds, d) == ds[d].state = "live"

\* The departments `ds` are a tree, but for what hangs below those of `ex`.
Upright(ds, ex, d) ==
  /\ ds[d].parent # None =>
       LiveIn(ds, ds[d].parent) \/ d \in ex \/ ds[d].parent \in ex
  /\ \/ \E e \in ex : e \in Line(ds, d)
     \/ None \in Line(ds, d) /\ Cardinality(Line(ds, d) \ {None}) <= MaxDepth
Tree(ds, ex) == \A d \in Departments : LiveIn(ds, d) => Upright(ds, ex, d)

LEMMA SetsJoin ==
  ASSUME NEW A \in SUBSET Departments, NEW B \in SUBSET Departments,
         NEW C \in SUBSET Departments, NEW d, C \subseteq A \union (B \union {d})
  PROVE  /\ Cardinality(A) \in Nat /\ Cardinality(B) \in Nat /\ Cardinality(C) \in Nat
         /\ Cardinality(C) <= Cardinality(A) + 1 + Cardinality(B)
<1>1. IsFiniteSet(A) /\ IsFiniteSet(B) /\ IsFiniteSet(C)
  BY DepartmentsAssumption, FS_Subset
<1>2. Cardinality(A) \in Nat /\ Cardinality(B) \in Nat /\ Cardinality(C) \in Nat
  BY <1>1, FS_CardinalityType
<1> DEFINE D == B \union {d}
<1>3. IsFiniteSet(D) /\ Cardinality(D) <= Cardinality(B) + 1 /\ Cardinality(D) \in Nat
  <2>1. IsFiniteSet(D) /\ Cardinality(D) = IF d \in B THEN Cardinality(B) ELSE Cardinality(B) + 1
    BY <1>1, FS_AddElement
  <2> HIDE DEF D
  <2> QED
    BY <1>2, <2>1
<1> HIDE DEF D
<1>4. /\ IsFiniteSet(A \union D)
      /\ Cardinality(A \union D) = Cardinality(A) + Cardinality(D) - Cardinality(A \cap D)
  BY <1>1, <1>3, FS_Union
<1>5. Cardinality(A \cap D) \in Nat
  <2>1. IsFiniteSet(A \cap D)
    BY <1>1, FS_Subset
  <2> QED
    BY <2>1, FS_CardinalityType
<1>6. Cardinality(C) <= Cardinality(A \union D)
  <2>1. C \in SUBSET (A \union D)
    BY DEF D
  <2> QED
    BY <1>4, <2>1, FS_Subset
<1> QED
  BY <1>2, <1>3, <1>4, <1>5, <1>6

\* The step leaves the tree where a department and those above it are the same.
LEMMA UprightStays ==
  ASSUME NEW ds \in [Departments -> Department], NEW es \in [Departments -> Department],
         NEW ex \in SUBSET Departments, NEW fx \in SUBSET Departments, ex \subseteq fx,
         NEW f \in Departments, Upright(ds, ex, f), Line(es, f) = Line(ds, f),
         es[f].parent = ds[f].parent,
         LiveIn(ds, ds[f].parent) /\ ds[f].parent # None =>
           LiveIn(es, ds[f].parent) \/ f \in fx \/ ds[f].parent \in fx
  PROVE  Upright(es, fx, f)
BY DEF Upright

\* Under p, d fits with all that is below it, and p is not below d.
MovesWell(ds, d, p) ==
  /\ p # None => LiveIn(ds, p)
  /\ None \in Line(ds, p) /\ d \notin Line(ds, p)
  /\ d \notin Line(ds, ParentIn(ds, d))
  /\ \A f \in Departments : LiveIn(ds, f) /\ d \in Line(ds, f) =>
       Cardinality((Line(ds, f) \ Line(ds, d)) \ {None}) + 1
         + Cardinality(Line(ds, p) \ {None}) <= MaxDepth

\* Moving a department, with its checks in force, or with the department marked.
LEMMA TreeMoved ==
  ASSUME NEW ds \in [Departments -> Department], NEW es \in [Departments -> Department],
         NEW ex \in SUBSET Departments, NEW fx \in SUBSET Departments, ex \subseteq fx,
         Tree(ds, ex), NEW d \in Departments, NEW p \in Somewhere, es[d].parent = p,
         \A e \in Departments : es[e].state = ds[e].state,
         \A e \in Departments \ {d} : es[e].parent = ds[e].parent,
         d \in fx \/ MovesWell(ds, d, p)
  PROVE  Tree(es, fx)
<1> USE DEF MovesWell
<1> SUFFICES ASSUME NEW f \in Departments, LiveIn(es, f) PROVE Upright(es, fx, f)
  BY DEF Tree
<1>1. f \in Somewhere /\ d \in Somewhere /\ LiveIn(ds, f) /\ Upright(ds, ex, f)
  BY DEF Somewhere, LiveIn, Tree
<1>2. CASE d \notin Line(es, f)
  <2>1. Line(es, f) = Line(ds, f)
    BY <1>1, <1>2, LineKept
  <2>2. f # d /\ es[f].parent = ds[f].parent
    BY <1>1, <1>2, LineIs
  <2>3. ds[f].parent \in Somewhere
    BY DEF Department
  <2>4. LiveIn(ds, ds[f].parent) /\ ds[f].parent # None => LiveIn(es, ds[f].parent)
    BY <2>3 DEF LiveIn, Somewhere
  <2> QED
    BY <1>1, <2>1, <2>2, <2>4, UprightStays
<1>3. CASE d \in Line(es, f) /\ d \in fx
  <2>1. \E e \in fx : e \in Line(es, f)
    BY <1>3
  <2>2. es[f].parent # None =>
          LiveIn(es, es[f].parent) \/ f \in fx \/ es[f].parent \in fx
    <3>1. CASE f = d
      BY <1>3, <3>1
    <3>2. CASE f # d
      <4>1. es[f].parent = ds[f].parent /\ ds[f].parent \in Somewhere
        BY <3>2 DEF Department
      <4> QED
        BY <1>1, <4>1 DEF Upright, LiveIn, Somewhere
    <3> QED
      BY <3>1, <3>2
  <2> QED
    BY <2>1, <2>2 DEF Upright
<1>4. CASE d \in Line(es, f) /\ d \notin fx
  <2>1. d \in Line(ds, f)
    BY <1>1, <1>4, LineKept
  <2>2. Line(es, p) = Line(ds, p)
    BY <1>4, LineKept
  <2>3. ParentIn(es, d) = p /\ Line(es, d) = {d} \union Line(ds, p)
    <3>1. ParentIn(es, d) = p
      BY NoneAssumption DEF ParentIn
    <3> QED
      BY <1>1, <2>2, <3>1, LineFrom
  <2>4. Line(es, f) \subseteq (Line(ds, f) \ Line(ds, d)) \union Line(es, d)
    BY <1>1, <1>4, <2>1, LineBelow
  <2>5. None \in Line(es, f)
    <3>1. Line(es, d) \subseteq Line(es, f)
      BY <1>1, <1>4, LineOf
    <3> QED
      BY <1>4, <2>3, <3>1
  <2> DEFINE A == (Line(ds, f) \ Line(ds, d)) \ {None}
             B == Line(ds, p) \ {None}
             C == Line(es, f) \ {None}
  <2>6. /\ A \subseteq Departments /\ B \subseteq Departments /\ C \subseteq Departments
        /\ C \subseteq A \union (B \union {d})
    BY <1>1, <2>3, <2>4, LineIs DEF Somewhere
  <2>7. Cardinality(A) + 1 + Cardinality(B) <= MaxDepth
    BY <1>1, <1>4, <2>1
  <2> HIDE DEF A, B, C
  <2>8. Cardinality(C) <= Cardinality(A) + 1 + Cardinality(B)
    BY <2>6, SetsJoin
  <2>9. Cardinality(A) \in Nat /\ Cardinality(B) \in Nat /\ Cardinality(C) \in Nat
        /\ MaxDepth \in Nat
    BY <2>6, SetsJoin, OrganisationAssumption
  <2>10. Cardinality(C) <= MaxDepth
    BY <2>7, <2>8, <2>9
  <2>11. es[f].parent # None =>
           LiveIn(es, es[f].parent) \/ f \in fx \/ es[f].parent \in fx
    <3>1. CASE f = d
      BY <1>4, <3>1 DEF LiveIn, Somewhere
    <3>2. CASE f # d
      <4>1. es[f].parent = ds[f].parent /\ ds[f].parent \in Somewhere
        BY <3>2 DEF Department
      <4> QED
        BY <1>1, <4>1 DEF Upright, LiveIn, Somewhere
    <3> QED
      BY <3>1, <3>2
  <2> QED
    BY <2>5, <2>10, <2>11 DEF Upright, C
<1> QED
  BY <1>2, <1>3, <1>4

\* Creating one: nothing unmarked hangs below a department that is not there yet.
LEMMA TreeGrown ==
  ASSUME NEW ds \in [Departments -> Department], NEW es \in [Departments -> Department],
         NEW ex \in SUBSET Departments, NEW fx \in SUBSET Departments, ex \subseteq fx,
         Tree(ds, ex), NEW d \in Departments, NEW p \in Somewhere, es[d].parent = p,
         ~LiveIn(ds, d), LiveIn(es, d),
         \A e \in Departments \ {d} : es[e].parent = ds[e].parent /\ es[e].state = ds[e].state,
         \/ d \in fx
         \/ /\ p # None => LiveIn(ds, p)
            /\ None \in Line(ds, p)
            /\ Cardinality(Line(ds, p) \ {None}) + 1 <= MaxDepth
  PROVE  Tree(es, fx)
<1> SUFFICES ASSUME NEW f \in Departments, LiveIn(es, f) PROVE Upright(es, fx, f)
  BY DEF Tree
<1>1. f \in Somewhere /\ d \in Somewhere
  BY DEF Somewhere
<1>2. es[f].parent # None =>
        LiveIn(es, es[f].parent) \/ f \in fx \/ es[f].parent \in fx
  <2>1. es[f].parent \in Somewhere
    BY DEF Department
  <2>2. CASE f = d
    BY <2>1, <2>2 DEF LiveIn, Somewhere
  <2>3. CASE f # d
    <3>1. es[f].parent = ds[f].parent /\ LiveIn(ds, f) /\ Upright(ds, ex, f)
      BY <2>3 DEF LiveIn, Tree
    <3> QED
      BY <2>1, <3>1 DEF Upright, LiveIn, Somewhere
  <2> QED
    BY <2>2, <2>3
<1>3. SUFFICES ASSUME \A e \in fx : e \notin Line(es, f)
               PROVE  None \in Line(es, f) /\ Cardinality(Line(es, f) \ {None}) <= MaxDepth
  BY <1>2 DEF Upright
\* From a live department on, all are live, so none is `d`.
<1>4. ASSUME NEW x \in Line(es, f), x = None \/ (x # d /\ LiveIn(ds, x))
      PROVE  d \notin Line(es, x)
  <2> DEFINE T == {y \in Line(es, f) : y = None \/ (y # d /\ LiveIn(ds, y))}
  <2>1. x \in T /\ x \in Somewhere
    BY <1>1, <1>4, LineOf
  <2>2. ASSUME NEW y \in T PROVE ParentIn(es, y) \in T
    <3>1. ParentIn(es, y) \in Line(es, f) /\ y \in Somewhere
      BY <1>1, LineIs
    <3>2. CASE y = None
      BY <3>1, <3>2 DEF ParentIn
    <3>3. CASE y # None
      <4> DEFINE q == ds[y].parent
      <4>1. y \in Departments /\ y # d /\ LiveIn(ds, y) /\ q \in Somewhere
        BY <3>1, <3>3 DEF Somewhere, Department
      <4>2. ParentIn(es, y) = q
        BY <3>3, <4>1 DEF ParentIn
      <4>3. Upright(ds, ex, y) /\ y \notin ex /\ q \notin ex
        BY <1>3, <3>1, <4>1, <4>2 DEF Tree
      <4>4. q # None => LiveIn(ds, q)
        BY <4>3 DEF Upright
      <4> QED
        BY <3>1, <4>2, <4>4
    <3> QED
      BY <3>2, <3>3
  <2> HIDE DEF T
  <2>3. Line(es, x) \subseteq T
    BY <2>1, <2>2, LineWithin
  <2> QED
    BY <2>3, NoneAssumption DEF T
<1>5. f \in Line(es, f) /\ ParentIn(es, f) \in Line(es, f)
  BY <1>1, LineIs
<1>6. CASE f = d
  <2>1. d \notin fx /\ ParentIn(es, d) = p
    BY <1>3, <1>5, <1>6, NoneAssumption DEF ParentIn
  <2>2. p = None \/ (p # d /\ LiveIn(ds, p))
    BY <2>1
  <2>3. d \notin Line(es, p)
    BY <1>4, <1>5, <1>6, <2>1, <2>2
  <2>4. Line(es, p) = Line(ds, p)
    BY <2>3, LineKept
  <2>5. Line(es, d) = {d} \union Line(ds, p)
    BY <1>1, <2>1, <2>4, LineFrom
  <2> DEFINE A == {}
             B == Line(ds, p) \ {None}
             C == Line(es, d) \ {None}
  <2>6. /\ A \subseteq Departments /\ B \subseteq Departments /\ C \subseteq Departments
        /\ C \subseteq A \union (B \union {d}) /\ Cardinality(A) = 0
    BY <1>1, <2>5, LineIs, FS_EmptySet DEF Somewhere
  <2>7. Cardinality(B) + 1 <= MaxDepth
    BY <2>1
  <2> HIDE DEF A, B, C
  <2>8. Cardinality(C) <= Cardinality(A) + 1 + Cardinality(B)
    BY <2>6, SetsJoin
  <2>9. Cardinality(B) \in Nat /\ Cardinality(C) \in Nat /\ MaxDepth \in Nat
    BY <2>6, SetsJoin, OrganisationAssumption
  <2>10. Cardinality(C) <= MaxDepth
    BY <2>6, <2>7, <2>8, <2>9
  <2> QED
    BY <1>6, <2>1, <2>5, <2>10 DEF C
<1>7. CASE f # d
  <2>1. LiveIn(ds, f) /\ Upright(ds, ex, f)
    BY <1>7 DEF LiveIn, Tree
  <2>2. d \notin Line(es, f)
    BY <1>4, <1>5, <1>7, <2>1
  <2>3. Line(es, f) = Line(ds, f)
    BY <1>1, <2>2, LineKept
  <2> QED
    BY <1>3, <2>1, <2>3 DEF Upright
<1> QED
  BY <1>6, <1>7

\* Archiving one that no live department has as its parent, or that is marked.
LEMMA TreePruned ==
  ASSUME NEW ds \in [Departments -> Department], NEW es \in [Departments -> Department],
         NEW ex \in SUBSET Departments, NEW fx \in SUBSET Departments, ex \subseteq fx,
         Tree(ds, ex), NEW d \in Departments, ~LiveIn(es, d),
         \A e \in Departments : es[e].parent = ds[e].parent,
         \A e \in Departments \ {d} : es[e].state = ds[e].state,
         d \in fx \/ \A e \in Departments : LiveIn(ds, e) => ds[e].parent # d
  PROVE  Tree(es, fx)
<1> SUFFICES ASSUME NEW f \in Departments, LiveIn(es, f) PROVE Upright(es, fx, f)
  BY DEF Tree
<1>1. f # d /\ LiveIn(ds, f) /\ Upright(ds, ex, f) /\ f \in Somewhere
  BY DEF LiveIn, Tree, Somewhere
<1>2. Line(es, f) = Line(ds, f)
  BY <1>1, SameLine
<1>3. ds[f].parent \in Somewhere
  BY DEF Department
<1>4. LiveIn(ds, ds[f].parent) /\ ds[f].parent # None =>
        LiveIn(es, ds[f].parent) \/ f \in fx \/ ds[f].parent \in fx
  BY <1>1, <1>3 DEF LiveIn, Somewhere
<1> QED
  BY <1>1, <1>2, <1>4, UprightStays

LEMMA TreeStays ==
  ASSUME NEW ds \in [Departments -> Department], NEW es \in [Departments -> Department],
         NEW ex \in SUBSET Departments, NEW fx \in SUBSET Departments, ex \subseteq fx,
         Tree(ds, ex),
         \A e \in Departments : es[e].parent = ds[e].parent /\ es[e].state = ds[e].state
  PROVE  Tree(es, fx)
<1> SUFFICES ASSUME NEW f \in Departments, LiveIn(es, f) PROVE Upright(es, fx, f)
  BY DEF Tree
<1>1. LiveIn(ds, f) /\ Upright(ds, ex, f) /\ f \in Somewhere
  BY DEF LiveIn, Tree, Somewhere
<1>2. Line(es, f) = Line(ds, f)
  BY <1>1, SameLine
<1>3. ds[f].parent \in Somewhere
  BY DEF Department
<1>4. LiveIn(ds, ds[f].parent) /\ ds[f].parent # None => LiveIn(es, ds[f].parent)
  BY <1>3 DEF LiveIn, Somewhere
<1> QED
  BY <1>1, <1>2, <1>4, UprightStays

-----------------------------------------------------------------------------
(* The department tree *)

Excuses == {d \in Departments : Excused(d)}
TreeInv == Tree(departments, Excuses)

LEMMA LineageIs ==
  ASSUME NEW d
  PROVE  /\ Lineage(d) = Line(departments, d) \ {None}
         /\ Rooted(d) <=> None \in Line(departments, d)
         /\ Circular(d) <=> \E n \in 1 .. Count : AboveIn(departments, d)[n] = d
<1>1. PICK w : w = AboveIn(departments, d)
  OBVIOUS
<1>2. Above(d) = w
  BY <1>1 DEF Above, AboveIn
<1>3. DOMAIN w = 0 .. Count /\ (0 .. Count) \ {0} = 1 .. Count
  BY <1>1, AboveIs, CountType
<1>4. Line(departments, d) = {w[n] : n \in 0 .. Count}
  BY <1>1 DEF Line
<1> QED
  BY <1>1, <1>2, <1>3, <1>4 DEF Lineage, Rooted, Circular

LEMMA LargestExists ==
  ASSUME NEW S, NEW b \in Nat, S # {}, \A n \in S : n \in Nat /\ n <= b
  PROVE  \E n \in S : \A m \in S : m <= n
<1> DEFINE Bounds == {k \in Nat : \A m \in S : m <= k}
<1>1. PICK k \in Bounds : \A j \in Bounds : k <= j
  <2>1. b \in Bounds /\ Bounds \subseteq Nat
    OBVIOUS
  <2> HIDE DEF Bounds
  <2> QED
    BY <2>1, Least
<1>2. k \in S
  <2> SUFFICES ASSUME k \notin S PROVE FALSE
    OBVIOUS
  <2>1. \A m \in S : m <= k - 1 /\ k > 0
    BY <1>1
  <2>2. k - 1 \in Bounds
    BY <1>1, <2>1
  <2> QED
    BY <1>1, <2>2
<1> QED
  BY <1>1, <1>2

\* A live department's height is that of the highest of those below it.
LEMMA HeightIs ==
  ASSUME TypeInv, NEW d \in Departments, Live(d)
  PROVE  /\ Height(d) \in Nat
         /\ \A f \in Departments : Live(f) /\ d \in Line(departments, f) =>
              Cardinality((Line(departments, f) \ Line(departments, d)) \ {None}) + 1 <= Height(d)
<1> DEFINE size(e) == Cardinality(Lineage(e) \ Lineage(d))
           below == {size(e) : e \in {f \in Subtree(d) : Live(f)}}
<1>1. /\ d \in Somewhere /\ d # None /\ departments \in [Departments -> Department]
      /\ \A f \in Departments : f \in Somewhere
  BY Typed, NoneAssumption DEF Somewhere
<1>2. ASSUME NEW f \in Departments
      PROVE  /\ Lineage(f) \ Lineage(d)
                  = (Line(departments, f) \ Line(departments, d)) \ {None}
             /\ size(f) \in Nat /\ size(f) <= Count
  <2> DEFINE L == (Line(departments, f) \ Line(departments, d)) \ {None}
  <2>1. Lineage(f) \ Lineage(d) = L
    BY LineageIs
  <2>2. L \in SUBSET Departments
    BY <1>1, LineIs DEF Somewhere
  <2> HIDE DEF L
  <2>3. IsFiniteSet(L) /\ Cardinality(L) <= Count
    BY <2>2, DepartmentsAssumption, FS_Subset DEF Count
  <2>4. Cardinality(L) \in Nat
    BY <2>3, FS_CardinalityType
  <2> QED
    BY <2>1, <2>3, <2>4 DEF L
<1>3. \A f \in Departments : Live(f) /\ d \in Line(departments, f) => size(f) \in below
  <2> SUFFICES ASSUME NEW f \in Departments, Live(f), d \in Line(departments, f)
               PROVE  f \in Subtree(d)
    OBVIOUS
  <2>1. d \in Lineage(f)
    BY <1>1, LineageIs
  <2> QED
    BY <2>1 DEF Subtree, Live
<1>4. below # {}
  <2>1. d \in Line(departments, d)
    BY <1>1, LineIs
  <2> QED
    BY <1>3, <2>1
<1>5. \A n \in below : n \in Nat /\ n <= Count
  <2>1. \A f \in Subtree(d) : f \in Departments
    BY DEF Subtree
  <2> HIDE DEF size
  <2> QED
    BY <1>2, <2>1
<1>6. Height(d) = 1 + CHOOSE n \in below : \A m \in below : m <= n
  BY DEF Height
<1> HIDE DEF below
<1>7. PICK n \in below : n = (CHOOSE k \in below : \A m \in below : m <= k) /\ \A m \in below : m <= n
  BY <1>4, <1>5, CountType, LargestExists
<1>8. Height(d) = 1 + n /\ n \in Nat
  BY <1>5, <1>6, <1>7
<1>9. ASSUME NEW f \in Departments, Live(f), d \in Line(departments, f)
      PROVE  size(f) + 1 <= Height(d)
  <2>1. size(f) \in below /\ size(f) \in Nat
    BY <1>2, <1>3, <1>9
  <2> HIDE DEF size
  <2> QED
    BY <1>7, <1>8, <2>1
<1>10. ASSUME NEW f \in Departments, Live(f), d \in Line(departments, f)
       PROVE  Cardinality((Line(departments, f) \ Line(departments, d)) \ {None}) + 1 <= Height(d)
  <2> DEFINE L == (Line(departments, f) \ Line(departments, d)) \ {None}
  <2>1. Lineage(f) \ Lineage(d) = L
    BY <1>2
  <2> HIDE DEF L
  <2>2. size(f) = Cardinality(L)
    BY <2>1
  <2>3. size(f) + 1 <= Height(d)
    BY <1>9, <1>10
  <2> HIDE DEF size
  <2>4. Cardinality(L) + 1 <= Height(d)
    BY <2>2, <2>3
  <2> QED
    BY <2>4 DEF L
<1>11. Height(d) \in Nat
  BY <1>8
<1> QED
  BY <1>10, <1>11

LEMMA FitsIs ==
  ASSUME TypeInv, NEW p \in Somewhere, NEW height \in Nat, Fits(p, height)
  PROVE  /\ p # None => LiveIn(departments, p)
         /\ None \in Line(departments, p)
         /\ Cardinality(Line(departments, p) \ {None}) \in Nat
         /\ Cardinality(Line(departments, p) \ {None}) + height <= MaxDepth
<1>1. CASE p = None
  <2>1. Line(departments, p) = {None} /\ Line(departments, p) \ {None} = {}
    BY <1>1, LineOfNone, Typed
  <2>2. Cardinality(Line(departments, p) \ {None}) = 0
    BY <2>1, FS_EmptySet
  <2>3. height <= MaxDepth
    BY <1>1 DEF Fits
  <2> QED
    BY <1>1, <2>1, <2>2, <2>3
<1>2. CASE p # None
  <2>1. Live(p) /\ Rooted(p) /\ Depth(p) + height <= MaxDepth
    BY <1>2 DEF Fits
  <2> DEFINE L == Line(departments, p) \ {None}
  <2>2. Depth(p) = Cardinality(L) /\ None \in Line(departments, p)
    BY <2>1, LineageIs DEF Depth
  <2>3. L \in SUBSET Departments
    BY LineIs, Typed DEF Somewhere
  <2> HIDE DEF L
  <2>4. Cardinality(L) \in Nat
    BY <2>3, DepartmentsAssumption, FS_Subset, FS_CardinalityType
  <2> QED
    BY <2>1, <2>2, <2>4 DEF L, Live, LiveIn
<1> QED
  BY <1>1, <1>2

LEMMA ExcusesStay ==
  ASSUME outdated \subseteq outdated'
  PROVE  /\ Excuses \in SUBSET Departments /\ Excuses' \in SUBSET Departments
         /\ Excuses \subseteq Excuses'
BY DEF Excuses, Excused

\* Where states and parents stay, the tree does.
LEMMA TreeKept ==
  ASSUME Inv, TreeInv, departments' \in [Departments -> Department],
         outdated \subseteq outdated',
         \A e \in Departments : /\ departments'[e].parent = departments[e].parent
                                /\ departments'[e].state = departments[e].state
  PROVE  TreeInv'
<1>1. departments \in [Departments -> Department]
  BY Typed DEF Inv
<1>2. Tree(departments', Excuses')
  BY <1>1, ExcusesStay, TreeStays DEF TreeInv
<1> QED
  BY <1>2 DEF TreeInv

LEMMA MoveTree ==
  ASSUME Inv, TreeInv, NEW h \in Handlers, Move(h), outdated \subseteq outdated'
  PROVE  TreeInv'
<1>1. PICK r, d, p : r = Of(h) /\ d = r.dept /\ p = r.parent
  OBVIOUS
<1>2. /\ TypeInv /\ departments \in [Departments -> Department] /\ Commits(h, "move")
      /\ r.op = "move" /\ d \in Departments /\ p \in Somewhere /\ d # None
  BY <1>1, OwnPerson, Typed, NoneAssumption DEF Move, Commits, Inv
<1> DEFINE new == [departments[d] EXCEPT !.parent = p]
<1>3. departments' = [departments EXCEPT ![d] = new]
  BY <1>1, <1>2 DEF Move
<1>4. new \in Department /\ new.parent = p /\ new.state = departments[d].state
  BY <1>2 DEF Department
<1> HIDE DEF new
<1>5. /\ departments' \in [Departments -> Department] /\ departments'[d].parent = p
      /\ \A e \in Departments : departments'[e].state = departments[e].state
      /\ \A e \in Departments \ {d} : departments'[e].parent = departments[e].parent
  BY <1>2, <1>3, <1>4
<1>6. CASE d \in Excuses'
  <2>1. /\ Excuses \in SUBSET Departments /\ Excuses' \in SUBSET Departments
        /\ Excuses \subseteq Excuses' /\ Tree(departments, Excuses)
        /\ departments \in [Departments -> Department] /\ d \in Departments /\ p \in Somewhere
    BY <1>2, ExcusesStay DEF TreeInv
  <2>2. Tree(departments', Excuses')
    BY <1>5, <1>6, <2>1, TreeMoved
  <2> QED
    BY <2>2 DEF TreeInv
<1>7. CASE d \notin Excuses'
  <2>1. DepartmentFacts(r)
    <3>1. Excused(d)' \/ DepartmentFacts(r)
      BY <1>1, <1>2, CommitMarks
    <3> QED
      BY <1>2, <1>7, <3>1 DEF Excuses
  <2>2. Live(d) /\ ~Circular(d) /\ p \notin Subtree(d) /\ Fits(p, Height(d))
    BY <1>1, <1>2, <2>1 DEF DepartmentFacts
  <2>3. /\ Height(d) \in Nat
        /\ \A f \in Departments : Live(f) /\ d \in Line(departments, f) =>
             Cardinality((Line(departments, f) \ Line(departments, d)) \ {None}) + 1 <= Height(d)
    BY <1>2, <2>2, HeightIs
  <2>4. /\ p # None => LiveIn(departments, p)
        /\ None \in Line(departments, p)
        /\ Cardinality(Line(departments, p) \ {None}) \in Nat
        /\ Cardinality(Line(departments, p) \ {None}) + Height(d) <= MaxDepth
    BY <1>2, <2>2, <2>3, FitsIs
  <2>5. d \notin Line(departments, p)
    <3>1. CASE p = None
      BY <1>2, <3>1, LineOfNone
    <3>2. CASE p # None
      <4>1. p \in Departments /\ departments[p].state # "absent"
        BY <1>2, <2>4, <3>2 DEF Somewhere, LiveIn
      <4>2. d \notin Lineage(p)
        BY <2>2, <4>1 DEF Subtree
      <4> QED
        BY <1>2, <4>2, LineageIs
    <3> QED
      BY <3>1, <3>2
  <2>6. d \notin Line(departments, ParentIn(departments, d))
    <3>1. \A n \in 1 .. Count : AboveIn(departments, d)[n] # d
      BY <2>2, LineageIs
    <3> QED
      BY <1>2, <3>1, NoCycle
  <2>7. ASSUME NEW f \in Departments, LiveIn(departments, f), d \in Line(departments, f)
        PROVE  Cardinality((Line(departments, f) \ Line(departments, d)) \ {None}) + 1
                 + Cardinality(Line(departments, p) \ {None}) <= MaxDepth
    <3> DEFINE L == (Line(departments, f) \ Line(departments, d)) \ {None}
               n == Cardinality(L)
               m == Cardinality(Line(departments, p) \ {None})
    <3>1. L \in SUBSET Departments
      BY <1>2, LineIs DEF Somewhere
    <3>2. n \in Nat
      <4> HIDE DEF L
      <4> QED
        BY <3>1, DepartmentsAssumption, FS_Subset, FS_CardinalityType
    <3>3. n + 1 <= Height(d)
      BY <2>3, <2>7 DEF Live, LiveIn
    <3>4. m \in Nat /\ m + Height(d) <= MaxDepth /\ MaxDepth \in Nat /\ Height(d) \in Nat
      BY <2>3, <2>4, OrganisationAssumption
    <3> HIDE DEF n, m
    <3>5. n + 1 + m <= MaxDepth
      BY <3>2, <3>3, <3>4
    <3> QED
      BY <3>5 DEF n, m
  <2>8. MovesWell(departments, d, p)
    BY <2>4, <2>5, <2>6, <2>7 DEF MovesWell
  <2>9. Tree(departments', Excuses')
    BY <1>2, <1>5, <2>8, ExcusesStay, TreeMoved DEF TreeInv
  <2> QED
    BY <2>9 DEF TreeInv
<1> QED
  BY <1>6, <1>7

LEMMA CreateTree ==
  ASSUME Inv, TreeInv, NEW h \in Handlers, Create(h), outdated \subseteq outdated'
  PROVE  TreeInv'
<1>1. PICK r, d, p : r = Of(h) /\ d = r.dept /\ p = r.parent
  OBVIOUS
<1>2. /\ TypeInv /\ departments \in [Departments -> Department] /\ Commits(h, "create")
      /\ r.op = "create" /\ d \in Departments /\ p \in Somewhere /\ r.person \in Somebody
      /\ ~LiveIn(departments, d)
  BY <1>1, OwnPerson, Typed DEF Create, Commits, Inv, LiveIn
<1> DEFINE live == "live"
           new == [state |-> live, parent |-> p, head |-> r.person]
<1>3. departments' = [departments EXCEPT ![d] = new]
  BY <1>1 DEF Create
<1>4. live = "live" /\ live \in {"absent", "live", "archived"}
  OBVIOUS
<1> HIDE DEF live
<1>5. new \in Department /\ new.parent = p /\ new.state = live
  BY <1>2, <1>4 DEF Department
<1> HIDE DEF new
<1>6. /\ departments' \in [Departments -> Department] /\ departments'[d].parent = p
      /\ LiveIn(departments', d)
      /\ \A e \in Departments \ {d} : /\ departments'[e].parent = departments[e].parent
                                      /\ departments'[e].state = departments[e].state
  BY <1>2, <1>3, <1>4, <1>5 DEF LiveIn
<1>7. \/ d \in Excuses'
      \/ /\ p # None => LiveIn(departments, p)
         /\ None \in Line(departments, p)
         /\ Cardinality(Line(departments, p) \ {None}) + 1 <= MaxDepth
  <2> SUFFICES ASSUME d \notin Excuses'
               PROVE  /\ p # None => LiveIn(departments, p)
                      /\ None \in Line(departments, p)
                      /\ Cardinality(Line(departments, p) \ {None}) + 1 <= MaxDepth
    OBVIOUS
  <2>1. Excused(d)' \/ DepartmentFacts(r)
    BY <1>1, <1>2, CommitMarks
  <2>2. DepartmentFacts(r)
    BY <1>2, <2>1 DEF Excuses
  <2>3. Fits(p, 1)
    BY <1>1, <1>2, <2>2 DEF DepartmentFacts
  <2> QED
    BY <1>2, <2>3, FitsIs
<1>8. Tree(departments', Excuses')
  BY <1>2, <1>6, <1>7, ExcusesStay, TreeGrown DEF TreeInv
<1> QED
  BY <1>8 DEF TreeInv

LEMMA ArchiveTree ==
  ASSUME Inv, TreeInv, NEW h \in Handlers, Archive(h), outdated \subseteq outdated'
  PROVE  TreeInv'
<1>1. PICK r, d : r = Of(h) /\ d = r.dept
  OBVIOUS
<1>2. /\ departments \in [Departments -> Department] /\ Commits(h, "archive")
      /\ r.op = "archive" /\ d \in Departments /\ None \in Somebody
  BY <1>1, OwnPerson, Typed DEF Archive, Commits, Inv, Somebody
<1> DEFINE archived == "archived"
           new == [departments[d] EXCEPT !.head = None, !.state = archived]
<1>3. departments' = [departments EXCEPT ![d] = new]
  BY <1>1, <1>2 DEF Archive
<1>4. archived # "live" /\ archived \in {"absent", "live", "archived"}
  OBVIOUS
<1> HIDE DEF archived
<1>5. new \in Department /\ new.parent = departments[d].parent /\ new.state = archived
  BY <1>2, <1>4 DEF Department
<1> HIDE DEF new
<1>6. /\ departments' \in [Departments -> Department] /\ ~LiveIn(departments', d)
      /\ \A e \in Departments : departments'[e].parent = departments[e].parent
      /\ \A e \in Departments \ {d} : departments'[e].state = departments[e].state
  BY <1>2, <1>3, <1>4, <1>5 DEF LiveIn
<1>7. d \in Excuses' \/ \A e \in Departments : LiveIn(departments, e) => departments[e].parent # d
  <2>1. Excused(d)' \/ DepartmentFacts(r)
    BY <1>1, <1>2, CommitMarks
  <2> QED
    BY <1>1, <1>2, <2>1 DEF Excuses, DepartmentFacts, Live, LiveIn
<1>8. Tree(departments', Excuses')
  BY <1>2, <1>6, <1>7, ExcusesStay, TreePruned DEF TreeInv
<1> QED
  BY <1>8 DEF TreeInv

LEMMA TreeNext == Inv /\ TreeInv /\ [Next]_vars => TreeInv'
<1> SUFFICES ASSUME Inv, TreeInv, [Next]_vars PROVE TreeInv'
  OBVIOUS
<1>1. outdated \subseteq outdated' /\ departments \in [Departments -> Department]
  BY OutdatedGrows, Typed DEF Inv
<1>2. ASSUME NEW h \in Handlers, Create(h) \/ Move(h) \/ Archive(h)
      PROVE  TreeInv'
  BY <1>1, <1>2, CreateTree, MoveTree, ArchiveTree
<1>3. ASSUME NEW h \in Handlers, Edit(h)
      PROVE  TreeInv'
  <2>1. PICK d, q : d = Of(h).dept /\ q = Of(h).person
    OBVIOUS
  <2>2. d \in Departments /\ q \in Somebody
    BY <1>3, <2>1, OwnPerson, Typed DEF Edit, Commits, Inv
  <2> DEFINE new == [departments[d] EXCEPT !.head = q]
  <2>3. departments' = [departments EXCEPT ![d] = new]
    BY <1>1, <1>3, <2>1, <2>2 DEF Edit
  <2>4. /\ new \in Department /\ new.parent = departments[d].parent
        /\ new.state = departments[d].state
    BY <1>1, <2>2 DEF Department
  <2> HIDE DEF new
  <2> QED
    BY <1>1, <2>2, <2>3, <2>4, TreeKept
<1>4. ASSUME NEW h \in Handlers, Leave(h)
      PROVE  TreeInv'
  <2> DEFINE new(d) == IF d \in SeenBy(h).heads THEN [departments[d] EXCEPT !.head = None]
                       ELSE departments[d]
  <2>1. departments' = [d \in Departments |-> new(d)]
    BY <1>4 DEF Leave
  <2>2. \A d \in Departments : /\ new(d) \in Department /\ new(d).parent = departments[d].parent
                               /\ new(d).state = departments[d].state
    BY <1>1 DEF Department, Somebody
  <2> HIDE DEF new
  <2> QED
    BY <1>1, <2>1, <2>2, TreeKept
<1>5. ASSUME departments' = departments
      PROVE  TreeInv'
  BY <1>1, <1>5, TreeKept
<1>6. ASSUME NEW h \in Handlers,
             \/ Ask(h) \/ LockRights(h) \/ Abort(h)
             \/ Place(h) \/ AddMember(h) \/ RemoveMember(h) \/ Give(h)
             \/ Suspend(h) \/ Reactivate(h) \/ Assign(h) \/ Sweep(h)
      PROVE  TreeInv'
  <2>1. departments' = departments
    BY <1>6 DEF Ask, LockRights, Abort, Place, AddMember, RemoveMember, Give, Suspend, Reactivate,
                Assign, Sweep
  <2> QED
    BY <1>5, <2>1
<1>7. CASE Act \/ Time \/ UNCHANGED vars
  <2>1. departments' = departments
    BY <1>7 DEF Act, SignIn, Change, Time, vars
  <2> QED
    BY <1>5, <2>1
<1> QED
  BY <1>2, <1>3, <1>4, <1>6, <1>7 DEF Next

LEMMA InitTree == Init => TreeInv
<1> SUFFICES ASSUME Init, NEW d \in Departments, LiveIn(departments, d)
             PROVE  Upright(departments, Excuses, d)
  BY DEF TreeInv, Tree
<1>1. Live(d) /\ Rooted(d) /\ Depth(d) <= MaxDepth
      /\ (departments[d].parent # None => Live(departments[d].parent))
  BY DEF Init, InOrder, Live, LiveIn
<1>2. None \in Line(departments, d) /\ Cardinality(Line(departments, d) \ {None}) <= MaxDepth
  BY <1>1, LineageIs DEF Depth
<1> QED
  BY <1>1, <1>2 DEF Upright, Live, LiveIn

LEMMA TreeStands ==
  ASSUME Inv, TreeInv, PeopleHaveADepartment
  PROVE  DepartmentsFormATree
<1> SUFFICES ASSUME NEW d \in Departments, Live(d), \A e \in Lineage(d) : ~Excused(e)
             PROVE  /\ Rooted(d) /\ Depth(d) <= MaxDepth
                    /\ departments[d].parent # None => Live(departments[d].parent)
  BY DEF DepartmentsFormATree
<1>1. departments \in [Departments -> Department] /\ d \in Somewhere /\ d # None
  BY Typed, NoneAssumption DEF Inv, Somewhere
<1>2. Upright(departments, Excuses, d)
  BY DEF TreeInv, Tree, Live, LiveIn
<1>3. d \in Lineage(d)
  BY <1>1, LineIs, LineageIs
<1>4. departments[d].parent # None => departments[d].parent \in Lineage(d)
  <2>1. ParentIn(departments, d) = departments[d].parent
    BY <1>1 DEF ParentIn
  <2>2. ParentIn(departments, d) \in Line(departments, d)
    BY <1>1, LineIs
  <2> QED
    BY <2>1, <2>2, LineageIs
<1>5. \A e \in Excuses : e \notin Line(departments, d)
  BY LineageIs, NoneAssumption DEF Excuses
<1>6. Rooted(d) /\ Depth(d) <= MaxDepth
  BY <1>2, <1>5, LineageIs DEF Upright, Depth
<1>7. departments[d].parent # None => Live(departments[d].parent)
  <2>1. departments[d].parent \in Somewhere
    BY <1>1 DEF Department
  <2> QED
    BY <1>2, <1>3, <1>4, <2>1 DEF Upright, Excuses, Live, LiveIn, Somewhere
<1> QED
  BY <1>6, <1>7

-----------------------------------------------------------------------------
(* The theorems *)

LEMMA InitInv == Init => Inv
<1> SUFFICES ASSUME NEW scene \in Scenes, Starts(scene)
             PROVE  Inv
  BY DEF Init
<1>1. scene \in Scene
  BY ScenesAssumption
<1>2. \A h \in Handlers : handlers[h] = Idle
  BY DEF Starts
<1>3. TypeOK
  BY <1>1, IdleTyped DEF Starts, TypeOK, Scene
<1>4. \A h \in Handlers : SawOK(h)
  BY <1>2, IdleTyped DEF SawOK, Lists, Of, SeenBy, Leaving
<1> QED
  BY <1>2, <1>3, <1>4, IdleTyped DEF Inv, TypeInv, Fresh

LEMMA StutterStep ==
  ASSUME Inv, UNCHANGED vars
  PROVE  Inv'
<1>1. /\ people' = people /\ departments' = departments /\ members' = members
      /\ grants' = grants /\ handlers' = handlers /\ todo' = todo /\ outdated' = outdated
  BY DEF vars
<1>2. Rewritten(grants, grants', {}, None)
  BY <1>1, NothingRewritten, Typed DEF Inv
<1>3. \A k \in Handlers : LockSpared(k)
  BY <1>1 DEF LockSpared, Spared, Live
<1> QED
  BY <1>1, <1>2, <1>3, PlainStep, Typed DEF Inv

LEMMA NextInv == Inv /\ [Next]_vars => Inv'
<1> SUFFICES ASSUME Inv, [Next]_vars
             PROVE  Inv'
  OBVIOUS
<1>1. ASSUME NEW h \in Handlers,
             \/ Ask(h) \/ LockRights(h) \/ Abort(h)
             \/ Create(h) \/ Edit(h) \/ Move(h) \/ Archive(h) \/ Place(h)
             \/ AddMember(h) \/ RemoveMember(h)
             \/ Give(h) \/ Suspend(h) \/ Reactivate(h) \/ Leave(h) \/ Assign(h) \/ Sweep(h)
      PROVE  Inv'
  BY <1>1, AskStep, LockRightsStep, AbortStep, CreateStep, EditStep, MoveStep, ArchiveStep,
     PlaceStep, AddMemberStep, RemoveMemberStep, GiveStep, SuspendStep, ReactivateStep, LeaveStep,
     AssignStep, SweepStep
<1>2. CASE Act
  BY <1>2, SignInStep, ChangeStep DEF Act
<1>3. CASE Time
  BY <1>3, TimeStep
<1>4. CASE UNCHANGED vars
  BY <1>4, StutterStep
<1> QED
  BY <1>1, <1>2, <1>3, <1>4 DEF Next

\* Every variable keeps its type, and what a handler saw is about its person.
THEOREM TypeCorrect == Spec => []TypeOK
<1>1. Inv => TypeOK
  BY DEF Inv, TypeInv
<1> QED
  BY <1>1, InitInv, NextInv, PTL DEF Spec

\* Facts checked about a person or a department whose row is locked hold at the commit, those a
\* change of role reads before it locks apart.
THEOREM FactsStayFresh == Spec => []LocksKeepFactsFresh
<1>1. Init => LocksKeepFactsFresh
  BY DEF Init, Starts, LocksKeepFactsFresh
<1> QED
  BY <1>1, InitInv, NextInv, FreshNext, PTL DEF Spec

\* Somebody can grant access, unless a commit overlooked that it takes the last who can.
THEOREM AdminRemains == Spec => []AnAdminRemains
<1>1. Init => AnAdminRemains
  <2> SUFFICES ASSUME NEW scene \in Scenes, Starts(scene)
               PROVE  AnAdminRemains
    BY DEF Init
  <2>1. \E p \in Persons \ BreakGlass : people[p].active /\ people[p].role = "manager"
    BY ScenesAssumption DEF Starts
  <2> QED
    BY <2>1 DEF AnAdminRemains, Admins
<1> QED
  BY <1>1, InitInv, NextInv, AdminNext, PTL DEF Spec

\* A grant is never deleted or brought back, and never ends without a reason, be it that a change
\* of role drops an add-on it did not see.
THEOREM GrantsEndAsTheyShould == Spec => GrantsEndForAReason
<1>1. Inv /\ [Next]_vars =>
        [\A i \in DOMAIN grants :
           /\ i \in DOMAIN grants' /\ grants'[i].person = grants[i].person
           /\ IF grants[i].ended THEN grants'[i].ended
              ELSE ~grants'[i].ended \/ Reason(i)]_vars
  BY ReasonedNext DEF Reasoned
<1> QED
  BY <1>1, InitInv, NextInv, PTL DEF Spec, GrantsEndForAReason

\* Whoever leads the team or heads a department holds the grant for it, and nobody else does,
\* unless a commit overlooked something.
THEOREM GrantsFollow == Spec => []GrantsFollowTheStructure
<1>1. Ordered => GrantsFollowTheStructure
  BY DEF Ordered
<1> QED
  BY <1>1, InitInv, NextInv, InitOrdered, OrderedNext, PTL DEF Spec

\* A leaver keeps nothing, and an employee nothing of the staff, unless a commit overlooked it.
THEOREM NothingIsKept == Spec => []LeaversKeepNothing
<1>1. Ordered => LeaversKeepNothing
  BY DEF Ordered
<1> QED
  BY <1>1, InitInv, NextInv, InitOrdered, OrderedNext, PTL DEF Spec

\* Whoever is active is in a live department, unless they came back to one that was archived, or
\* an archival overlooked them.
THEOREM EverybodyHasAPlace == Spec => []PeopleHaveADepartment
<1>1. Init => PeopleHaveADepartment
  BY DEF Init, InOrder, PeopleHaveADepartment
<1> QED
  BY <1>1, InitInv, NextInv, PlacesNext, PTL DEF Spec

\* The live departments form a tree no deeper than allowed, and people are in it, except where a
\* commit was decided on facts that were outdated by then.
THEOREM DepartmentsAreATree == Spec => []DepartmentsFormATree
<1>1. Init => PeopleHaveADepartment
  BY DEF Init, InOrder, PeopleHaveADepartment
<1> QED
  BY <1>1, InitInv, NextInv, InitTree, TreeNext, PlacesNext, TreeStands, PTL DEF Spec
=============================================================================
