---------------------------- MODULE Organisation ----------------------------
(***************************************************************************)
(* The organisation: people, the department tree, one team and who holds   *)
(* which role where (apps/accounts/utils/departments.py, people.py,        *)
(* rights.py, grants.py, identity_sync.py; apps/teams/utils/config.py).    *)
(*                                                                         *)
(* A request is one transaction of a console handler, of the identity sync *)
(* or of the access sweep.  It is two steps here: Ask reads, checks and    *)
(* takes the row locks the code asks for; the step named for the operation *)
(* writes and commits.  A change of role is three: it reads the add-ons to *)
(* keep before it locks and checks.  Most checks are of rows that are not  *)
(* locked, so others may commit in between; `outdated` records where a     *)
(* commit did not match the facts any more.                                *)
(*                                                                         *)
(* Permissions, reasons, notices and sign-in sessions are left out, and so *)
(* are tickets: whether an employee has open ones, and their release.      *)
(***************************************************************************)
EXTENDS Integers, FiniteSets, Sequences

CONSTANTS
  Persons,      \* accounts, all provisioned
  BreakGlass,   \* the break-glass accounts among them
  Departments,  \* rows of acc_departments, those yet to be created included
  Default,      \* the default department
  None,         \* neither a person nor a department
  MaxDepth,     \* thresholds: access.department_max_depth
  Handlers,     \* transactions that are open at once
  Scenes        \* what a behaviour may begin with, and the requests it may see

BaseRoles == {"employee", "technician", "manager"}
Statuses == {"invited", "active", "suspended", "deactivated"}
\* Team lead and department head follow the structure; an add-on role, for staff only, is held
\* everywhere; a custom role at one department.
GrantedRoles == {"lead", "head", "addon", "custom"}
Memberships == {"none", "member", "lead"}
\* Operations that lock the user's row, and the department's.
Locking == {"profile", "grant", "suspend", "reactivate", "deactivate", "assign"}
Editing == {"edit", "move", "archive"}
Leaving == {"deactivate", "sync"}
\* A change of role, before and after it has the user's row.
RoleChange == {"role", "assign"}
Ops == Locking \union Editing \union Leaving \union RoleChange
         \union {"create", "place", "join", "remove", "sweep", "sign-in", "end", "extend",
                 "confirm"}

Somebody == Persons \union {None}
Somewhere == Departments \union {None}
Requests == [op : Ops, person : Somebody, dept : Somewhere, parent : Somewhere,
             role : BaseRoles \union Memberships \union GrantedRoles, late : BOOLEAN]
Request ==
  {r \in Requests :
     /\ r.op \in {"create", "edit", "move", "archive", "place", "profile"} => r.dept \in Departments
     /\ r.op \in Locking \union Leaving \union RoleChange
                    \union {"place", "join", "remove", "sign-in"} => r.person \in Persons
     /\ r.op = "join" => r.role \in {"member", "lead"}
     /\ r.op \in RoleChange => r.role \in BaseRoles
     /\ r.op = "grant" => \/ r.role = "addon" /\ r.dept = None
                          \/ r.role = "custom" /\ r.dept \in Departments}
Person == [role : BaseRoles, status : Statuses, active : BOOLEAN, dept : Departments,
           returned : BOOLEAN]
Department == [state : {"absent", "live", "archived"}, parent : Somewhere, head : Somebody]
GrantRows == [person : Persons, role : GrantedRoles, at : Somewhere, late : BOOLEAN,
              begun : BOOLEAN, date : {"open", "dated", "over"}, ended : BOOLEAN,
              review : {"none", "flagged", "due"}]
Grant == {g \in GrantRows : g.late \/ g.begun}
Scene == [people : [Persons -> Person], departments : [Departments -> Department],
          members : [Persons -> Memberships], grants : Seq(Grant), requests : SUBSET Request]

ASSUME NoneAssumption ==
  /\ None \notin Persons /\ None \notin Departments /\ Persons \cap Departments = {}
  /\ "admins" \notin Persons /\ "admins" \notin Departments
ASSUME OrganisationAssumption ==
  BreakGlass \subseteq Persons /\ Default \in Departments /\ MaxDepth \in Nat
ASSUME DepartmentsAssumption == IsFiniteSet(Departments)
ASSUME ScenesAssumption ==
  \A scene \in Scenes :
    /\ scene \in Scene
    /\ \E p \in Persons \ BreakGlass :
         scene.people[p].active /\ scene.people[p].role = "manager"

VARIABLES
  people,       \* `returned` is no column: whether they came back from suspension or leaving
  departments,
  members,      \* TeamMembership of the team
  grants,       \* Assignment rows; `late` if starts_at was in the future, `begun` once it has come
  handlers,     \* the request each handler has in hand and what it read
  todo,         \* the requests still to come
  outdated      \* history: which operations committed against facts about what

vars == <<people, departments, members, grants, handlers, todo, outdated>>

-----------------------------------------------------------------------------
(* Reading *)

Active(g) == g.begun /\ ~g.ended /\ g.date # "over"  \* AssignmentQuerySet.active
Held(p) == {i \in DOMAIN grants : grants[i].person = p /\ Active(grants[i])}
HeldAs(p, role) == {i \in Held(p) : grants[i].role = role}
HeldAt(d) == {i \in DOMAIN grants : grants[i].at = d /\ Active(grants[i])}
HeadsOf(d) == {i \in HeldAt(d) : grants[i].role = "head"}

Live(d) == d \in Departments /\ departments[d].state = "live"
HeadedBy(p) == {d \in Departments : Live(d) /\ departments[d].head = p}
Staff(p) == people[p].role # "employee"
Gone(p) == people[p].status = "deactivated" /\ ~people[p].active

\* Whoever can grant access, break-glass accounts apart: only managers can.
Admins == {p \in Persons \ BreakGlass : people[p].active /\ people[p].role = "manager"}
NotLastAdmin_BreakGlass(p) ==
  people[p].role = "manager" /\ p \notin BreakGlass =>
    \E q \in Persons \ {p} : people[q].active /\ people[q].role = "manager"

\* Grants.check_not_last_admin
NotLastAdmin(p) == people[p].role = "manager" /\ p \notin BreakGlass => Admins \ {p} # {}

\* The parents from `d` up; it ends in None unless there is a cycle.
Above(d) ==
  LET up[n \in 0 .. Cardinality(Departments)] ==
        IF n = 0 THEN d ELSE IF up[n - 1] = None THEN None ELSE departments[up[n - 1]].parent
  IN up
Lineage(d) == {Above(d)[n] : n \in DOMAIN Above(d)} \ {None}
Circular(d) == \E n \in DOMAIN Above(d) \ {0} : Above(d)[n] = d
Rooted(d) == \E n \in DOMAIN Above(d) : Above(d)[n] = None

\* Departments.subtree_ids
Subtree(d) == {e \in Departments : departments[e].state # "absent" /\ d \in Lineage(e)}
Depth(d) == Cardinality(Lineage(d))  \* of a rooted department

Height_Alone(d) == 1

\* Departments.height: the most levels of live departments from `d` down.
Height(d) ==
  LET below == {Cardinality(Lineage(e) \ Lineage(d)) : e \in {f \in Subtree(d) : Live(f)}}
  IN 1 + CHOOSE n \in below : \A m \in below : m <= n

\* Departments.live and check_depth; a walk from a department in a cycle never ends.
Fits(parent, height) ==
  IF parent = None THEN height <= MaxDepth
  ELSE Live(parent) /\ Rooted(parent) /\ Depth(parent) + height <= MaxDepth

-----------------------------------------------------------------------------
(* What a request checks *)

\* What it asks of the person.
PersonFacts(r) ==
  LET p == r.person
  IN CASE r.op \in {"create", "edit"} -> p # None => people[p].active
       [] r.op \in {"place", "sync"} -> people[p].active
       [] r.op = "join" -> people[p].active /\ Staff(p)
       [] r.op = "remove" -> members[p] # "none"
       [] r.op = "grant" -> people[p].active /\ (r.role = "addon" => Staff(p))
       [] r.op = "suspend" -> people[p].status # "suspended"
       [] r.op = "reactivate" -> people[p].status \in {"suspended", "deactivated"}
       [] r.op = "deactivate" -> ~Gone(p)
       [] OTHER -> TRUE

\* What it asks of the departments.
DepartmentFacts(r) ==
  LET d == r.dept
  IN CASE r.op = "create" -> Fits(r.parent, 1)
       [] r.op = "edit" -> Live(d)
       [] r.op = "move" ->
            Live(d) /\ ~Circular(d) /\ r.parent \notin Subtree(d) /\ Fits(r.parent, Height(d))
       [] r.op = "archive" ->
            /\ Live(d) /\ d # Default
            /\ \A p \in Persons : people[p].active => people[p].dept # d
            /\ \A e \in Departments : Live(e) => departments[e].parent # d
       [] r.op \in {"place", "profile"} -> Live(d)
       [] r.op = "grant" -> r.role = "custom" => Live(d)
       [] OTHER -> TRUE

\* What it asks of everybody else.
AdminFacts(r) == r.op \in {"suspend", "deactivate"} => NotLastAdmin(r.person)

\* What it asks besides, of rows it locks or that nobody else changes.
Allowed(r) ==
  /\ r.op = "create" => departments[r.dept].state = "absent"
  /\ r.op \in {"place", "profile"} => people[r.person].dept # r.dept
  /\ r.op \in {"suspend", "reactivate", "deactivate", "sync"} => r.person \notin BreakGlass
  /\ r.op = "grant" =>
       \A i \in HeldAs(r.person, r.role) : grants[i].at # r.dept  \* Grants.same_grants

\* The grants it lists to end them.
Listed(r) ==
  CASE r.op = "remove" -> HeldAs(r.person, "lead")
    [] r.op \in Leaving -> Held(r.person)
    [] r.op = "sweep" -> {i \in DOMAIN grants : ~grants[i].ended /\
                            (grants[i].date = "over" \/
                             (Active(grants[i]) /\ grants[i].review = "due"))}
    [] OTHER -> {}

Saw(r) ==
  [grants |-> Listed(r),
   heads |-> IF r.op \in Leaving THEN HeadedBy(r.person) ELSE {},
   member |-> r.op \in Leaving /\ members[r.person] # "none",
   \* AccountRights.set_base_role: the add-ons to keep
   addon |-> r.op \in RoleChange /\ r.role # "employee" /\ HeldAs(r.person, "addon") # {}]

-----------------------------------------------------------------------------
(* Handlers and locks *)

NoRequest == [op |-> "sweep", person |-> None, dept |-> None, parent |-> None,
              role |-> "none", late |-> FALSE]
Idle == [busy |-> FALSE, request |-> NoRequest,
         saw |-> [grants |-> {}, heads |-> {}, member |-> FALSE, addon |-> FALSE]]

Of(h) == handlers[h].request
SeenBy(h) == handlers[h].saw
LockedPersons_NoLock(h) == {}
LockedPersons(h) == {p \in Persons : handlers[h].busy /\ Of(h).op \in Locking /\ Of(h).person = p}
LockedDepartments(h) ==
  {d \in Departments : handlers[h].busy /\ Of(h).op \in Editing /\ Of(h).dept = d}

\* Nobody else holds the rows locked that a commit writes or refers to by a foreign key.
FreePerson(h, p) == \A other \in Handlers \ {h} : p \notin LockedPersons(other)
FreeDepartment(h, d) == \A other \in Handlers \ {h} : d \notin LockedDepartments(other)
Free(h, r, heads) ==
  /\ r.op = "remove" \/ FreePerson(h, r.person)
  /\ \A d \in {r.dept, r.parent} \union heads : FreeDepartment(h, d)

\* A request arrives, and what it checks holds.  Nothing comes of one that is refused.
Ask(h) ==
  /\ ~handlers[h].busy
  /\ \E r \in todo :
       /\ r.op \notin {"assign", "sign-in", "end", "extend", "confirm"}
       /\ PersonFacts(r) /\ DepartmentFacts(r) /\ AdminFacts(r) /\ Allowed(r)
       /\ r.op \in Locking => FreePerson(h, r.person)
       /\ r.op \in Editing => FreeDepartment(h, r.dept)
       /\ handlers' = [handlers EXCEPT ![h] = [busy |-> TRUE, request |-> r, saw |-> Saw(r)]]
       /\ todo' = todo \ {r}
  /\ UNCHANGED <<people, departments, members, grants, outdated>>

\* A change of role takes the user's row and makes its checks, unless there is nothing to change;
\* refused, it is as good as aborted.
LockRights(h) ==
  LET r == Of(h)
      p == r.person
  IN /\ handlers[h].busy /\ r.op = "role" /\ FreePerson(h, p)
     /\ \/ /\ people[p].role = r.role /\ (HeldAs(p, "addon") # {}) = SeenBy(h).addon
           /\ handlers' = [handlers EXCEPT ![h] = Idle]
        \/ /\ people[p].role # r.role \/ (HeldAs(p, "addon") # {}) # SeenBy(h).addon
           /\ p \in BreakGlass => r.role = "manager"
           /\ r.role # "manager" => NotLastAdmin(p)
           /\ handlers' = [handlers EXCEPT ![h].request.op = "assign"]
     /\ UNCHANGED <<people, departments, members, grants, todo, outdated>>

\* Its transaction fails: a deadlock, a unique row, a lost connection.
Abort(h) ==
  /\ handlers[h].busy
  /\ handlers' = [handlers EXCEPT ![h] = Idle]
  /\ UNCHANGED <<people, departments, members, grants, todo, outdated>>

\* It takes access from a manager.
Demotes(r) ==
  r.op \in {"suspend"} \union Leaving \/ (r.op = "assign" /\ r.role # "manager")

\* What a commit does not match any more: facts it checked, rows it listed.  A grant may begin
\* at any time, and the identity sync does not ask whether it takes the last admin.
Mismatch(h) ==
  LET r == Of(h)
      saw == SeenBy(h)
      now == Saw(r)
      mark(about, fails) == IF fails THEN {<<r.op, about>>} ELSE {}
      missed == \/ {i \in now.grants \ saw.grants : ~grants[i].late} # {}
                \/ now.heads \ saw.heads # {} \/ (now.member /\ ~saw.member)
                \/ now.addon # saw.addon
      undone == {i \in saw.grants \ now.grants : ~grants[i].ended}
  IN IF r.op = "sweep" THEN {<<"sweep", grants[i].person>> : i \in undone}
     ELSE UNION {mark(r.person, ~PersonFacts(r) \/ missed), mark(r.dept, ~DepartmentFacts(r)),
                 mark("admins", Demotes(r) /\ ~NotLastAdmin(r.person)),
                 {<<r.op, d>> : d \in (now.heads \ saw.heads) \union (saw.heads \ now.heads)}}

\* The request of `h` commits.
Commits(h, op) ==
  /\ handlers[h].busy /\ Of(h).op = op /\ Free(h, Of(h), SeenBy(h).heads)
  /\ handlers' = [handlers EXCEPT ![h] = Idle]
  /\ outdated' = outdated \union Mismatch(h)
  /\ UNCHANGED todo

-----------------------------------------------------------------------------
(* Writing grants *)

Given(p, role, d, late) ==
  [person |-> p, role |-> role, at |-> d, late |-> late, begun |-> ~late, date |-> "open",
   ended |-> FALSE, review |-> "none"]

\* Grants.end_rows
Ending(which) == [i \in DOMAIN grants |-> IF i \in which THEN [grants[i] EXCEPT !.ended = TRUE]
                                          ELSE grants[i]]

HeadGiven_Kept(d, p) ==
  IF p = None \/ \E i \in HeadsOf(d) : grants[i].person = p THEN grants
  ELSE Append(grants, Given(p, "head", d, FALSE))

\* Grants.set_department_head
HeadGiven(d, p) ==
  LET others == {i \in HeadsOf(d) : grants[i].person # p}
  IN IF p = None \/ HeadsOf(d) # others THEN Ending(others)
     ELSE Append(Ending(others), Given(p, "head", d, FALSE))

\* Grants.set_team_lead
LeadGiven(p, lead) ==
  IF ~lead THEN Ending(HeldAs(p, "lead"))
  ELSE IF HeldAs(p, "lead") # {} THEN grants
  ELSE Append(grants, Given(p, "lead", None, FALSE))

-----------------------------------------------------------------------------
(* Departments *)

Create(h) ==
  LET r == Of(h)
  IN /\ Commits(h, "create") /\ departments[r.dept].state = "absent"
     /\ departments' =
          [departments EXCEPT ![r.dept] = [state |-> "live", parent |-> r.parent, head |-> r.person]]
     /\ grants' = HeadGiven(r.dept, r.person)
     /\ UNCHANGED <<people, members>>

\* Departments.update, with a head or with none.
Edit(h) ==
  LET r == Of(h)
  IN /\ Commits(h, "edit")
     /\ departments' = [departments EXCEPT ![r.dept].head = r.person]
     /\ grants' = HeadGiven(r.dept, r.person)
     /\ UNCHANGED <<people, members>>

Move(h) ==
  LET r == Of(h)
  IN /\ Commits(h, "move")
     /\ departments' = [departments EXCEPT ![r.dept].parent = r.parent]
     /\ UNCHANGED <<people, members, grants>>

Archive(h) ==
  LET d == Of(h).dept
  IN /\ Commits(h, "archive")
     /\ departments' = [departments EXCEPT ![d].head = None, ![d].state = "archived"]
     /\ grants' = Ending(HeldAt(d))
     /\ UNCHANGED <<people, members>>

Place_Drops(h) ==
  LET r == Of(h)
  IN /\ Commits(h, "place") \/ Commits(h, "profile")
     /\ people' = [people EXCEPT ![r.person].dept = r.dept]
     /\ grants' = Ending(HeldAs(r.person, "custom"))
     /\ UNCHANGED <<departments, members>>

\* Departments.place: a mover's grants at departments await review.
Place(h) ==
  LET r == Of(h)
  IN /\ Commits(h, "place") \/ Commits(h, "profile")
     /\ people' = [people EXCEPT ![r.person].dept = r.dept]
     /\ grants' = [i \in DOMAIN grants |->
                     IF i \in HeldAs(r.person, "custom")
                     THEN [grants[i] EXCEPT !.review = "flagged"] ELSE grants[i]]
     /\ UNCHANGED <<departments, members>>

-----------------------------------------------------------------------------
(* The team *)

\* TeamConfig.add_member
AddMember(h) ==
  LET r == Of(h)
  IN /\ Commits(h, "join")
     /\ members' = [members EXCEPT ![r.person] = r.role]
     /\ grants' = LeadGiven(r.person, r.role = "lead")
     /\ UNCHANGED <<people, departments>>

\* TeamConfig.remove_member
RemoveMember(h) ==
  /\ Commits(h, "remove")
  /\ members' = [members EXCEPT ![Of(h).person] = "none"]
  /\ grants' = Ending(SeenBy(h).grants)
  /\ UNCHANGED <<people, departments>>

-----------------------------------------------------------------------------
(* People and their grants *)

Give(h) ==
  LET r == Of(h)
  IN /\ Commits(h, "grant")
     /\ grants' = Append(grants, Given(r.person, r.role, r.dept, r.late))
     /\ UNCHANGED <<people, departments, members>>

SetStatus(p, statuses, active) ==
  \E status \in statuses :
    people' = [people EXCEPT ![p].status = status, ![p].active = active,
                             ![p].returned = @ \/ (active /\ ~people[p].active)]

Suspend(h) ==
  /\ Commits(h, "suspend") /\ SetStatus(Of(h).person, {"suspended"}, FALSE)
  /\ UNCHANGED <<departments, members, grants>>

\* Invited again, unless they have signed in before.
Reactivate(h) ==
  /\ Commits(h, "reactivate") /\ SetStatus(Of(h).person, {"active", "invited"}, TRUE)
  /\ UNCHANGED <<departments, members, grants>>

Leave_KeepsTeam(h) ==
  LET p == Of(h).person
      saw == SeenBy(h)
  IN /\ \E op \in Leaving : Commits(h, op)
     /\ departments' = [d \in Departments |->
          IF d \in saw.heads THEN [departments[d] EXCEPT !.head = None] ELSE departments[d]]
     /\ grants' = Ending(saw.grants \union UNION {HeadsOf(d) : d \in saw.heads})
     /\ SetStatus(p, {"deactivated"}, FALSE)
     /\ UNCHANGED members

\* People.leave, from the console or from the identity sync.
Leave(h) ==
  LET p == Of(h).person
      saw == SeenBy(h)
  IN /\ \E op \in Leaving : Commits(h, op)
     /\ departments' = [d \in Departments |->
          IF d \in saw.heads THEN [departments[d] EXCEPT !.head = None] ELSE departments[d]]
     /\ members' = [members EXCEPT ![p] = IF saw.member THEN "none" ELSE @]
     /\ grants' = Ending(saw.grants \union UNION {HeadsOf(d) : d \in saw.heads})
     /\ SetStatus(p, {"deactivated"}, FALSE)

\* AccountRights.assign, with the checks made when it took the user's row and the add-ons to keep
\* read before that.
Assign(h) ==
  LET r == Of(h)
      p == r.person
      addons == HeldAs(p, "addon")
      toEmployee == r.role = "employee"
  IN /\ Commits(h, "assign")
     /\ people' = [people EXCEPT ![p].role = r.role]
     /\ members' = [members EXCEPT ![p] = IF toEmployee THEN "none" ELSE @]
     /\ grants' =
          IF toEmployee THEN Ending(Held(p) \ HeldAs(p, "head"))
          ELSE IF ~SeenBy(h).addon THEN Ending(addons)
          ELSE IF addons # {} THEN grants ELSE Append(grants, Given(p, "addon", None, FALSE))
     /\ UNCHANGED departments

\* Grants.sweep ends what it listed.
Sweep(h) ==
  /\ Commits(h, "sweep")
  /\ grants' = Ending(SeenBy(h).grants)
  /\ UNCHANGED <<people, departments, members>>

\* Identities.find_or_provision: whoever signs in through Keycloak is active.
SignIn(r) ==
  LET p == r.person
  IN /\ r.op = "sign-in" /\ p \notin BreakGlass
     /\ \A h \in Handlers : p \notin LockedPersons(h)
     /\ SetStatus(p, {IF people[p].status = "invited" THEN "active" ELSE people[p].status}, TRUE)
     /\ UNCHANGED <<departments, members, grants>>

\* Grants.end, extend and confirm, with the grant's row locked.
Change(r) ==
  /\ \E i \in DOMAIN grants :
       LET g == grants[i]
       IN /\ ~g.ended /\ g.date # "over"
          /\ \/ r.op = "end" /\ g.role \in {"addon", "custom"}
                /\ grants' = [grants EXCEPT ![i].ended = TRUE]
             \/ r.op = "extend" /\ \E date \in {"open", "dated"} :
                  grants' = [grants EXCEPT ![i].date = date]
             \/ r.op = "confirm" /\ grants' = [grants EXCEPT ![i].review = "none"]
  /\ UNCHANGED <<people, departments, members>>

\* A request that is one step.
Act ==
  /\ \E r \in todo : (SignIn(r) \/ Change(r)) /\ todo' = todo \ {r}
  /\ UNCHANGED <<handlers, outdated>>

\* A date comes: a grant begins, its end date passes, its review is due.
Time ==
  /\ \E i \in DOMAIN grants :
       \/ ~grants[i].begun /\ grants' = [grants EXCEPT ![i].begun = TRUE]
       \/ grants[i].date = "dated" /\ grants' = [grants EXCEPT ![i].date = "over"]
       \/ grants[i].review = "flagged" /\ grants' = [grants EXCEPT ![i].review = "due"]
  /\ UNCHANGED <<people, departments, members, handlers, todo, outdated>>

Next ==
  \/ \E h \in Handlers :
       \/ Ask(h) \/ LockRights(h) \/ Abort(h)
       \/ Create(h) \/ Edit(h) \/ Move(h) \/ Archive(h) \/ Place(h)
       \/ AddMember(h) \/ RemoveMember(h)
       \/ Give(h) \/ Suspend(h) \/ Reactivate(h) \/ Leave(h) \/ Assign(h) \/ Sweep(h)
  \/ Act
  \/ Time

Starts(scene) ==
  /\ people = scene.people /\ departments = scene.departments
  /\ members = scene.members /\ grants = scene.grants /\ todo = scene.requests
  /\ handlers = [h \in Handlers |-> Idle]
  /\ outdated = {}

\* Lead and head grants begin at once, a head's at a department, and no review is asked of them.
Structural(g) ==
  g.role \in {"lead", "head"} => ~g.late /\ g.review = "none" /\ (g.role = "lead" <=> g.at = None)

\* The organisation as its operations leave it when they come one at a time.
InOrder ==
  /\ \A i \in DOMAIN grants : Structural(grants[i])
  /\ \A p \in Persons :
       /\ members[p] = "lead" <=> HeldAs(p, "lead") # {}
       /\ Gone(p) => members[p] = "none" /\ HeadedBy(p) = {} /\ Held(p) = {}
       /\ ~Staff(p) => members[p] = "none" /\ HeldAs(p, "lead") \union HeldAs(p, "addon") = {}
       /\ people[p].active => Live(people[p].dept)
  /\ \A d \in Departments :
       /\ {grants[i].person : i \in HeadsOf(d)} = {departments[d].head} \ {None}
       /\ ~Live(d) => HeldAt(d) = {}
       /\ Live(d) => /\ Rooted(d) /\ Depth(d) <= MaxDepth
                     /\ departments[d].parent # None => Live(departments[d].parent)

Init == (\E scene \in Scenes : Starts(scene)) /\ InOrder

Spec == Init /\ [][Next]_vars

-----------------------------------------------------------------------------
(* Properties *)

Handler == [busy : BOOLEAN, request : Request,
            saw : [grants : SUBSET Nat, heads : SUBSET Departments, member : BOOLEAN,
                   addon : BOOLEAN]]

\* Every variable has its type.
TypeOK ==
  /\ people \in [Persons -> Person]
  /\ departments \in [Departments -> Department]
  /\ members \in [Persons -> Memberships]
  /\ grants \in Seq(Grant)
  /\ handlers \in [Handlers -> Handler]
  /\ todo \subseteq Request
  /\ outdated \subseteq Ops \X (Somebody \union Somewhere \union {"admins"})

\* A commit rested on facts about `x` that held no more.
Excused(x) == \E op \in Ops \ {"sweep"} : <<op, x>> \in outdated
\* The end date of a structural grant was set, and has passed.
RanOut(p, role, d) ==
  \E i \in DOMAIN grants : /\ grants[i].person = p /\ grants[i].role = role
                           /\ grants[i].at = d /\ grants[i].date = "over"

\* Whoever leads the team or heads a department holds the grant that goes with it, and nobody
\* else does; what was granted at an archived department has ended (set_team_lead,
\* set_department_head, archive; BR-F14-11).  The exceptions the code leaves: a structural grant
\* that was given an end date, and a grant at the department that starts later.
GrantsFollowTheStructure ==
  /\ \A p \in Persons : ~Excused(p) =>
       /\ HeldAs(p, "lead") # {} => members[p] = "lead"
       /\ members[p] = "lead" => HeldAs(p, "lead") # {} \/ RanOut(p, "lead", None)
  /\ \A d \in Departments : ~Excused(d) =>
       /\ \A i \in HeadsOf(d) :
            Excused(grants[i].person) \/ departments[d].head = grants[i].person
       /\ \A p \in Persons : departments[d].head = p =>
            Excused(p) \/ RanOut(p, "head", d) \/ \E i \in HeadsOf(d) : grants[i].person = p
       /\ departments[d].state = "archived" => \A i \in HeldAt(d) : grants[i].late

\* A leaver keeps no team, headship or grant, and an employee no team and no staff grant,
\* whatever order people, the identity sync and others' requests come in (People.leave,
\* AccountRights.assign; BR-F14-06, BR-F14-14).  The exception: grants that start later.
LeaversKeepNothing ==
  \A p \in Persons : ~Excused(p) =>
    /\ Gone(p) => /\ members[p] = "none" /\ HeadedBy(p) = {}
                  /\ \A i \in Held(p) : grants[i].late
    /\ ~Staff(p) => /\ members[p] = "none"
                    /\ \A i \in HeldAs(p, "lead") \union HeldAs(p, "addon") : grants[i].late

\* Whoever is active is in a live department, save for people who came back after theirs was
\* archived (archive, place; BR-F14-10).
PeopleHaveADepartment ==
  \A p \in Persons :
    people[p].active /\ ~people[p].returned => Live(people[p].dept) \/ Excused(people[p].dept)

\* Departments form a tree of bounded depth, live up to its root, and people are in it (create,
\* move, archive, place; BR-F14-10).
DepartmentsFormATree ==
  /\ \A d \in Departments : Live(d) =>
       \/ \E e \in Lineage(d) : Excused(e)
       \/ /\ Rooted(d) /\ Depth(d) <= MaxDepth
          /\ departments[d].parent # None => Live(departments[d].parent)
  /\ PeopleHaveADepartment

\* Somebody can grant access, break-glass accounts apart.  BR-F14-08 says so without exception;
\* the code looks for another admin in rows it does not lock (check_not_last_admin), so it falls
\* short when two suspensions, leavings or changes of role cross, and when the identity sync, which
\* does not look, takes the last.
AnAdminRemains == Admins # {} \/ Excused("admins")

\* What the row locks are for: no grant, suspension, return, leaving or change of profile ever
\* rests on outdated facts about its person, and no change of head on ones about its department.  A
\* change of role does: it reads the add-ons to keep before it locks.
LocksKeepFactsFresh ==
  /\ \A p \in Persons : \A op \in Locking \ RoleChange : <<op, p>> \notin outdated
  /\ \A d \in Departments : <<"edit", d>> \notin outdated

\* A change of `p`'s role commits, and ends grants of a role: an employee keeps none of them, and
\* others no add-on when they held none as it read which to keep.
RoleCommits(h, p) ==
  handlers[h].busy /\ Of(h).op = "assign" /\ Of(h).person = p /\ handlers'[h] = Idle
Drops(h, role) == Of(h).role = "employee" \/ (role = "addon" /\ ~SeenBy(h).addon)

\* Why grant `i` may end in a step.
Reason(i) ==
  LET g == grants[i]
      p == g.person
  IN \/ g.date = "over" \/ g.review = "due" \/ <<"sweep", p>> \in outdated'
     \/ Gone(p)' \/ \E h \in Handlers : RoleCommits(h, p) /\ Drops(h, g.role)
     \/ g.role = "lead" /\ members'[p] # "lead"
     \/ g.at \in Departments /\ g.role = "head" /\ departments'[g.at].head # p
     \/ g.at \in Departments /\ departments'[g.at].state = "archived"
     \/ \E r \in todo \ todo' : r.op = "end"

\* A grant is never deleted or brought back, and ends only because its date or its review is
\* due, its person leaves or becomes an employee, the structure behind it goes, or somebody ends it;
\* never for a move to another department or a suspension (Grants.end_rows and its callers;
\* BR-F14-13, BR-F14-14).  Two races end more than anybody asked for: a change of role ends an
\* add-on granted after it read which to keep, though set_base_role promises to keep it, and a
\* leaving ends the headship of whoever followed the leaver after it read the leaver's.
GrantsEndForAReason ==
  [][\A i \in DOMAIN grants :
       /\ i \in DOMAIN grants' /\ grants'[i].person = grants[i].person
       /\ IF grants[i].ended THEN grants'[i].ended ELSE ~grants'[i].ended \/ Reason(i)]_vars
=============================================================================
