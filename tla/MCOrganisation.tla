--------------------------- MODULE MCOrganisation ---------------------------
(***************************************************************************)
(* Small instances of Organisation: a manager, a technician, a break-glass *)
(* account, four departments, and every choice of a few requests out of    *)
(* those that concern one matter.                                          *)
(***************************************************************************)
EXTENDS Organisation, FiniteSetsExt, TLC

CONSTANTS ann, ben, glass, root, north, south, west, h1, h2

MCPersons == {ann, ben, glass}
MCBreakGlass == {glass}
MCDepartments == {root, north, south, west}
MCHandlers == {h1, h2}
EitherHandler == Permutations(MCHandlers)

Asked(op, person, dept, parent, role, late) ==
  [op |-> op, person |-> person, dept |-> dept, parent |-> parent, role |-> role, late |-> late]
OfPerson(op, p) == Asked(op, p, None, None, "none", FALSE)
InRole(op, p, role) == Asked(op, p, None, None, role, FALSE)
At(op, p, d) == Asked(op, p, d, None, "none", FALSE)
Under(op, d, parent) == Asked(op, None, d, parent, "none", FALSE)
Granting(p, role, d, late) == Asked("grant", p, d, None, role, late)
Clerical == {OfPerson(op, None) : op \in {"end", "extend", "confirm", "sweep"}}

Working(role, d) ==
  [role |-> role, status |-> "active", active |-> TRUE, dept |-> d, returned |-> FALSE]
Open(parent, head) == [state |-> "live", parent |-> parent, head |-> head]
Unborn == [state |-> "absent", parent |-> None, head |-> None]

-----------------------------------------------------------------------------
(* What ben holds, as he leaves, moves or changes role *)

Leaving0 ==
  [people |-> ann :> Working("manager", root) @@ ben :> Working("technician", north)
              @@ glass :> Working("manager", root),
   departments |-> root :> Open(None, None) @@ north :> Open(root, ben)
                   @@ south :> Unborn @@ west :> Unborn,
   members |-> ann :> "none" @@ ben :> "lead" @@ glass :> "none",
   grants |-> <<Given(ben, "head", north, FALSE), Given(ben, "lead", None, FALSE),
                Given(ben, "custom", north, FALSE)>>,
   requests |-> {}]
LeavingRequests ==
  {OfPerson(op, ben) : op \in {"deactivate", "sync", "suspend", "reactivate", "sign-in", "remove"}}
  \union {InRole("join", ben, role) : role \in {"member", "lead"}}
  \union {InRole("role", ben, role) : role \in BaseRoles}
  \union {Granting(ben, "addon", None, late) : late \in BOOLEAN}
  \union {Granting(ben, "custom", north, TRUE), At("edit", ann, north), At("edit", ben, north),
          At("place", ben, root), At("profile", ben, root)}
  \union Clerical
\* Those of them that give something to a person who leaves.
Crossing == {OfPerson(op, ben) : op \in {"deactivate", "sync", "reactivate"}}
  \union {InRole("join", ben, "lead"), InRole("role", ben, "manager"),
          Granting(ben, "addon", None, FALSE), At("edit", ann, north), At("edit", ben, north)}

-----------------------------------------------------------------------------
(* The department tree *)

Tree0 ==
  [Leaving0 EXCEPT
     !.departments = root :> Open(None, None) @@ north :> Open(root, None)
                     @@ south :> Open(None, None) @@ west :> Open(None, None),
     !.members[ben] = "none", !.grants = <<>>]
TreeRequests ==
  {Under("move", d, e) : d, e \in {north, south, west}}
  \union {Under("archive", d, None) : d \in {north, south}}
  \union {At("place", ben, root), At("place", ann, south), At("profile", ann, south),
          At("edit", ann, south), OfPerson("suspend", ben), OfPerson("reactivate", ben)}
  \union {Granting(ann, "custom", south, late) : late \in BOOLEAN}

Sprout0 == [Tree0 EXCEPT !.departments[west] = Unborn]
SproutRequests ==
  {Under("create", west, north), Asked("create", ben, west, south, "none", FALSE),
   Under("move", north, south), Under("move", west, south), Under("move", south, west),
   Under("archive", south, None), Under("archive", north, None),
   OfPerson("deactivate", ben), At("place", ben, west)}

-----------------------------------------------------------------------------
(* The last who can grant access *)

Admins0 == [Leaving0 EXCEPT !.people[ben].role = "manager"]
AdminRequests ==
  {OfPerson(op, p) : op \in {"suspend", "deactivate", "sync"}, p \in {ann, ben}}
  \union {InRole("role", p, "technician") : p \in {ann, ben}}
  \union {OfPerson("reactivate", ben), OfPerson("deactivate", glass),
          InRole("role", glass, "employee")}

-----------------------------------------------------------------------------
Choosing(scene, n, requests) == {[scene EXCEPT !.requests = some] : some \in kSubset(n, requests)}

MCScenes ==
  UNION {Choosing(Leaving0, 3, LeavingRequests), Choosing(Leaving0, 4, Crossing),
         Choosing(Tree0, 3, TreeRequests), Choosing(Sprout0, 3, SproutRequests),
         Choosing(Admins0, 3, AdminRequests)}
=============================================================================
