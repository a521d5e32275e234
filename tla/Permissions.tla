---------------------------- MODULE Permissions ----------------------------
(***************************************************************************)
(* The permissions pane, which lists what a user, a group, a service       *)
(* account, a binding or a role may do.  It is computed from the bindings  *)
(* and roles of the store at every change of the store; removed ones stay  *)
(* in the store, marked as deleted.  The users and groups tab takes the    *)
(* subject from the address and offers the ones the store has seen.        *)
(***************************************************************************)
EXTENDS Naturals, FiniteSets, FiniteSetsExt

CONSTANTS BoundSubject,      \* [kind, name, space] of the subjects of bindings
          Binding,      \* keys of RoleBindings and ClusterRoleBindings
          Role,         \* keys of Roles and ClusterRoles
          SpaceOfBinding, SpaceOfRole,  \* key -> namespace, Everywhere without one
          Rules,        \* role -> its rules
          ForUrls,      \* the rules that have nonResourceURLs
          Everywhere, NotApplicable,    \* what the namespaces column says
          None,
          MaxSubjects

ASSUME MaxSubjectsAssumption == MaxSubjects \in Nat \ {0}

(* Kind, name and namespace tell subjects apart; the service accounts of a *)
(* name all have a namespace, a user or a group has none.                  *)
ASSUME SubjectAssumption ==
  \A s, t \in BoundSubject :
    s.kind = t.kind /\ s.name = t.name /\ (s.space = t.space \/ s.space = None) => s = t

SubjectSets == UNION {kSubset(n, BoundSubject) : n \in 1..MaxSubjects}

VARIABLES bindings,   \* key -> [role, subjects, live], or None
          roles,      \* key -> "absent", "live" or "deleted"
          offeredSubjects,    \* autocomplete.subjects: [kind, name]
          pane        \* what the pane shows the permissions of, or None

permissionVars == <<bindings, roles, offeredSubjects, pane>>
-----------------------------------------------------------------------------
NameOf(s) == [kind |-> s.kind, name |-> s.name]

(* bindsToSubject: kind and name, and the namespace if the entry has one.  *)
(* For a user or a group no entry has one.                                 *)
BindsToName(b, subject) ==
  \E s \in bindings[b].subjects : NameOf(s) = NameOf(subject)
BindsToSubject(b, subject) ==
  \E s \in bindings[b].subjects :
    NameOf(s) = NameOf(subject) /\ (s.space = None \/ s.space = subject.space)

(* convertRule, with the namespaces a rule is shown for.                   *)
ConvertRule(rule, space) ==
  [rule |-> rule, in |-> IF rule \in ForUrls THEN NotApplicable ELSE space]

(* The rules under a binding.  The key of the role is built from           *)
(* roleRef.namespace, which the API never sets: only a ClusterRole is      *)
(* found.                                                                  *)
RulesOf(b) ==
  LET r == bindings[b].role
  IN IF roles[r] # "absent" /\ SpaceOfRole[r] = Everywhere
     THEN {ConvertRule(rule, SpaceOfBinding[b]) : rule \in Rules[r]}
     ELSE {}

GetPermissions(target) ==
  CASE target.by = "subject" ->
         {[binding |-> b, rules |-> RulesOf(b)] :
            b \in {c \in Binding : bindings[c] # None /\ BindsToSubject(c, target.of)}}
    [] target.by = "binding" -> {[binding |-> target.of, rules |-> RulesOf(target.of)]}
    [] target.by = "role" ->
         {[binding |-> None, rules |-> {ConvertRule(rule, SpaceOfRole[target.of]) : rule \in Rules[target.of]}]}

Permissions == IF pane = None THEN {} ELSE GetPermissions(pane)
-----------------------------------------------------------------------------
(* PUT_RESOURCE or a list brings a binding or a role.  The subjects of the *)
(* binding are added to those offered.                                     *)
PutBinding(b, r, ss) ==
  /\ bindings' = [bindings EXCEPT ![b] = [role |-> r, subjects |-> ss, live |-> TRUE]]
  /\ offeredSubjects' = offeredSubjects \union {NameOf(s) : s \in ss}
  /\ UNCHANGED <<roles, pane>>
PutRole(r) == roles' = [roles EXCEPT ![r] = "live"] /\ UNCHANGED <<bindings, offeredSubjects, pane>>

(* REMOVE_RESOURCE                                                         *)
RemoveBinding(b) ==
  /\ bindings[b] # None
  /\ bindings' = [bindings EXCEPT ![b].live = FALSE]
  /\ UNCHANGED <<roles, offeredSubjects, pane>>
RemoveRole(r) ==
  /\ roles[r] = "live"
  /\ roles' = [roles EXCEPT ![r] = "deleted"]
  /\ UNCHANGED <<bindings, offeredSubjects, pane>>

(* The subject of the address, chosen in the tab from the ones offered     *)
(* without the service accounts (filterServiceAccounts), or in a chip of a *)
(* binding's permissions (viewPermissions).                                *)
FilterServiceAccounts == {s \in offeredSubjects : s.kind # "ServiceAccount"}

SetSubject(s) ==
  /\ \/ NameOf(s) \in FilterServiceAccounts
     \/ pane # None /\ pane.by = "binding" /\ s \in bindings[pane.of].subjects
  /\ pane' = [by |-> "subject", of |-> s]
  /\ UNCHANGED <<bindings, roles, offeredSubjects>>

(* The chip of the subject is removed, or the page is left.                *)
ClearSubject == pane # None /\ pane' = None /\ UNCHANGED <<bindings, roles, offeredSubjects>>

(* The page of a service account, a binding or a role.                     *)
ViewAccount(s) ==
  /\ s.kind = "ServiceAccount"
  /\ pane' = [by |-> "subject", of |-> s] /\ UNCHANGED <<bindings, roles, offeredSubjects>>
ViewBinding(b) ==
  /\ bindings[b] # None
  /\ pane' = [by |-> "binding", of |-> b] /\ UNCHANGED <<bindings, roles, offeredSubjects>>
ViewRole(r) ==
  /\ roles[r] # "absent"
  /\ pane' = [by |-> "role", of |-> r] /\ UNCHANGED <<bindings, roles, offeredSubjects>>
-----------------------------------------------------------------------------
PermissionsInit ==
  /\ bindings = [b \in Binding |-> None] /\ roles = [r \in Role |-> "absent"]
  /\ offeredSubjects = {} /\ pane = None

PermissionsNext ==
  \/ \E b \in Binding, r \in Role, ss \in SubjectSets : PutBinding(b, r, ss)
  \/ \E r \in Role : PutRole(r) \/ RemoveRole(r) \/ ViewRole(r)
  \/ \E b \in Binding : RemoveBinding(b) \/ ViewBinding(b)
  \/ \E s \in BoundSubject : SetSubject(s) \/ ViewAccount(s)
  \/ ClearSubject

PermissionsSpec == PermissionsInit /\ [][PermissionsNext]_permissionVars
-----------------------------------------------------------------------------
PermissionsTypeOK ==
  /\ bindings \in [Binding -> [role : Role, subjects : SubjectSets, live : BOOLEAN] \union {None}]
  /\ roles \in [Role -> {"absent", "live", "deleted"}]
  /\ offeredSubjects \subseteq {NameOf(s) : s \in BoundSubject}
  /\ pane \in [by : {"subject"}, of : BoundSubject] \union [by : {"binding"}, of : Binding]
              \union [by : {"role"}, of : Role] \union {None}

(* What the cluster grants a subject through a binding that exists: the    *)
(* subject is one of its subjects, to the namespace, and the rules of its  *)
(* role hold in the namespace of the binding, or everywhere.               *)
Granted(s) ==
  {g \in [binding : Binding, rule : UNION {Rules[r] : r \in Role}] :
     LET b == bindings[g.binding]
     IN /\ b # None /\ b.live /\ s \in b.subjects
        /\ roles[b.role] = "live" /\ SpaceOfRole[b.role] = Everywhere
        /\ g.rule \in Rules[b.role]}

(* What the pane lists of the bindings and the roles that exist, each rule *)
(* for the namespace of its binding.                                       *)
ListedGrants ==
  {g \in [binding : Binding, rule : UNION {Rules[r] : r \in Role}] :
     LET b == bindings[g.binding]
     IN /\ b # None /\ b.live /\ roles[b.role] = "live"
        /\ \E p \in Permissions :
             /\ p.binding = g.binding
             /\ [rule |-> g.rule, in |-> IF g.rule \in ForUrls THEN NotApplicable ELSE SpaceOfBinding[g.binding]]
                  \in p.rules}

(* The permissions listed for a subject are those the cluster grants it by *)
(* the existing bindings of ClusterRoles, each for the namespace of its    *)
(* binding: getPermissions matches subjects field by field and finds the   *)
(* role by a key it builds.                                                *)
ShownAsGranted == pane # None /\ pane.by = "subject" => ListedGrants = Granted(pane.of)
=============================================================================
