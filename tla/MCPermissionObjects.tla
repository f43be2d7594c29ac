------------------------ MODULE MCPermissionObjects ------------------------
(***************************************************************************)
(* RBAC objects and a ClusterPermission, for instances of UserPermissions: *)
(* every object is there, is not, or has another content.                  *)
(***************************************************************************)
EXTENDS TLC

User(n) == [kind |-> "User", name |-> n]
Group(n) == [kind |-> "Group", name |-> n]
ServiceAccount(n) == [kind |-> "ServiceAccount", name |-> n]

\* Rules that make an admin, a viewer, or neither.
Rule(groups, kinds, verbs) == [groups |-> groups, resources |-> kinds, verbs |-> verbs]
AdminRules == {Rule({"*"}, {"managedclusteractions", "managedclusterviews"}, {"create"})}
ViewRules == {Rule({"view"}, {"*"}, {"get", "create"})}
ActRules == {Rule({"action"}, {"managedclusteractions"}, {"*"})}

ClusterRole(rules, discoverable) ==
    [kind |-> "ClusterRole", name |-> "r", rules |-> rules, discoverable |-> discoverable]
Role(rules) == [kind |-> "Role", name |-> "r", namespace |-> "c1", rules |-> rules]
ClusterRoleBinding(who) == [kind |-> "ClusterRoleBinding", role |-> "r", subjects |-> who]
RoleBinding(kind, who) ==
    [kind |-> "RoleBinding", namespace |-> "c1", roleKind |-> kind, role |-> "r", subjects |-> who]

\* One binding of the role above and one of a role that does not exist.
ClusterPermission(namespace, who) ==
    [kind |-> "ClusterPermission", namespace |-> "c1",
     bindings |-> {[role |-> "r", namespace |-> namespace, subjects |-> who],
                   [role |-> "q", namespace |-> "*", subjects |-> who]}]

MCObjects == {"clusterRole", "role", "clusterRoleBinding", "roleBinding", "clusterPermission"}

MCContents ==
    "clusterRole" :> {ClusterRole(AdminRules, FALSE), ClusterRole(ViewRules, TRUE), ClusterRole(ActRules, FALSE)}
      @@ "role" :> {Role(AdminRules), Role(ViewRules)}
      @@ "clusterRoleBinding" :> {ClusterRoleBinding({Group("g")}), ClusterRoleBinding({User("u"), ServiceAccount("s")})}
      @@ "roleBinding" :> {RoleBinding("ClusterRole", {User("u")}), RoleBinding("Role", {User("u")})}
      @@ "clusterPermission" :> {ClusterPermission("ns", {User("u")}), ClusterPermission("*", {Group("g")})}

\* Everything, nothing, or everything with a discoverable role.
Everything == [o \in MCObjects |-> CHOOSE c \in MCContents[o] : TRUE]
MCWorlds(absent) ==
    {Everything, [o \in MCObjects |-> absent], [Everything EXCEPT !["clusterRole"] = ClusterRole(ViewRules, TRUE)]}

MCRequests == {[name |-> "u", groups |-> {"g"}], [name |-> "v", groups |-> {"g"}]}
=============================================================================
