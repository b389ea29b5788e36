---------------------------- MODULE MCGovernance ----------------------------
(***************************************************************************)
(* Two projects on one host, honest, and then with one or two things in    *)
(* them that lie.                                                          *)
(***************************************************************************)
EXTENDS GovernanceProps

Posix(text) == [platform |-> "posix", text |-> text]
Windows(text) == [platform |-> "windows", text |-> text]
May(permitted, prohibited) == [modes |-> {"patch", "read"}, permitted |-> permitted, prohibited |-> prohibited]
All == May({"edit", "stage"}, {"push"})
Any2 == May({"edit", "push"}, {})

Rule(id, priority, project, domains, target) ==
  [id |-> id, priority |-> priority, project |-> project, domains |-> domains,
   operator |-> "exact", target |-> target]
Branches(exact, prefixes) == [exact |-> exact, prefixes |-> prefixes]
Role(project, owned, excluded) ==
  [project |-> project, owned |-> owned, excluded |-> excluded, permissions |-> All,
   allowed |-> Branches({<<"main">>}, {<<"feat">>}), denied |-> Branches({<<"feat", "b">>}, {<<"feat", "old">>}),
   clean |-> TRUE]
Domain(project, overlap) == [project |-> project, overlap |-> overlap, permissions |-> All]

Alpha ==
  [project |-> [id |-> "alpha", domains |-> {"core", "docs"}, roles |-> {"dev", "writer"},
                policy |-> "p", remotes |-> {"git", "mirror"}, permissions |-> All],
   domains |-> [core |-> Domain("alpha", {"docs"}), docs |-> Domain("alpha", {"core"})],
   roles |-> [dev |-> Role("alpha", {"core"}, {"docs"}), writer |-> Role("alpha", {"docs"}, {})],
   policy |-> [id |-> "p", project |-> "alpha",
               rules |-> <<Rule(1, 2, "alpha", {"core"}, "dev"), Rule(2, 1, "alpha", {"docs"}, "writer"),
                           Rule(3, 1, "alpha", {"core", "docs"}, "deny")>>]]
Beta ==
  [project |-> [id |-> "beta", domains |-> {"site"}, roles |-> {"dev"}, policy |-> "p",
                remotes |-> {"web"}, permissions |-> All],
   domains |-> [site |-> Domain("beta", {})],
   roles |-> [dev |-> Role("beta", {"site"}, {})],
   policy |-> [id |-> "p", project |-> "beta", rules |-> <<Rule(1, 1, "beta", {"site"}, "dev")>>]]

Binding(worktree, role, root) ==
  [worktree |-> worktree, role |-> role, root |-> root, ref |-> <<"feat", "a">>, remoteNames |-> {"origin"}]
Overlay(project, remote, bindings) ==
  [host |-> "h", project |-> project, remotes |-> {remote}, expectations |-> [origin |-> {remote}],
   bindings |-> bindings, ceiling |-> {"edit"}, inside |-> TRUE,
   stateRoot |-> Posix(<<"/", "s">>), lockRoot |-> Posix(<<"/", "s">>)]

World ==
  [alpha |-> Alpha, beta |-> Beta,
   here |-> Overlay("alpha", "git", <<Binding(1, "dev", Posix(<<"/", "a">>)),
                                      Binding(2, "writer", Posix(<<"/", "s", "/", "b">>))>>),
   there |-> Overlay("beta", "web", <<Binding(3, "dev", Windows(<<"C:", "\\", "a">>))>>),
   trustedRoots |-> {<<"stateRoot", Windows(<<"D:", "\\", "a">>)>>},
   contract |-> [project |-> "alpha", domains |-> {"core"}, worktree |-> 1, role |-> "dev",
                 mode |-> "patch", capabilities |-> {"edit"}, remotes |-> {"git"}, ref |-> <<"feat", "a">>,
                 clean |-> TRUE, withinDomains |-> TRUE, withinCeiling |-> TRUE]]

Submission(w, members) ==
  [bundle |-> w.alpha, overlay |-> w.here, trustedRoots |-> w.trustedRoots, contract |-> w.contract,
   members |-> members, unreliable |-> {}]
Here(w) == [overlay |-> w.here, bundle |-> w.alpha]
There(w) == [overlay |-> w.there, bundle |-> w.beta]

BundleLies(b) ==
  LET d == CHOOSE d \in b.project.domains : d # "docs"
      rs == b.policy.rules
  IN {[b EXCEPT !.project.domains = @ \cup {"lost"}], [b EXCEPT !.project.roles = @ \cup {"lost"}],
      [b EXCEPT !.project.domains = @ \ {"docs"}], [b EXCEPT !.project.roles = {"writer"}],
      [b EXCEPT !.project.policy = "q"], [b EXCEPT !.policy.project = "gamma"],
      [b EXCEPT !.policy.rules = << >>], [b EXCEPT !.policy.rules = Reverse(@)],
      [b EXCEPT !.policy.rules = Append(@, Last(@))],
      [b EXCEPT !.policy.rules = Append(@, [Last(@) EXCEPT !.id = 9])],
      [b EXCEPT !.policy.rules = Append(@, [Last(@) EXCEPT !.id = 9, !.target = "dev"])],
      [b EXCEPT !.policy.rules = Append(@, [Last(@) EXCEPT !.id = 9, !.operator = "within"])],
      [b EXCEPT !.policy.rules = Append(@, [Last(@) EXCEPT !.id = 9, !.priority = 0])],
      [b EXCEPT !.project.permissions = Any2]} \cup
     {[b EXCEPT !.domains[d].overlap = o] : o \in {{}, {d}, {"lost"}, {d, "docs"}}} \cup
     {[b EXCEPT !.domains[d].project = "gamma"], [b EXCEPT !.domains[d].permissions = Any2],
      [b EXCEPT !.domains[d].permissions.permitted = {"stage"}], [b EXCEPT !.domains[d].permissions.modes = {"read"}],
      [b EXCEPT !.project.permissions.prohibited = {"edit"}], [b EXCEPT !.project.remotes = {"mirror"}],
      [b EXCEPT !.roles.dev.project = "gamma"], [b EXCEPT !.roles.dev.permissions = Any2],
      [b EXCEPT !.roles.dev.permissions.permitted = {"stage"}], [b EXCEPT !.roles.dev.clean = FALSE],
      [b EXCEPT !.roles.dev.permissions.prohibited = {"edit"}],
      [b EXCEPT !.roles.dev.allowed = Branches({}, {<<"feat", "ab">>})],
      [b EXCEPT !.roles.dev.allowed = Branches({<<"feat", "a">>, <<"detached">>}, {})],
      [b EXCEPT !.roles.dev.denied = Branches({<<"feat", "a">>}, {})],
      [b EXCEPT !.roles.dev.denied = Branches({}, {<<"feat">>})]} \cup
     {[b EXCEPT !.roles.dev.owned = o] : o \in {{}, {"docs"}, {d, "docs"}, {"lost"}}} \cup
     {[b EXCEPT !.roles.dev.excluded = o] : o \in {{}, {d}, {"lost"}}} \cup
     {[b EXCEPT !.policy.rules[i] = [@ EXCEPT !.project = "gamma"]] : i \in DOMAIN rs} \cup
     {[b EXCEPT !.policy.rules[i] = [@ EXCEPT !.domains = o]] : i \in DOMAIN rs, o \in {{"lost"}, {"docs"}, {d}}} \cup
     {[b EXCEPT !.policy.rules[i] = [@ EXCEPT !.target = r]] : i \in DOMAIN rs, r \in {"deny", "dev", "lost"}}

SomeRoots ==
  {Posix(<<"/">>), Posix(<<"/", "a">>), Posix(<<"/", "a", "b">>), Posix(<<"/", "a", "/", "b">>),
   Posix(<<"/", "s", "/", "b">>), Windows(<<"C:", "\\">>), Windows(<<"C:", "\\", "a">>),
   Windows(<<"C:", "\\", "a", "b">>), Windows(<<"C:", "\\", "a", "\\", "b">>), Windows(<<"D:", "\\", "a">>)}

OverlayLies(o) ==
  {[o EXCEPT !.host = "g"], [o EXCEPT !.project = "gamma"], [o EXCEPT !.remotes = @ \cup {"mirror"}],
   [o EXCEPT !.remotes = {}], [o EXCEPT !.expectations.origin = {}], [o EXCEPT !.remotes = {"evil"}],
   [o EXCEPT !.expectations.origin = {"evil"}], [o EXCEPT !.ceiling = {}], [o EXCEPT !.ceiling = {"push"}],
   [o EXCEPT !.ceiling = {"edit", "stage"}], [o EXCEPT !.inside = FALSE], [o EXCEPT !.bindings = << >>],
   [o EXCEPT !.bindings = Append(@, [@[1] EXCEPT !.role = "writer"])],
   [o EXCEPT !.bindings = Append(@, [@[1] EXCEPT !.worktree = 9])]} \cup
  {[o EXCEPT !.bindings[1] = [@ EXCEPT !.worktree = w]] : w \in {1, 3, 9}} \cup
  {[o EXCEPT !.bindings[1] = [@ EXCEPT !.role = r]] : r \in {"writer", "lost"}} \cup
  {[o EXCEPT !.bindings[1] = [@ EXCEPT !.ref = r]] : r \in {<<"main">>, <<"feat", "old", "a">>, <<"detached">>}} \cup
  {[o EXCEPT !.bindings[1] = [@ EXCEPT !.remoteNames = n]] : n \in {{}, {"origin", "fork"}}} \cup
  {[o EXCEPT !.bindings[1] = [@ EXCEPT !.root = r]] : r \in SomeRoots} \cup
  {[o EXCEPT !.stateRoot = r] : r \in SomeRoots} \cup {[o EXCEPT !.lockRoot = r] : r \in SomeRoots}

ContractLies(k) ==
  {[k EXCEPT !.project = "beta"], [k EXCEPT !.worktree = 2], [k EXCEPT !.worktree = 3],
   [k EXCEPT !.role = "writer"], [k EXCEPT !.role = "lost"], [k EXCEPT !.mode = "read"], [k EXCEPT !.mode = "release"],
   [k EXCEPT !.clean = FALSE], [k EXCEPT !.withinDomains = FALSE], [k EXCEPT !.withinCeiling = FALSE]} \cup
  {[k EXCEPT !.domains = d] : d \in {{"docs"}, {"core", "docs"}, {"lost"}, {"site"}}} \cup
  {[k EXCEPT !.capabilities = c] : c \in {{}, {"stage"}, {"push"}, {"edit", "stage"}}} \cup
  {[k EXCEPT !.remotes = r] : r \in {{}, {"mirror"}, {"git", "mirror"}, {"web"}}} \cup
  {[k EXCEPT !.ref = r] : r \in {<<"main">>, <<"feat", "b">>, <<"feat", "old", "a">>, <<"detached">>, <<"wip">>}}

Lies(w) ==
  {[w EXCEPT !.alpha = b] : b \in BundleLies(w.alpha)} \cup
  {[w EXCEPT !.beta = b] : b \in BundleLies(w.beta)} \cup
  {[w EXCEPT !.here = o] : o \in OverlayLies(w.here)} \cup
  {[w EXCEPT !.there = o] : o \in OverlayLies(w.there)} \cup
  {[w EXCEPT !.contract = k] : k \in ContractLies(w.contract)} \cup
  {[w EXCEPT !.trustedRoots = {<<kind, r>>}] : kind \in {"stateRoot", "lockRoot"}, r \in SomeRoots}

\* A lie about the contract beside one about what it must not exceed.
Beside == {[World EXCEPT !.alpha = b] : b \in BundleLies(World.alpha)}
            \cup {[World EXCEPT !.here = o] : o \in OverlayLies(World.here)}
Twice == UNION {{[w EXCEPT !.contract = k] : k \in ContractLies(w.contract)} : w \in Beside}

ModelSubmissions ==
  {[Submission(w, <<Here(w), There(w)>>) EXCEPT !.unreliable = {"comparison", "paths"}] :
     w \in {World} \cup Lies(World)} \cup
  {Submission(w, <<Here(w), There(w)>>) : w \in {World} \cup Lies(World) \cup Twice} \cup
  {Submission(w, <<There(w), Here(w)>>) : w \in Lies(World)} \cup
  {Submission(World, <<Here(w), There(w)>>) : w \in Lies(World)} \cup
  {Submission(w, m) : w \in Lies(World), m \in {<< >>, <<Here(World)>>, <<There(World)>>, <<Here(World), Here(World)>>}}
=============================================================================
