----------------------- MODULE MCContinuityInvocation -----------------------
(* Instances of ContinuityInvocation for TLC. *)
EXTENDS ContinuityInvocation, TLC

CONSTANTS t1, i1, p1, d1, s1, c1, c2, r1, r2

Target(tenant, identity, project, scope) ==
    [tenant |-> tenant, identity |-> identity,
     project |-> project, scope |-> scope]

\* Context is asked for in one scope of a project.
Lookups == {Target(t1, i1, p1, s1)}

\* Runways exist there, in the project's default scope and in the global one.
Sources == Lookups \union {Target(t1, i1, p1, d1), Target(t1, i1, Global, d1)}

\* c1 is a specialist of one project, c2 may do anything in the tenant.
MCTenantOf == (c1 :> t1) @@ (c2 :> t1)
MCProjectsOf == (c1 :> {p1}) @@ (c2 :> Projects)
MCCreatorOf == (r1 :> c2) @@ (r2 :> c1)
MCIdentitiesOf == [c \in Credentials |-> Identities]

=============================================================================
