------------------------------- MODULE Leases -------------------------------
(***************************************************************************)
(* The lease table of the Endpoint Directory                               *)
(* (src/forge_gateway/domain/tool_directory.py, _current) as pure          *)
(* operators: what registering, unregistering and the passing of time do   *)
(* to the map from endpoint to its one current lease.  EndpointDirectory   *)
(* adds the revision counter; QueryService composes the table with the     *)
(* Query half of the Tool Gateway.                                         *)
(*                                                                         *)
(* Times are instants of the monotonic clock, in units of which LeaseTTL   *)
(* counts lease_ttl_ms.  Every operator takes the observation (now) its    *)
(* caller made of the clock, which may be older than the clock itself.     *)
(***************************************************************************)
EXTENDS Naturals, FiniteSets, Functions

CONSTANTS
  Endpoints,      \* the endpoint identities of the configured provider routes
  Routes,         \* the configured provider routes
  RouteEndpoint,  \* the endpoint each route is authorised for
  Instances,      \* the identities provider processes register under
  Descriptors,    \* the endpoint descriptors they may present
  Supported,      \* the descriptors with query/action/session operations only
  LeaseTTL        \* lease_ttl_ms

ASSUME LeaseAssumption ==
  /\ LeaseTTL \in Nat \ {0}
  /\ RouteEndpoint \in [Routes -> Endpoints]
  /\ Supported \subseteq Descriptors
  /\ IsFiniteSet(Endpoints)

\* RegisteredEndpoint; its registry_revision is kept by EndpointDirectory.
Lease == [instance : Instances, route : Routes,
          descriptor : Descriptors, expires : Nat]

IsLeaseTable(leases) ==
  DOMAIN leases \subseteq Endpoints /\ leases \in [DOMAIN leases -> Lease]

\* The identity part of endpoint.register and endpoint.unregister messages.
Registration == [endpoint : Endpoints, instance : Instances,
                 descriptor : Descriptors]
Withdrawal == [endpoint : Endpoints, instance : Instances]

-----------------------------------------------------------------------------
\* Mutation: a lease still counts at the very instant it runs out.
LapsedLate(leases, now) == {e \in DOMAIN leases : leases[e].expires < now}

\* _expired_locked: the leases that have run out by now.
Lapsed(leases, now) == {e \in DOMAIN leases : leases[e].expires <= now}

\* _apply_expired_locked: what is left of the table.
Live(leases, now) == Restrict(leases, DOMAIN leases \ Lapsed(leases, now))

Without(leases, e) == Restrict(leases, DOMAIN leases \ {e})

\* How a mutation reports the leases it removed to its caller.
Identities(leases, E) ==
  {[endpoint |-> e, instance |-> leases[e].instance] : e \in E}

-----------------------------------------------------------------------------
\* register_with_change for a route that is authorised for the endpoint; alone
\* it is RegisterVerdict without the authorisation (mutation).
AuthorizedVerdict(live, reg, route) ==
  IF reg.descriptor \notin Supported THEN "semantics_unsupported"
  ELSE IF reg.endpoint \notin DOMAIN live THEN "announced"
  ELSE IF live[reg.endpoint].route # route THEN "route_conflict"
  ELSE IF live[reg.endpoint].instance # reg.instance THEN "replaced"
  ELSE IF live[reg.endpoint].descriptor # reg.descriptor
       THEN "descriptor_conflict"
  ELSE "renewed"

\* The decision register_with_change takes once lapsed leases are gone.
RegisterVerdict(live, reg, route) ==
  IF reg.endpoint # RouteEndpoint[route] THEN "route_unauthorized"
  ELSE AuthorizedVerdict(live, reg, route)

RegisterVerdicts ==
  {"route_unauthorized", "semantics_unsupported", "announced",
   "route_conflict", "replaced", "descriptor_conflict", "renewed"}

\* Mutation: the lease is granted for the time before the message.
GrantedBefore(reg, route, now) ==
  [instance |-> reg.instance, route |-> route,
   descriptor |-> reg.descriptor, expires |-> now - LeaseTTL]

\* The lease a registration stores, measured from the message's own stamp.
Granted(reg, route, now) ==
  [instance |-> reg.instance, route |-> route,
   descriptor |-> reg.descriptor, expires |-> now + LeaseTTL]

\* The table a registration leaves, given the table without lapsed leases.
Announce(live, reg, route, now) ==
  IF RegisterVerdict(live, reg, route) \in {"announced", "replaced", "renewed"}
  THEN [e \in DOMAIN live \cup {reg.endpoint} |->
          IF e = reg.endpoint THEN Granted(reg, route, now) ELSE live[e]]
  ELSE live

\* Mutation: the lease of a replaced instance is not reported.
RemovedLapsedOnly(leases, reg, route, now) == Lapsed(leases, now)

\* The endpoints whose leases a registration removes, reported to the caller.
RemovedByRegister(leases, reg, route, now) ==
  Lapsed(leases, now)
    \cup {e \in {reg.endpoint} :
            RegisterVerdict(Live(leases, now), reg, route) = "replaced"}

\* The decision unregister_with_change takes once lapsed leases are gone.
UnregisterVerdict(live, wd, route) ==
  IF wd.endpoint # RouteEndpoint[route] THEN "route_unauthorized"
  ELSE IF wd.endpoint \notin DOMAIN live THEN "absent"
  ELSE IF live[wd.endpoint].route # route THEN "route_conflict"
  ELSE IF live[wd.endpoint].instance # wd.instance THEN "instance_stale"
  ELSE "removed"

UnregisterVerdicts ==
  {"route_unauthorized", "absent", "route_conflict", "instance_stale",
   "removed"}

Withdraw(live, wd, route) ==
  IF UnregisterVerdict(live, wd, route) = "removed"
  THEN Without(live, wd.endpoint)
  ELSE live

RemovedByUnregister(leases, wd, route, now) ==
  Lapsed(leases, now)
    \cup {e \in {wd.endpoint} :
            UnregisterVerdict(Live(leases, now), wd, route) = "removed"}
=============================================================================
