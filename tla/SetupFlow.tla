------------------------------- MODULE SetupFlow -------------------------------
(***************************************************************************)
(* The guided setup: the backend reduces the state of the deployment to a  *)
(* dashboard of sections, counters and items that need attention; the page *)
(* derives from it which steps are complete, which one is next, where its  *)
(* one button leads and whether the deployment is live.                    *)
(*                                                                         *)
(* The deployment changes while the page shows an earlier dashboard.  The  *)
(* list of instances is a query of its own.                                *)
(***************************************************************************)
EXTENDS Naturals, FiniteSets

CONSTANTS ActLimit,  \* changes of the deployment (a bound)
          None

\* providers: the best provider route; trouble: what is wrong with one;
\* health: bootstrap and runtime checks; routing: "budget" is a hard block.
Alarms == {"none", "warning", "critical"}
FactValues ==
    [instance |-> BOOLEAN, providers |-> {"none", "configured", "ready"}, trouble |-> Alarms,
     accounts |-> BOOLEAN, keys |-> BOOLEAN, traffic |-> BOOLEAN,
     health |-> {"blocked", "warning", "ready"},
     security |-> {"blocked", "degraded", "ready"}, alerts |-> Alarms,
     routing |-> {"budget", "blocked", "degraded", "ready"}, costly |-> BOOLEAN]

\* A provider that is not configured is not ready, which is trouble.
IsFacts(f) ==
    /\ DOMAIN f = DOMAIN FactValues /\ \A key \in DOMAIN f : f[key] \in FactValues[key]
    /\ f.providers = "none" => f.trouble # "none"

VARIABLES
    facts,      \* server: what is configured and what runs
    rotate,     \* the session has to replace its password first
    admin,      \* the session is that of an admin
    dashboard,  \* the dashboard query: "loading", "error" or "loaded"
    shown,      \* the facts that the last dashboard was made from
    instances,  \* the instances query: "loading", "error", or "some" or "none" of them
    acts

vars == <<facts, rotate, admin, dashboard, shown, instances, acts>>

TypeOK ==
    /\ IsFacts(facts)
    /\ rotate \in BOOLEAN /\ admin \in BOOLEAN
    /\ dashboard \in {"loading", "error", "loaded"}
    /\ shown = None \/ IsFacts(shown)
    /\ dashboard = "loaded" => IsFacts(shown)
    /\ instances \in {"loading", "error", "some", "none"}
    /\ acts \in 0 .. ActLimit

-----------------------------------------------------------------------------
(* The dashboard.                                                          *)

EmptyState(f) ==
    f.providers = "none" /\ ~f.keys /\ ~f.accounts /\ ~f.traffic

ReadinessStatus(f) ==
    IF EmptyState(f) THEN "onboarding-only"
    ELSE IF f.health = "warning" THEN "degraded" ELSE f.health

SecurityStatus(f) == IF admin THEN f.security ELSE "waiting_approval"

RuntimeStatus(f) ==
    IF f.alerts = "critical" THEN "blocked"
    ELSE IF f.alerts = "warning" \/ f.trouble # "none" THEN "degraded"
    ELSE IF ~f.traffic THEN "onboarding-only" ELSE "ready"

RoutingStatus(f) == IF f.routing = "budget" THEN "blocked" ELSE f.routing

CostStatus(f) ==
    IF f.routing = "budget" THEN "blocked" ELSE IF f.costly THEN "degraded" ELSE "ready"

\* What each area reports; an area without anything to report is "ready".
StatusOf(f) ==
    [setup |-> IF EmptyState(f) THEN "onboarding-only" ELSE "ready",
     readiness |-> IF ReadinessStatus(f) = "blocked" THEN "blocked" ELSE "ready",
     security |-> IF SecurityStatus(f) = "waiting_approval" THEN "ready" ELSE SecurityStatus(f),
     alert |-> CASE f.alerts = "critical" -> "blocked" [] f.alerts = "warning" -> "degraded"
                 [] OTHER -> "ready",
     provider |-> CASE f.trouble = "critical" -> "degraded" [] f.trouble = "warning" -> "blocked"
                    [] OTHER -> "ready",
     routing |-> RoutingStatus(f),
     cost |-> CostStatus(f)]

Areas == {"setup", "readiness", "security", "alert", "provider", "routing", "cost"}

Attention(f) == {a \in Areas : StatusOf(f)[a] # "ready"}

\* An item is critical when it blocks; a provider is critical for its
\* failing authorisations, which only degrade it.
Critical(f, a) ==
    \/ a \in {"setup", "readiness"}
    \/ a = "provider" /\ f.trouble = "critical"
    \/ a # "provider" /\ StatusOf(f)[a] = "blocked"

\* Items are sorted by status, then severity, then axis.
Axis == [setup |-> 0, readiness |-> 0, security |-> 1, alert |-> 2, provider |-> 2,
         routing |-> 3, cost |-> 4]

Rank(f, a) ==
    100 * (CASE StatusOf(f)[a] = "blocked" -> 0
             [] StatusOf(f)[a] = "onboarding-only" -> 3
             [] OTHER -> 4)
    + 10 * (IF Critical(f, a) THEN 0 ELSE 1) + Axis[a]

FirstOf(f, items) == CHOOSE a \in items : \A b \in items : Rank(f, a) <= Rank(f, b)

\* The routes of the items; the dashboard itself is the setup surface.
RouteOf(a) ==
    IF a \in {"setup", "readiness"} THEN "dashboard" ELSE a

BackendAction(f) ==
    IF EmptyState(f) THEN "dashboard"
    ELSE IF Attention(f) = {} THEN "release_validation"
    ELSE RouteOf(FirstOf(f, Attention(f)))

-----------------------------------------------------------------------------
(* The page.                                                               *)

HasInstance == instances = "some"

Loading == dashboard = "loading" \/ instances = "loading"
Loaded == ~rotate /\ ~Loading /\ dashboard = "loaded"

\* Mutant: a link to the surface that shows it is followed.
IsSetupSurfaceNever(to) == FALSE

IsSetupSurface(to) == to = "dashboard"

\* The pages that the button may lead to.
Pages == Areas \cup {"dashboard", "release_validation", "instances", "providers",
                     "api_keys", "ingress_tls"}

StepIds == 2 .. 8  \* step 1, the rotation, stands alone

\* Items count for a step by their wording: those of routing, readiness and
\* instances are named otherwise by the backend and match none.
Matching(f, n) ==
    Attention(f) \cap CASE n = 3 -> {"provider"}
                         [] n = 5 -> {"setup"}
                         [] n = 7 -> {"alert", "provider", "cost"}
                         [] OTHER -> {}

CriticalMatch(f, n) ==
    Matching(f, n) # {} /\ Critical(f, FirstOf(f, Matching(f, n)))

\* Mutant: a provider that is configured counts as connected.
DoneWhenConfigured(f, n) ==
    CASE n = 2 -> HasInstance
      [] n = 3 -> f.providers # "none"
      [] n = 4 -> RoutingStatus(f) = "ready"
      [] n = 5 -> f.keys
      [] n = 6 -> ReadinessStatus(f) = "ready"
      [] n = 7 -> RuntimeStatus(f) = "ready" \/ f.traffic
      [] n = 8 -> Attention(f) = {}

Done(f, n) ==
    CASE n = 2 -> HasInstance
      [] n = 3 -> f.providers = "ready"
      [] n = 4 -> RoutingStatus(f) = "ready"
      [] n = 5 -> f.keys
      [] n = 6 -> ReadinessStatus(f) = "ready"
      [] n = 7 -> RuntimeStatus(f) = "ready" \/ f.traffic
      [] n = 8 -> Attention(f) = {}

BlockedStep(f, n) ==
    \/ n = 3 /\ f.providers = "none"
    \/ n = 4 /\ RoutingStatus(f) = "blocked"
    \/ n = 6 /\ ReadinessStatus(f) = "blocked"
    \/ n = 8 /\ Attention(f) # {}
    \/ CriticalMatch(f, n)

StepRoute(f, n) ==
    CASE n = 2 -> "instances" [] n = 3 -> "providers" [] n = 4 -> "routing"
      [] n = 5 -> "api_keys" [] n = 6 -> "ingress_tls" [] n = 7 -> "release_validation"
      [] n = 8 -> IF Attention(f) = {} THEN "dashboard"
                  ELSE IF IsSetupSurface(RouteOf(FirstOf(f, Attention(f))))
                  THEN "release_validation" ELSE RouteOf(FirstOf(f, Attention(f)))

\* The first step that is not complete is current or blocked, the others wait.
Open(f) == {n \in StepIds : ~Done(f, n)}
Current(f) == CHOOSE n \in Open(f) : \A m \in Open(f) : n <= m

OverallStatus(f) ==
    IF Open(f) = {} THEN "live"
    ELSE IF BlockedStep(f, Current(f)) THEN "blocked" ELSE "in-progress"

\* The one button of the page.
PrimaryAction(f) ==
    IF ~IsSetupSurface(BackendAction(f)) THEN BackendAction(f)
    ELSE IF Open(f) # {} THEN StepRoute(f, Current(f)) ELSE None

SetupMode(f) ==
    IF rotate THEN "password-rotation"
    ELSE IF EmptyState(f) \/ ~HasInstance THEN "bootstrap"
    ELSE IF Attention(f) = {} THEN "operational" ELSE "bootstrap"

-----------------------------------------------------------------------------
(* Actions.                                                                *)

\* One thing of the deployment changes.
Change ==
    /\ acts < ActLimit /\ acts' = acts + 1
    /\ \E key \in DOMAIN facts : \E v \in FactValues[key] :
         v # facts[key] /\ facts' = [facts EXCEPT ![key] = v] /\ IsFacts(facts')
    /\ UNCHANGED <<rotate, admin, dashboard, shown, instances>>

\* The data of an earlier load is kept; the page shows the error alone.
DashboardFails ==
    /\ dashboard' = "error"
    /\ UNCHANGED <<facts, rotate, admin, shown, instances, acts>>

DashboardLoads ==
    /\ dashboard' = "loaded" /\ shown' = facts
    /\ UNCHANGED <<facts, rotate, admin, instances, acts>>

InstancesFail ==
    /\ instances = "loading"
    /\ instances' = "error"
    /\ UNCHANGED <<facts, rotate, admin, dashboard, shown, acts>>

InstancesLoad ==
    /\ instances' = IF facts.instance THEN "some" ELSE "none"
    /\ UNCHANGED <<facts, rotate, admin, dashboard, shown, acts>>

PasswordRotates ==
    /\ rotate
    /\ rotate' = FALSE
    /\ UNCHANGED <<facts, admin, dashboard, shown, instances, acts>>

\* A deployment that was just installed, and one that serves.
Fresh ==
    [instance |-> FALSE, providers |-> "none", trouble |-> "warning", accounts |-> FALSE,
     keys |-> FALSE, traffic |-> FALSE, health |-> "blocked", security |-> "blocked",
     alerts |-> "none", routing |-> "ready", costly |-> FALSE]

Serving ==
    [instance |-> TRUE, providers |-> "ready", trouble |-> "none", accounts |-> TRUE,
     keys |-> TRUE, traffic |-> TRUE, health |-> "ready", security |-> "ready",
     alerts |-> "none", routing |-> "ready", costly |-> FALSE]

Init ==
    /\ facts \in {Fresh, Serving}
    /\ rotate \in BOOLEAN /\ admin \in BOOLEAN
    /\ dashboard = "loading" /\ shown = None /\ instances = "loading"
    /\ acts = 0

Next == Change \/ DashboardLoads \/ DashboardFails \/ InstancesLoad \/ InstancesFail
        \/ PasswordRotates

Spec == Init /\ [][Next]_vars

-----------------------------------------------------------------------------
(* The one button is always there and always leads to another page: the    *)
(* operator is never sent from the setup to the setup.                     *)
SetupLeadsSomewhere ==
    Loaded => PrimaryAction(shown) \notin {None, "dashboard"}

(* An admin is told that the deployment is live only if it had a runtime   *)
(* that accepts traffic, a provider route, a runtime key, open routing and *)
(* a closed security posture, and nothing that needs attention.            *)
LiveIsJustified ==
    Loaded /\ admin /\ OverallStatus(shown) = "live" =>
        /\ shown.health = "ready" /\ shown.providers = "ready" /\ shown.keys
        /\ shown.routing = "ready" /\ shown.security = "ready"
        /\ shown.trouble = "none" /\ shown.alerts = "none" /\ ~shown.costly
=============================================================================
