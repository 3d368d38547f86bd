---------------------------- MODULE MCBackOffice ----------------------------
(***************************************************************************)
(* One run for the components around the payments.  They share no state,   *)
(* so "focus" chooses the one that moves while the others stay in their    *)
(* initial states: the state space is the sum of theirs, not the product.  *)
(***************************************************************************)
EXTENDS Invoices, DashboardSessions, AccountTokens, Team, Onboarding, KeyRotation,
    EmailOutbox, TokenCache, TLC

VARIABLE focus

vars == <<focus, invoiceVars, serverVars, dashboardVars, tokenVars, teamVars, onboardingVars,
          rotationVars, outboxVars, tokenCacheVars>>

Components ==
    {"invoices", "sessions", "dashboard", "tokens", "team", "onboarding", "rotation",
     "outbox", "cache"}

Init ==
    /\ focus \in Components
    /\ InvoiceInit
    /\ DashboardInit
    /\ TokenInit
    /\ TeamInit
    /\ OnboardingInit
    /\ merchant.environment = "production" => focus = "onboarding"
    /\ RotationInit
    /\ OutboxInit
    /\ TokenCacheInit

MoveInvoices ==
    focus = "invoices" /\ InvoiceNext /\ UNCHANGED
        <<serverVars, dashboardVars, tokenVars, teamVars, onboardingVars, rotationVars,
          outboxVars, tokenCacheVars>>
MoveSessions ==
    focus = "sessions" /\ ServerNext /\ UNCHANGED
        <<invoiceVars, dashboardVars, tokenVars, teamVars, onboardingVars, rotationVars,
          outboxVars, tokenCacheVars>>

\* The dashboard in front of the same sessions, without password resets.
MoveDashboard ==
    focus = "dashboard" /\ DashboardNext /\ ~Resetting' /\ UNCHANGED
        <<invoiceVars, tokenVars, teamVars, onboardingVars, rotationVars, outboxVars,
          tokenCacheVars>>
MoveTokens ==
    focus = "tokens" /\ TokenNext /\ UNCHANGED
        <<invoiceVars, serverVars, dashboardVars, teamVars, onboardingVars, rotationVars,
          outboxVars, tokenCacheVars>>
MoveTeam ==
    focus = "team" /\ TeamNext /\ UNCHANGED
        <<invoiceVars, serverVars, dashboardVars, tokenVars, onboardingVars, rotationVars,
          outboxVars, tokenCacheVars>>
MoveOnboarding ==
    focus = "onboarding" /\ OnboardingNext /\ UNCHANGED
        <<invoiceVars, serverVars, dashboardVars, tokenVars, teamVars, rotationVars,
          outboxVars, tokenCacheVars>>
MoveRotation ==
    focus = "rotation" /\ RotationNext /\ UNCHANGED
        <<invoiceVars, serverVars, dashboardVars, tokenVars, teamVars, onboardingVars,
          outboxVars, tokenCacheVars>>
MoveOutbox ==
    focus = "outbox" /\ OutboxNext /\ UNCHANGED
        <<invoiceVars, serverVars, dashboardVars, tokenVars, teamVars, onboardingVars,
          rotationVars, tokenCacheVars>>
MoveCache ==
    focus = "cache" /\ TokenCacheNext /\ UNCHANGED
        <<invoiceVars, serverVars, dashboardVars, tokenVars, teamVars, onboardingVars,
          rotationVars, outboxVars>>

Next ==
    /\ UNCHANGED focus
    /\ \/ MoveInvoices \/ MoveSessions \/ MoveDashboard \/ MoveTokens
       \/ MoveTeam \/ MoveOnboarding \/ MoveRotation \/ MoveOutbox \/ MoveCache

Spec == Init /\ [][Next]_vars

\* The components use the same model values for their rows and for pairs of
\* requests, which are interchangeable in each.
Symmetry == Permutations(Payments) \cup Permutations(Requests) \cup Permutations(Invitations)

-----------------------------------------------------------------------------
\* The rows, transactions and caches of every component have their types.
TypeOK ==
    CASE focus = "invoices"   -> InvoiceTypeOK
      [] focus = "sessions"   -> ServerTypeOK
      [] focus = "dashboard"  -> DashboardTypeOK
      [] focus = "tokens"     -> TokenTypeOK
      [] focus = "team"       -> TeamTypeOK
      [] focus = "onboarding" -> OnboardingTypeOK
      [] focus = "rotation"   -> RotationTypeOK
      [] focus = "outbox"     -> OutboxTypeOK
      [] focus = "cache"      -> TokenCacheTypeOK

=============================================================================
