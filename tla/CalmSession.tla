---------------------------- MODULE CalmSession ----------------------------
(* WebSession with a history variable: whether a fault has happened so far. *)
(* A request that the limiter turns away is no fault.                       *)
EXTENDS WebSession

VARIABLE calm  \* no reload, lost reply, failing call or lapsed token yet

Faultless == INSTANCE WebSession WITH
               RedisFails <- FALSE, Reloads <- FALSE, NetFails <- FALSE

CalmInit == Init /\ calm = TRUE
CalmNext == Next /\ calm' = (calm /\ Faultless!Next)
CalmSpec == CalmInit /\ [][CalmNext]_<<vars, calm>>

BeingRotated(p) ==
  \E c \in Calls : /\ call[c].step = "refreshing"
                   /\ call[c].auth.token = p
                   /\ req[c].step \in {"taken", "granted"}

\* As long as nothing fails and no page is reloaded, a customer who is shown as
\* logged in has what it takes to stay so, though the limiter may turn requests away:
\* the token the tab has is live, or a call is exchanging it (the refresh of
\* src/web/lib/api.js:64-67).
NotStranded ==
  calm => \A t \in Tabs : auth[t] # Nobody =>
            auth[t].token \in live \/ BeingRotated(auth[t].token)

=============================================================================
