----------------------------- MODULE CisService -----------------------------
(***************************************************************************)
(* What the LwM2M client of src/src/demo/dm promises its application: the  *)
(* events it reports tell, one for one, how its link to the server moves.  *)
(* A registration is only reported over a connection that was reported, an *)
(* update only while registered, and every loss of the registration comes  *)
(* with the event that announces it.                                       *)
(***************************************************************************)

VARIABLES
    link,   \* what the client has: "down", "connected", "registered",
            \* "updating" (an update is out) or "leaving" (a DELETE is out)
    event   \* the last event reported through onEvent

serviceVars == <<link, event>>

Links == {"down", "connected", "registered", "updating", "leaving"}

ServiceInit == link = "down" /\ event = "none"

\* Link l becomes m, and the application is told so by one of the events es.
Report(l, m, es) == link = l /\ link' = m /\ event' \in es

Connected == Report("down", "connected", {"CONNECT_SUCCESS"})

StillDown ==
    Report("down", "down",
           {"BOOTSTRAP_START", "BOOTSTRAP_SUCCESS", "BOOTSTRAP_FAILED", "CONNECT_FAILED"})

Registered == Report("connected", "registered", {"REG_SUCCESS"})

RegistrationFailed == Report("connected", "down", {"REG_FAILED", "REG_TIMEOUT"})

Warned == Report("registered", "registered", {"UPDATE_NEED", "LIFETIME_TIMEOUT"})

UpdateSent == link = "registered" /\ link' = "updating" /\ UNCHANGED event

Updated == Report("updating", "registered", {"UPDATE_SUCCESS"})

UpdateFailed == Report("updating", "down", {"UPDATE_FAILED", "UPDATE_TIMEOUT"})

\* A DELETE is only sent for a registration the client has.
Leave == link \in {"registered", "updating"} /\ link' = "leaving" /\ UNCHANGED event

Unregistered == link' = "down" /\ event' = "UNREG_DONE"

ServiceNext ==
    \/ Connected \/ StillDown \/ Registered \/ RegistrationFailed \/ Warned
    \/ UpdateSent \/ Updated \/ UpdateFailed \/ Leave \/ Unregistered

ServiceSpec == ServiceInit /\ [][ServiceNext]_serviceVars
=============================================================================
