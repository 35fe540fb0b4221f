--------------------------- MODULE MCCommandLine ---------------------------
(***************************************************************************)
(* CommandLine for TLC: deployments with one broken part.                  *)
(***************************************************************************)
EXTENDS CommandLine, TLC

Healthy ==
    [settings |-> TRUE, database |-> TRUE, token |-> "valid", api |-> "ok",
     ntfy |-> TRUE, gateway |-> "up"]

\* ntfy only matters to a run, and the gateway only to doctor.
OneBroken ==
    {Healthy, [Healthy EXCEPT !.settings = FALSE],
     [Healthy EXCEPT !.database = FALSE],
     [Healthy EXCEPT !.ntfy = FALSE, !.gateway = "down"],
     [Healthy EXCEPT !.api = "garbled", !.gateway = "unset"]}
    \cup {[Healthy EXCEPT !.token = v] : v \in {"dead", "unreachable"}}
    \cup {[Healthy EXCEPT !.api = v] : v \in {"forbidden", "down"}}

CONSTANTS t1, t2

\* A second `dawatch login` beside whatever the first terminal does; a dry run
\* ends as seed does.
SecondLogin == (t1 :> Command \ {"dry_run"}) @@ (t2 :> {"login"})
=============================================================================
