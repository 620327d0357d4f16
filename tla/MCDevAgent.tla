----------------------------- MODULE MCDevAgent -----------------------------
(***************************************************************************)
(* Instances of DevAgent for TLC: the sets of services whose calls raise.  *)
(***************************************************************************)
EXTENDS DevAgentLedger

JiraOnly == {"jira"}
ExternalServices == {"jira", "git", "github"}
AllServices == Services
AllButJira == {"db", "git", "github"}
=============================================================================
