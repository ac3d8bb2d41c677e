------------------------------ MODULE MCRegistry ------------------------------
(* The workloads of the registry runs.                                     *)
EXTENDS Registry, TLC

\* Operations that meet in the same rows; sessions on their own.
MCWorkloads ==
    {{"login"}, {"service", "subscribe"}, {"service", "scan", "delete scan"},
     {"webhook", "delete webhook"}, {"consumer", "upsert consumer", "catalog", "sync"},
     {"env", "update env", "delete env"},
     {"rule", "toggle rule", "delete rule"}}

MCSyncWorkloads == {{"catalog", "sync"}}

\* None of these values is named in the specification.
MCSymmetry ==
    Permutations(Callers) \cup Permutations(Orgs) \cup Permutations(Slots)
        \cup Permutations(Tokens)
=============================================================================
