---------------------------- MODULE MCPolicyGate ----------------------------
(* Evidence and configurations for TLC *)
EXTENDS PolicyGate

CONSTANTS c1, c2

Row(c, s, o, f) == [consumer |-> c, source |-> s, operation |-> o, field |-> f]

\* c1 was traced, c2 has a collection only.
MCEvidence == {Row(c1, "runtime", "op", "f"), Row(c2, "collection", "op", "")}

Config(b, m, a, c, s) ==
    [blockOn |-> b, failMode |-> m, allow |-> a, connected |-> c, serial |-> s]

\* Configurations that differ in what they can get wrong.
MCConfigs ==
    {Config("active_consumers", "closed", "label", TRUE, TRUE),
     Config("active_consumers", "open", "other", TRUE, TRUE),
     Config("active_consumers", "closed", "label", FALSE, FALSE),
     Config("never", "closed", "none", FALSE, TRUE),
     Config("any_break", "warn", "label", FALSE, TRUE)}
=============================================================================
