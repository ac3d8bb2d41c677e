-------------------------- MODULE MCUsagePipeline --------------------------
(* One instance of UsagePipeline for TLC: the SDK's process and another    *)
(* client behind one proxy, two organisations.                             *)
EXTENDS UsagePipeline

CONSTANTS acme, other, proxy, addr1, addr2, web, i1, i2

MCClients == {[peer |-> proxy, forwarded |-> addr1], [peer |-> proxy, forwarded |-> addr2]}
MCSdkClient == [peer |-> proxy, forwarded |-> addr1]

Item(consumer, field) == [consumer |-> consumer, field |-> field, event |-> 0]

MCBatches == {<<Item(acme, FALSE), Item(acme, TRUE)>>,
              <<Item(acme, FALSE), Item(Free, FALSE)>>, <<Item(other, FALSE)>>}

\* Two files of one collection with a request in common.
MCCollection == <<web, web>>
MCItems == <<{i1}, {i1, i2}>>
=============================================================================
