----------------------------- MODULE MCDNSWire -----------------------------
(* Messages of a question and up to two records, as octets.  An octet of a *)
(* name ends it (0), starts a label of 12 octets or of a kind that is not  *)
(* known (64), or is half of a pointer (192 the first half): to the        *)
(* header, to the question's name, or far behind, where longer payloads    *)
(* have it in the message and shorter ones out of it.                      *)
EXTENDS DNSWire

MCLens     == {11, 12, 14, 16, 17, 28, 31, 32, 33, 300}
MCOctets   == [qname |-> {0, 12, 64, 192}, rname |-> {0, 12, 192}]
MCQDCounts == {<<0, 0>>, <<0, 1>>}
MCANCounts == {<<0, 0>>, <<0, 1>>, <<0, 2>>}
MCQTypes   == {<<0, 1>>}
MCRTypes   == {<<0, 1>>, <<0, 5>>, <<0, 28>>}
MCTTLs     == {<<0, 0, 0, 0>>, <<0, 1, 0, 0>>}
MCRDLengths == {<<0, 4>>, <<0, 16>>}
=============================================================================
