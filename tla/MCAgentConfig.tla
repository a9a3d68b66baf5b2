---------------------------- MODULE MCAgentConfig ----------------------------
(* A catalog with two models that share some endpoints only, a row with    *)
(* two entries behind it and an entry without a row; its state later on,   *)
(* and one that cannot be read.                                            *)
EXTENDS AgentConfig

Offer(protocol, url) == [protocol |-> protocol, url |-> url]
Entry(id, of, alias, offers, status) ==
  [id |-> id, of |-> of, alias |-> alias, aliases |-> {"x"}, offers |-> offers, status |-> status]

One(status) ==
  Entry("m1", "r1", "one",
        <<Offer("chat", "u1"), Offer("responses", "u1"), Offer("messages", "u1")>>, status)
Two(status) ==
  Entry("m2", "r2", "two",
        <<Offer("messages", "u1"), Offer("chat", "u2"), Offer("responses", "u1")>>, status)
Three(id) ==
  Entry(id, "r3", "three", <<Offer("messages", "u1"), Offer("responses", "u1")>>, "available")
Orphan ==
  Entry("m5", "r9", "five", <<Offer("messages", "u2"), Offer("chat", "u2")>>, "degraded")

MCCatalogs ==
  [now |-> [rows |-> <<"r1", "r2", "r3">>,
            entries |-> <<One("available"), Two("degraded"), Three("m3"), Three("m4"), Orphan>>],
   later |-> [rows |-> <<"r1", "r2", "r3">>,
              entries |-> <<One("unavailable"), Two("available"), Three("m3")>>],
   torn |-> [rows |-> <<"r1">>, entries |-> <<Entry("m1", "r1", "one", <<>>, "available")>>]]

MCSelections == {<<"one">>, <<"m2">>, <<"m1", "two">>, <<"m5", "m2">>, <<"x">>, <<"m3">>}

(* Version 2 is in every range, the prerelease of version 1 is in none, 0  *)
(* is a version nobody could read.                                         *)
Version(n, pre) == [n |-> n, pre |-> pre]
Machine(windows, path, versions, var, dotenv) ==
  [windows |-> windows, path |-> path, var |-> var, dotenv |-> dotenv,
   versions |-> versions @@ [k \in {"native", "foreign", "exe", "npm", "shim"} |-> Version(2, FALSE)]]
MCWorlds ==
  {Machine(FALSE, <<"foreign", "native">>, <<>>, TRUE, TRUE),
   Machine(FALSE, <<"native">>, [native |-> Version(1, TRUE)], FALSE, FALSE),
   Machine(FALSE, <<"foreign">>, <<>>, FALSE, FALSE),
   Machine(FALSE, <<>>, <<>>, TRUE, FALSE),
   Machine(TRUE, <<"shim", "npm", "exe">>,
           [shim |-> Version(0, FALSE), npm |-> Version(1, TRUE)], TRUE, FALSE),
   Machine(TRUE, <<"shim", "npm">>, <<>>, FALSE, FALSE)}
==============================================================================
