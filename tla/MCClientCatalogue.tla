-------------------------- MODULE MCClientCatalogue --------------------------
EXTENDS ClientCatalogue, TLC
CONSTANTS ann, bob, phone, laptop, desk

MCOwner == [d \in Devices |-> IF d = desk THEN bob ELSE ann]
MCPrimary == [c \in Clients |-> IF c = bob THEN desk ELSE phone]

\* Requests, workers, and one client with its device for the other.
Other == (ann :> bob) @@ (bob :> ann) @@ (phone :> desk) @@ (desk :> phone)
Same == [x \in {ann, bob, phone, desk} |-> x]
Interchangeable ==
  {f @@ g @@ h : f \in Permutations(Requests), g \in Permutations(Workers), h \in {Same, Other}}

OnlyXray == {{"xray"}}
AllOrXray == {Engines \ {"sgclient"}, {"xray"}}
=============================================================================
