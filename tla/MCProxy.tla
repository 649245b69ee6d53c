-------------------------------- MODULE MCProxy --------------------------------
(* An instance of Proxy: two clients at a time with payloads injected, two *)
(* clients one after the other, and one with more data.                    *)
EXTENDS Proxy

Load(clients, atOnce, chunks, injects) ==
  [clients |-> clients, atOnce |-> atOnce, chunks |-> chunks, injects |-> injects]

MCLoads ==
  {Load({1, 2}, 2, 0, 2), Load({1, 2}, 1, 1, 1), Load({1}, 1, 2, 2)}

MCCrowd == {Load({1, 2}, 2, 1, 0)}
=============================================================================
