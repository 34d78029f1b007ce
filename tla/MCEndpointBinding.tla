-------------------------- MODULE MCEndpointBinding --------------------------
(* A small instance of EndpointBinding.                                    *)
EXTENDS EndpointBinding

CONSTANTS speaker

(* Two slots of one endpoint, so that they share a key.                    *)
MCSlots == [kind : {"Render"}, endpoint : {speaker}, category : {"Mfx", "Efx"}]

(* Two CLSIDs no two of whose bytes stand in for each other.               *)
MCClassId ==
  <<[data1 |-> 6, data2 |-> 1, data3 |-> 2, data4 |-> <<0, 1, 1, 0, 1, 0, 0, 0>>],
    [data1 |-> 9, data2 |-> 2, data3 |-> 1, data4 |-> <<1, 0, 0, 1, 0, 1, 1, 1>>]>>
=============================================================================
