------------------------------ MODULE MCRoutes ------------------------------
(***************************************************************************)
(* Three days of up to five stops over three places, two threads, chunks   *)
(* of three points: days of no, one, one full and two chunks, a stop       *)
(* without coordinates, and a stay at one place across the end of a chunk. *)
(***************************************************************************)
EXTENDS Routes

CONSTANTS d1, d2, d3, a, b, c

MCDays == {d1, d2, d3}
MCPlaces == {a, b, c}
MCStops == {<<a>>, <<a, None, b>>, <<a, b, c, c, a>>}
MCItineraries == {i \in [MCDays -> MCStops] : i[d1] = <<a, b, c, c, a>>}
MCJourneys == {<<a, b>>, <<a, b, b, c, a>>, <<a, b, c, a, b, c>>}
=============================================================================
