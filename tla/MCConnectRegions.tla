--------------------------- MODULE MCConnectRegions ---------------------------
(* ConnectRegions on a wide image, like the camera's, on a square one, and   *)
(* on one that is too wide for a label_array of five by five.                *)
EXTENDS ConnectRegions

SmallImages == {<<5, 3>>, <<3, 3>>, <<6, 2>>}
=============================================================================
