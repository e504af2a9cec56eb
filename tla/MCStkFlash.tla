---------------------------- MODULE MCStkFlash ----------------------------
(* An image of three bytes, two of one page and one of the next. *)
EXTENDS StkFlash
MCImages == {<<"a", "b", "c">>}
MCRates == <<115200, 57600>>
OneRate == <<115200>>
=============================================================================
