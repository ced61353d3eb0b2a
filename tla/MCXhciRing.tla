----------------------------- MODULE MCXhciRing -----------------------------
(* Rings of three TRBs and a link, an event ring of four: the three transfers *)
(* of a behaviour go round both.  Checked with one bulk endpoint.             *)
EXTENDS XhciRing

MCBulk == {"bulk"}
=============================================================================
