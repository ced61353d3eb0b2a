----------------------------- MODULE MCBringup -----------------------------
(* Requests that overlap at fuse 6, a bit pattern that is also the mark of  *)
(* a package, and a read; images with at most one fault; a hub, disks whose *)
(* endpoints come in either order and size, one with a second setting, one  *)
(* that lists an interrupt endpoint before its bulk ones, and a device with *)
(* a second interface.                                                      *)
EXTENDS Bringup, Sequences, FiniteSets

WriteFuses == 3
ReadFuses == 2
MCRequests == {[command |-> WriteFuses, start |-> 5, bytes |-> <<33>>],
               [command |-> WriteFuses, start |-> 6, bytes |-> <<255, 16>>],
               [command |-> ReadFuses, start |-> 5, bytes |-> <<0, 0>>]}

MCFaults == {{}} \cup {{f} : f \in
    {"no info", "unsigned", "altered", "foreign key", "foreign device", "session", "cut"}}

Interface(n, s, e) == [kind |-> "interface", number |-> n, setting |-> s, endpoints |-> e]
Ep(n, d, t, z, v) == [kind |-> "endpoint", number |-> n, dir |-> d, type |-> t, size |-> z, every |-> v]
Companion(b) == [kind |-> "companion", burst |-> b]
OtherKind == [kind |-> "other"]
Usb(s, h, l) ==
    [speed |-> s, hub |-> h, list |-> l,
     interfaces |-> Cardinality({l[k].number : k \in {j \in DOMAIN l : l[j].kind = "interface"}})]

MCDevices == {
    Usb("high", TRUE, <<Interface(0, 0, 1), Ep(1, "in", "interrupt", 1, 12)>>),
    Usb("high", FALSE, <<Interface(0, 0, 2), Ep(1, "in", "bulk", 512, 0), Ep(2, "out", "bulk", 512, 1)>>),
    Usb("high", FALSE, <<Interface(0, 0, 2), OtherKind, Ep(1, "out", "bulk", 64, 255), Ep(1, "in", "bulk", 512, 0)>>),
    Usb("high", FALSE,
        <<Interface(0, 0, 3), Ep(3, "in", "interrupt", 8, 4), Ep(1, "in", "bulk", 512, 0), Ep(2, "out", "bulk", 512, 1)>>),
    Usb("super", FALSE,
        <<Interface(0, 0, 2), Ep(1, "in", "bulk", 1024, 0), Companion(15), Ep(2, "out", "bulk", 1024, 0), Companion(3),
          Interface(0, 1, 4), Ep(1, "in", "bulk", 1024, 0), Companion(15), Ep(2, "out", "bulk", 1024, 0), Companion(3),
          OtherKind, Ep(3, "in", "bulk", 1024, 0)>>),
    Usb("high", FALSE,
        <<Interface(0, 0, 2), Ep(1, "in", "bulk", 512, 0), Ep(2, "out", "bulk", 512, 1),
          Interface(1, 0, 1), Ep(3, "in", "interrupt", 8, 4)>>)}
=============================================================================
