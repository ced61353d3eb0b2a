---------------------------- MODULE MCFatBoot ----------------------------
(* Two root ports and a hub with three: enough for a hub behind an empty    *)
(* port, for two disks before the one that boots, and for ports whose       *)
(* numbers share a bit.                                                     *)
EXTENDS FatBoot

Isp(s) == [name |-> "ISPBOOOT", size |-> s]
Uboot == [name |-> "U-BOOT", size |-> 1]
Other == [name |-> "other", size |-> 1]

Thing(k, fs, part, dir) ==
    [kind |-> k, in |-> 1, out |-> 2, fs |-> fs, part |-> part, dir |-> dir]
Empty == Thing("none", "none", 0, <<>>)
Slow == Thing("slow", "none", 0, <<>>)
Hub == Thing("hub", "none", 0, <<>>)
BootDisk == [Thing("disk", "FAT_32", 0, <<Other, Isp(1)>>) EXCEPT !.in = 2, !.out = 1]
DataDisk == Thing("disk", "FAT_32", 2, <<Isp(0), Other>>)
RawDisk == [Thing("disk", "none", 0, <<>>) EXCEPT !.in = 3, !.out = 3]
Fat16Disk == Thing("disk", "FAT_16", 1, <<Isp(1)>>)

RootThings == {Empty, Hub, BootDisk, DataDisk}
HubThings == {Empty, Slow, Hub, BootDisk, DataDisk, RawDisk, Fat16Disk}
Cards == {Thing("card", f, p, d) : f \in {"FAT_32", "FAT_16"}, p \in {0, 1},
            d \in {<<>>, <<Isp(1)>>, <<Uboot>>, <<Uboot, Isp(1)>>, <<Isp(0), Other>>,
                   <<Isp(0), Other, Uboot>>}}
MCFiles == {"ISPBOOOT", "U-BOOT"}

(* Every card, and every tree of devices: the hub's ports matter where      *)
(* there is a hub.                                                          *)
World(t, c, r, h0) == [type |-> t, card |-> c, root |-> r, hub |-> h0]
NoRoot == [x \in 1 .. 2 |-> Empty]
NoHub == [x \in 1 .. 3 |-> Empty]
MCWorlds ==
    {World("SDCARD_ISP", c, NoRoot, NoHub) : c \in Cards}
        \cup {World("USB_ISP", Empty, r, NoHub) : r \in [1 .. 2 -> RootThings]}
        \cup {World("USB_ISP", Empty, r, h0) :
                 r \in {x \in [1 .. 2 -> RootThings] : \E p \in 1 .. 2 : x[p] = Hub},
                 h0 \in [1 .. 3 -> HubThings]}
=============================================================================
