----------------------------- MODULE MCProfiles -----------------------------
(* Small profiles and inventories for TLC: up to two media and one mount, or *)
(* one medium and two mounts. *)
EXTENDS Profiles

Original == "preservation-original"
Mutable == "mutable-workstation-state"
Uses == {<<Mutable, "yes">>, <<Mutable, "no">>, <<Original, "yes">>, <<Original, "no">>}

Disks == {[asset |-> "disk", zone |-> Mutable, writable |-> w] : w \in {"yes", "no"}}
Media ==
  {[type |-> "floppy", drive |-> d, asset |-> "floppy", zone |-> u[1], writable |-> u[2]] : d \in {0, 1}, u \in Uses}
  \cup {[type |-> "floppy", drive |-> d, asset |-> "second", zone |-> Mutable, writable |-> w] :
         d \in {0, 1}, w \in {"yes", "no"}}
  \cup {[type |-> "cd", drive |-> 0, asset |-> "cd", zone |-> Mutable, writable |-> w] : w \in {"yes", "no"}}
Mounts ==
  {[device |-> "dh0", volume |-> "none", asset |-> "dir", zone |-> u[1], writable |-> u[2]] :
     u \in Uses \cup {<<"unknown", "yes">>, <<Mutable, "unset">>}}
Others ==
  {[device |-> d, volume |-> "none", asset |-> "drawer", zone |-> Mutable, writable |-> w] :
     d \in {"dh0", "dh1"}, w \in {"yes", "no"}}
Pairs == {<<m, o>> : m \in Mounts, o \in Others} \cup {<<o, m>> : m \in Mounts, o \in Others}
Lists(S, n) == UNION {[1 .. k -> S] : k \in 0 .. n}

Machines(media, mounts) ==
  [wellFormed : {TRUE}, machine : {"A1200"}, chipset : {"AGA"}, fullscreen : {TRUE}, mode : {"fullscreen"},
   kickstart : {"rom"}, disk : {{}} \cup {{d} : d \in Disks}, media : media, mounts : mounts]
MCProfileSet == Machines(Lists(Media, 2), Lists(Mounts, 1)) \cup Machines(Lists(Media, 1), Pairs)

KindOf == [rom |-> "kickstart", disk |-> "system-disk", floppy |-> "floppy", second |-> "floppy",
           cd |-> "cd", dir |-> "directory", drawer |-> "directory"]
MCInventorySet ==
  {[sound |-> TRUE, absolute |-> TRUE,
    assets |-> [a \in DOMAIN KindOf |->
                  [kind |-> KindOf[a], path |-> IF a \in {"dir", "drawer"} THEN "tree" ELSE "image", digest |-> a = "rom",
                   zone |-> Mutable]]]}
MCFilesSet == {[image |-> "file", tree |-> "directory"]}
MCReclassified == ({"floppy"} \X {Original, Mutable}) \cup ({"dir"} \X {Mutable, "unknown"})
MCObservations ==
  {{"config", "fs-uae", "version", "x11", "audio", "keyboard", "mouse", "user", "runtime", "tty"}, {"fs-uae"}}
=============================================================================
