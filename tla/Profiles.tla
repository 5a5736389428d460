------------------------------ MODULE Profiles ------------------------------
(***************************************************************************)
(* Emulator profiles, the asset inventory and the boot appliance           *)
(* (scripts/emulation/profiles.py, appliance.py, qualification.py): what   *)
(* preflight accepts, what the emulator's configuration then makes         *)
(* writable, and what the qualification report concludes.                  *)
(*                                                                         *)
(* Preflight collects issues and allows a launch when there are none, so   *)
(* it is a conjunction here, one conjunct per kind of issue.  Fields that  *)
(* are only checked against a list of values are one flag, `wellFormed` or *)
(* `sound`; identifiers are unequal values.                                *)
(***************************************************************************)
EXTENDS Naturals, FiniteSets

CONSTANTS
  Paths,         \* file system paths the inventory may name
  ProfileSet,    \* profiles under consideration
  InventorySet,  \* inventories to start from
  FilesSet,      \* file systems to start from
  Reclassified,  \* pairs of an asset and a zone the operator may give it
  Observations   \* what the host may be observed to have

ASSUME ProfilesAssumption ==
  \A p \in ProfileSet : DOMAIN p.media \subseteq Nat /\ \A d, e \in p.disk : d = e

VARIABLES
  profile,    \* the canonical profile document
  inventory,  \* the operator's asset inventory
  files,      \* what each path holds
  enabled,    \* the appliance configuration's intent
  launched    \* configuration the emulator was last started with

vars == <<profile, inventory, files, enabled, launched>>

ReadOnlyZones == {"preservation-original", "canonical-derived", "amiga-library-export"}
TrustZones == ReadOnlyZones \cup {"mutable-workstation-state"}
Kinds == {"kickstart", "system-disk", "floppy", "cd", "directory", "hdf"}

\* "altered": a file whose SHA-256 is not the declared one
Contents == {"missing", "file", "altered", "directory"}

NotLaunched == [slots |-> [k \in {} |-> {}], written |-> {}, zones |-> [a \in {} |-> "none"]]

-----------------------------------------------------------------------------
(* load_profile.  `disk` holds the system disk, if there is one; media and  *)
(* mounts are functions on 1 .. n.  `writable` is "yes", "no" or "unset".   *)

Of(f) == {f[i] : i \in DOMAIN f}
Images(p) == p.disk \cup Of(p.media) \cup Of(p.mounts)
Floppies(p) == {m \in Of(p.media) : m.type = "floppy"}

Chipsets(machine) ==
  CASE machine = "A500" -> {"OCS", "ECS"}
    [] machine \in {"A600", "A3000"} -> {"ECS"}
    [] machine \in {"A1200", "A4000"} -> {"AGA"}
    [] OTHER -> {}

\* _validate_zone: permissions are never downgraded
ZoneAllows(i) ==
  /\ i.zone \in TrustZones
  /\ i.writable \in {"yes", "no"}
  /\ i.writable = "yes" => i.zone \notin ReadOnlyZones

\* mutant: the system disk's drive may hold another floppy
MediaDistinct(p) ==
  /\ \A i, j \in DOMAIN p.media :
       i # j => <<p.media[i].type, p.media[i].drive>> # <<p.media[j].type, p.media[j].drive>>
  /\ \A i, j \in DOMAIN p.mounts :
       i # j => /\ p.mounts[i].device # p.mounts[j].device
                /\ p.mounts[i].volume = p.mounts[j].volume => p.mounts[i].volume = "none"

DevicesDistinct(p) ==
  /\ \A i, j \in DOMAIN p.media :
       i # j => <<p.media[i].type, p.media[i].drive>> # <<p.media[j].type, p.media[j].drive>>
  /\ p.disk # {} => \A m \in Of(p.media) : <<m.type, m.drive>> # <<"floppy", 0>>
  /\ \A i, j \in DOMAIN p.mounts :
       i # j => /\ p.mounts[i].device # p.mounts[j].device
                /\ p.mounts[i].volume = p.mounts[j].volume => p.mounts[i].volume = "none"

\* mutant: mixed floppy permissions are let through
AnyPermissions(p) == TRUE

\* FS-UAE has one write-through switch for all floppy images.
FloppiesUniform(p) ==
  \A i, j \in p.disk \cup Floppies(p) : i.writable = j.writable

ProfileValid(p) ==
  /\ p.wellFormed
  /\ p.chipset \in Chipsets(p.machine)
  /\ p.fullscreen <=> p.mode = "fullscreen"
  /\ \A m \in Of(p.media) : m.type \in {"floppy", "cd"} /\ m.drive \in 0 .. 3
  /\ \A i \in Images(p) : ZoneAllows(i)
  /\ DevicesDistinct(p)
  /\ FloppiesUniform(p)
  /\ \A m \in Of(p.media) : m.type = "cd" => m.writable # "yes"

-----------------------------------------------------------------------------
(* load_inventory and preflight *)

Inventoried == DOMAIN inventory.assets
Record(a) == inventory.assets[a]

InventoryValid ==
  /\ inventory.sound
  /\ \A a \in Inventoried :
       /\ Record(a).kind \in Kinds
       /\ Record(a).kind # "kickstart" => Record(a).zone \in TrustZones

Referenced(p) == {p.kickstart} \cup {i.asset : i \in Images(p)}

AssetReady(a) ==
  /\ a \in Inventoried
  /\ IF Record(a).kind = "directory" THEN files[Record(a).path] = "directory"
                                     ELSE files[Record(a).path] \in {"file", "altered"}
  /\ Record(a).digest => files[Record(a).path] = "file"

KindsMatch(p) ==
  /\ Record(p.kickstart).kind = "kickstart"
  /\ \A d \in p.disk \cup Floppies(p) : Record(d.asset).kind \in {"system-disk", "floppy"}
  /\ \A m \in Of(p.media) \ Floppies(p) : Record(m.asset).kind = "cd"
  /\ \A m \in Of(p.mounts) : Record(m.asset).kind \in {"directory", "hdf"}

ZonesMatch(p) == \A i \in Images(p) : Record(i.asset).zone = i.zone

Launchable(p) ==
  /\ ProfileValid(p)
  /\ InventoryValid
  /\ \A a \in Referenced(p) : AssetReady(a)
  /\ KindsMatch(p)
  /\ ZonesMatch(p)

-----------------------------------------------------------------------------
(* render_fs_uae: a configuration has one entry per drive, and a later      *)
(* assignment to a drive replaces an earlier one                            *)

WriteThrough(p) == \E i \in p.disk \cup Floppies(p) : i.writable = "yes"

Slots(p) ==
  {<<"floppy", 0>> : d \in p.disk} \cup {<<m.type, m.drive>> : m \in Of(p.media)}
  \cup {<<"hard", i>> : i \in DOMAIN p.mounts}

Inserted(p, k) ==
  LET used == {i \in DOMAIN p.media : <<p.media[i].type, p.media[i].drive>> = k} IN
  IF used # {} THEN p.media[CHOOSE i \in used : \A j \in used : j <= i].asset
               ELSE (CHOOSE d \in p.disk : TRUE).asset

Config(p) ==
  [k \in Slots(p) |-> IF k[1] = "hard" THEN p.mounts[k[2]].asset ELSE Inserted(p, k)]

\* what the emulator may write to
Written(p) ==
  {k \in Slots(p) :
     \/ k[1] = "hard" /\ p.mounts[k[2]].writable = "yes"
     \/ k[1] = "floppy" /\ WriteThrough(p)}

-----------------------------------------------------------------------------
(* appliance_check and qualification_report.  An observation is the set of  *)
(* facts the host shows.                                                    *)

ApplianceReady(host) ==
  /\ Launchable(profile)
  /\ inventory.absolute
  /\ profile.mode = "fullscreen" /\ profile.fullscreen
  /\ "fs-uae" \in host

\* Only what the preflight report lists: filesystem mounts and system disk.
PreservationSafe ==
  \A i \in profile.disk \cup Of(profile.mounts) :
    i.writable = "yes" => i.zone = "mutable-workstation-state"

Verdict(pass) == IF pass THEN "PASS" ELSE "FAIL"
Optional(present) == IF present THEN "PASS" ELSE "SKIP"

\* mutant: readiness is reported and does not fail the check
LenientChecks(host) ==
  [fs_uae |-> Verdict("fs-uae" \in host), zones |-> Verdict(PreservationSafe)]

Checks(host) ==
  [config       |-> Verdict("config" \in host),
   preflight    |-> Verdict("config" \in host /\ ApplianceReady(host)),
   fs_uae       |-> Verdict("fs-uae" \in host),
   version      |-> Verdict({"fs-uae", "version"} \subseteq host),
   x11          |-> Verdict("x11" \in host),
   display      |-> Optional("display" \in host),
   audio        |-> Verdict("audio" \in host),
   audio_access |-> Verdict("audio-nodes" \in host => "audio-readable" \in host),
   keyboard     |-> Verdict("keyboard" \in host),
   mouse        |-> Verdict("mouse" \in host),
   controller   |-> Optional("controller" \in host),
   discovery    |-> IF "controller" \notin host THEN "SKIP"
                    ELSE Verdict({"fs-uae", "listed"} \subseteq host),
   input_access |-> Verdict("input-nodes" \in host => "input-readable" \in host),
   user         |-> Verdict("user" \in host),
   runtime      |-> Verdict({"user", "runtime"} \subseteq host),
   zones        |-> Verdict("config" \in host /\ PreservationSafe),
   tty          |-> Verdict("tty" \in host)]

AutomatedReady(host) == \A c \in DOMAIN Checks(host) : Checks(host)[c] # "FAIL"

-----------------------------------------------------------------------------
(* The operator edits documents and files, and runs the commands *)

Init ==
  /\ profile \in ProfileSet
  /\ inventory \in InventorySet
  /\ files \in FilesSet
  /\ enabled = FALSE
  /\ launched = NotLaunched

EditDisplay ==
  /\ profile' = [profile EXCEPT !.fullscreen = ~@, !.mode = IF @ = "windowed" THEN "fullscreen" ELSE "windowed"]
  /\ UNCHANGED <<inventory, files, enabled, launched>>

Reclassify(a, zone) ==
  /\ a \in Inventoried
  /\ inventory' = [inventory EXCEPT !.assets[a].zone = zone]
  /\ UNCHANGED <<profile, files, enabled, launched>>

Replace(path, content) ==
  /\ files' = [files EXCEPT ![path] = content]
  /\ UNCHANGED <<profile, inventory, enabled, launched>>

Enable(host) ==
  /\ ApplianceReady(host)
  /\ enabled' = TRUE
  /\ UNCHANGED <<profile, inventory, files, launched>>

Disable ==
  /\ enabled' = FALSE
  /\ UNCHANGED <<profile, inventory, files, launched>>

\* command_launch: preflight, then the executable, then the session
Launch(host) ==
  /\ Launchable(profile)
  /\ "fs-uae" \in host
  /\ launched' = [slots |-> Config(profile), written |-> Written(profile),
                  zones |-> [a \in Inventoried |-> Record(a).zone]]
  /\ UNCHANGED <<profile, inventory, files, enabled>>

ApplianceRun(host) == enabled /\ Launch(host)

Next ==
  \/ EditDisplay
  \/ \E edit \in Reclassified : Reclassify(edit[1], edit[2])
  \/ \E path \in Paths, content \in Contents : Replace(path, content)
  \/ \E host \in Observations : Enable(host) \/ Launch(host) \/ ApplianceRun(host)
  \/ Disable

Spec == Init /\ [][Next]_vars

-----------------------------------------------------------------------------
(* Properties *)

\* Whatever the operator edits between commands, an emulator that was
\* started may write only assets the inventory called mutable at that time,
\* the global floppy switch and every drive of the configuration included.
WritesOnlyMutable ==
  \A k \in launched.written :
    launched.zones[launched.slots[k]] = "mutable-workstation-state"

\* The slot of the configuration holds the image, writable as the profile says.
Holds(k, image) ==
  /\ k \in DOMAIN launched.slots /\ launched.slots[k] = image.asset
  /\ k \in launched.written <=> image.writable = "yes"

\* Every disk, medium and mount of the profile is in the configuration, each
\* with the permission it was given: no drive is assigned twice, and the one
\* write switch of all floppies gives none a permission it lacks.
NothingIsReplaced ==
  launched # NotLaunched =>
    /\ \A d \in profile.disk : Holds(<<"floppy", 0>>, d)
    /\ \A m \in Of(profile.media) : Holds(<<m.type, m.drive>>, m)
    /\ \A i \in DOMAIN profile.mounts : Holds(<<"hard", i>>, profile.mounts[i])

\* A host that passes every automated check would run a profile that writes
\* mutable assets only, the media the check of the zones does not see included.
QualifiedIsSafe ==
  \A host \in Observations :
    AutomatedReady(host) =>
      /\ Launchable(profile)
      /\ \A k \in Written(profile) :
           Record(Config(profile)[k]).zone = "mutable-workstation-state"

\* docs/emulator-profiles.md: preservation originals cannot become writable
\* runtime storage, under whatever asset id their path is mounted.
OriginalsStayReadOnly ==
  \A k \in launched.written, a \in Inventoried :
    launched.zones[a] = "preservation-original"
      => Record(a).path # Record(launched.slots[k]).path
=============================================================================
