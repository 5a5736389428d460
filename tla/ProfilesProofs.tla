--------------------------- MODULE ProfilesProofs ---------------------------
(***************************************************************************)
(* What preflight lets through writes mutable assets only and has a drive  *)
(* of its own for every medium, for any profiles and inventories, whatever *)
(* the operator edits in between.                                          *)
(***************************************************************************)
EXTENDS Profiles, TLAPS

Mutable == "mutable-workstation-state"
MayBeWritten(a) == a \in Inventoried /\ Record(a).zone = Mutable
\* What ProfileSet gives and EditDisplay keeps
Lawful(p) == DOMAIN p.media \subseteq Nat /\ \A d, e \in p.disk : d = e

\* Where the configuration writes, the profile said so or the global floppy
\* switch did, and then preflight wants the inventory to call it mutable.
LEMMA WritableImagesAreMutable ==
  ASSUME NEW p, Launchable(p), NEW i \in Images(p), i.writable = "yes"
  PROVE  MayBeWritten(i.asset)
  BY DEF Launchable, ProfileValid, ZoneAllows, ZonesMatch, TrustZones, ReadOnlyZones, Mutable,
         MayBeWritten, Referenced, AssetReady

LEMMA FloppiesAreMutable ==
  ASSUME NEW p, Launchable(p), WriteThrough(p), NEW i \in p.disk \cup Floppies(p)
  PROVE  MayBeWritten(i.asset)
<1>1. i.writable = "yes"
  BY DEF Launchable, ProfileValid, FloppiesUniform, WriteThrough
<1>2. i \in Images(p)
  BY DEF Images, Floppies
<1>3. QED
  BY <1>1, <1>2, WritableImagesAreMutable

\* No drive is assigned twice, so the medium rendered last is the only one.
LEMMA InsertedIsTheMedium ==
  ASSUME NEW p, Launchable(p), Lawful(p), NEW j \in DOMAIN p.media
  PROVE  Inserted(p, <<p.media[j].type, p.media[j].drive>>) = p.media[j].asset
<1> DEFINE k == <<p.media[j].type, p.media[j].drive>>
           used == {i \in DOMAIN p.media : <<p.media[i].type, p.media[i].drive>> = k}
<1>1. \A i, h \in DOMAIN p.media : i # h =>
        <<p.media[i].type, p.media[i].drive>> # <<p.media[h].type, p.media[h].drive>>
  BY DEF Launchable, ProfileValid, DevicesDistinct
<1>2. used = {j}
  BY <1>1
<1>3. j <= j
  BY DEF Lawful
<1>4. (CHOOSE i \in used : \A h \in used : h <= i) = j
  BY <1>2, <1>3
<1>5. QED
  BY <1>2, <1>4 DEF Inserted

LEMMA InsertedIsTheDisk ==
  ASSUME NEW p, Launchable(p), NEW d \in p.disk, p.disk = {d}
  PROVE  Inserted(p, <<"floppy", 0>>) = d.asset
<1>1. {i \in DOMAIN p.media : <<p.media[i].type, p.media[i].drive>> = <<"floppy", 0>>} = {}
  BY DEF Launchable, ProfileValid, DevicesDistinct, Of
<1>2. (CHOOSE e \in p.disk : TRUE) = d
  OBVIOUS
<1>3. QED
  BY <1>1, <1>2 DEF Inserted

LEMMA SafeConfig ==
  ASSUME NEW p, Launchable(p), Lawful(p), NEW k \in Written(p)
  PROVE  MayBeWritten(Config(p)[k])
<1>1. CASE \E i \in DOMAIN p.mounts : k = <<"hard", i>>
  <2>1. PICK i \in DOMAIN p.mounts : k = <<"hard", i>>
    BY <1>1
  <2>2. Config(p)[k] = p.mounts[i].asset /\ p.mounts[i].writable = "yes"
    BY <2>1 DEF Config, Written
  <2>3. p.mounts[i] \in Images(p)
    BY DEF Images, Of
  <2>4. QED
    BY <2>2, <2>3, WritableImagesAreMutable
<1>2. CASE \E j \in DOMAIN p.media : k = <<p.media[j].type, p.media[j].drive>>
  <2>1. PICK j \in DOMAIN p.media : k = <<p.media[j].type, p.media[j].drive>>
    BY <1>2
  <2>2. k[1] = p.media[j].type /\ p.media[j].type \in {"floppy", "cd"}
    BY <2>1 DEF Launchable, ProfileValid, Of
  <2>3. k[1] = "floppy" /\ WriteThrough(p)
    BY <2>2 DEF Written
  <2>4. Config(p)[k] = p.media[j].asset
    BY <2>1, <2>3, InsertedIsTheMedium DEF Config, Written
  <2>5. p.media[j] \in Floppies(p)
    BY <2>2, <2>3 DEF Floppies, Of
  <2>6. QED
    BY <2>3, <2>4, <2>5, FloppiesAreMutable
<1>3. CASE k = <<"floppy", 0>> /\ p.disk # {}
  <2>1. PICK d \in p.disk : p.disk = {d}
    BY <1>3 DEF Lawful
  <2>2. Config(p)[k] = d.asset /\ WriteThrough(p)
    BY <1>3, <2>1, InsertedIsTheDisk DEF Config, Written
  <2>3. QED
    BY <2>1, <2>2, FloppiesAreMutable
<1>4. QED
  BY <1>1, <1>2, <1>3 DEF Written, Slots, Of

-----------------------------------------------------------------------------
Started == WritesOnlyMutable /\ Lawful(profile)

LEMMA InitHolds == Init => Started
  BY ProfilesAssumption DEF Init, Started, WritesOnlyMutable, NotLaunched, Lawful

LEMMA StepKeeps == Started /\ [Next]_vars => Started'
<1> SUFFICES ASSUME Started, [Next]_vars PROVE Started'
  OBVIOUS
<1> USE DEF Started
<1>1. CASE UNCHANGED launched /\ UNCHANGED profile
  BY <1>1 DEF WritesOnlyMutable, Lawful
<1>2. CASE EditDisplay
  <2>1. UNCHANGED launched
    BY <1>2 DEF EditDisplay
  <2>2. profile'.media = profile.media /\ profile'.disk = profile.disk
    BY <1>2 DEF EditDisplay
  <2>3. QED
    BY <2>1, <2>2 DEF WritesOnlyMutable, Lawful
<1>3. ASSUME NEW host, Launch(host) PROVE Started'
  <2>1. UNCHANGED profile /\ Launchable(profile)
    BY <1>3 DEF Launch
  <2>2. launched'.slots = Config(profile) /\ launched'.written = Written(profile)
    BY <1>3 DEF Launch
  <2>3. launched'.zones = [a \in Inventoried |-> Record(a).zone]
    BY <1>3 DEF Launch
  <2>4. ASSUME NEW k \in Written(profile)
        PROVE  launched'.zones[Config(profile)[k]] = Mutable
    <3>1. MayBeWritten(Config(profile)[k])
      BY <2>1, <2>4, SafeConfig
    <3>2. QED
      BY <2>3, <3>1 DEF MayBeWritten
  <2>5. WritesOnlyMutable'
    BY <2>2, <2>4 DEF WritesOnlyMutable, Mutable
  <2>6. QED
    BY <2>1, <2>5 DEF Lawful
<1>4. QED
  BY <1>1, <1>2, <1>3 DEF Next, ApplianceRun, Reclassify, Replace, Enable, Disable, vars

\* Whatever was edited before the last preflight, the emulator that was
\* started may write mutable assets only (profiles.py:333-395, :405-433).
THEOREM LaunchesAreSafe == Spec => []WritesOnlyMutable
<1>1. Started => WritesOnlyMutable
  BY DEF Started
<1>2. QED
  BY <1>1, InitHolds, StepKeeps, PTL DEF Spec

-----------------------------------------------------------------------------
\* What a configuration has at a slot, and whether the emulator may write it
Renders(p, k, image) ==
  /\ k \in Slots(p) /\ Config(p)[k] = image.asset
  /\ k \in Written(p) <=> image.writable = "yes"

\* All floppies are writable or none is.
LEMMA OneSwitch ==
  ASSUME NEW p, Launchable(p), NEW i \in p.disk \cup Floppies(p)
  PROVE  WriteThrough(p) <=> i.writable = "yes"
BY DEF Launchable, ProfileValid, FloppiesUniform, WriteThrough

\* A configuration that preflight let through holds the whole profile.
LEMMA ConfigIsWhole ==
  ASSUME NEW p, Launchable(p), Lawful(p)
  PROVE  /\ \A d \in p.disk : Renders(p, <<"floppy", 0>>, d)
         /\ \A m \in Of(p.media) : Renders(p, <<m.type, m.drive>>, m)
         /\ \A i \in DOMAIN p.mounts : Renders(p, <<"hard", i>>, p.mounts[i])
<1>1. ASSUME NEW d \in p.disk PROVE Renders(p, <<"floppy", 0>>, d)
  <2>1. p.disk = {d}
    BY DEF Lawful
  <2>2. <<"floppy", 0>> \in Slots(p) /\ Config(p)[<<"floppy", 0>>] = d.asset
    BY <2>1, InsertedIsTheDisk DEF Config, Slots
  <2>3. <<"floppy", 0>> \in Written(p) <=> WriteThrough(p)
    BY <2>2 DEF Written
  <2>4. QED
    BY <2>2, <2>3, OneSwitch DEF Renders
<1>2. ASSUME NEW j \in DOMAIN p.media
      PROVE  Renders(p, <<p.media[j].type, p.media[j].drive>>, p.media[j])
  <2> DEFINE m == p.media[j]
             k == <<m.type, m.drive>>
  <2>1. m.type \in {"floppy", "cd"} /\ (m.type = "cd" => m.writable # "yes")
    BY DEF Launchable, ProfileValid, Of
  <2>2. k \in Slots(p) /\ k[1] = m.type
    BY DEF Slots, Of
  <2>3. Config(p)[k] = m.asset
    BY <2>1, <2>2, InsertedIsTheMedium DEF Config
  <2>4. k \in Written(p) <=> m.type = "floppy" /\ WriteThrough(p)
    BY <2>1, <2>2 DEF Written
  <2>5. m.type = "floppy" => (WriteThrough(p) <=> m.writable = "yes")
    BY OneSwitch DEF Floppies, Of
  <2>6. QED
    BY <2>1, <2>2, <2>3, <2>4, <2>5 DEF Renders
<1>3. ASSUME NEW i \in DOMAIN p.mounts PROVE Renders(p, <<"hard", i>>, p.mounts[i])
  <2>1. <<"hard", i>> \in Slots(p)
    BY DEF Slots
  <2>2. QED
    BY <2>1 DEF Renders, Config, Written
<1>4. QED
  BY <1>1, <1>2, <1>3 DEF Of

Complete == Lawful(profile) /\ NothingIsReplaced

LEMMA InitIsComplete == Init => Complete
  BY ProfilesAssumption DEF Init, Complete, NothingIsReplaced, Lawful

LEMMA StepKeepsComplete == Complete /\ [Next]_vars => Complete'
<1> SUFFICES ASSUME Complete, [Next]_vars PROVE Complete'
  OBVIOUS
<1>1. CASE /\ UNCHANGED launched /\ profile'.media = profile.media
           /\ profile'.disk = profile.disk /\ profile'.mounts = profile.mounts
  BY <1>1 DEF Complete, NothingIsReplaced, Holds, Lawful, Of
<1>2. ASSUME EditDisplay
      PROVE  /\ UNCHANGED launched /\ profile'.media = profile.media
             /\ profile'.disk = profile.disk /\ profile'.mounts = profile.mounts
  BY <1>2 DEF EditDisplay
<1>3. ASSUME NEW host, Launch(host) PROVE Complete'
  <2>1. /\ UNCHANGED profile /\ Launchable(profile) /\ Lawful(profile)
        /\ launched'.slots = Config(profile) /\ launched'.written = Written(profile)
    BY <1>3 DEF Launch, Complete
  <2>2. DOMAIN Config(profile) = Slots(profile)
    BY DEF Config
  <2>3. ASSUME NEW k, NEW image, Renders(profile, k, image) PROVE Holds(k, image)'
    BY <2>1, <2>2, <2>3 DEF Renders, Holds
  <2>4. NothingIsReplaced'
    BY <2>1, <2>3, ConfigIsWhole DEF NothingIsReplaced
  <2>5. QED
    BY <2>1, <2>4 DEF Complete, Lawful
<1>4. QED
  BY <1>1, <1>2, <1>3 DEF Next, ApplianceRun, Reclassify, Replace, Enable, Disable, vars

\* The validators leave no drive to two images, so whatever the emulator was
\* started with is all of the profile (profiles.py:207-272, :405-433).
THEOREM LaunchesAreComplete == Spec => []NothingIsReplaced
<1>1. Complete => NothingIsReplaced
  BY DEF Complete
<1>2. QED
  BY <1>1, InitIsComplete, StepKeepsComplete, PTL DEF Spec

\* A host whose automated checks pass has a profile that preflight lets
\* through and that writes mutable assets only: the check of the zones looks
\* at mounts and the system disk, preflight at the media as well
\* (appliance.py:65-97, qualification.py:216-287).
THEOREM QualifiedHostsAreSafe == Spec => []QualifiedIsSafe
<1>1. Lawful(profile) => QualifiedIsSafe
  <2> SUFFICES ASSUME Lawful(profile), NEW host \in Observations, AutomatedReady(host)
               PROVE  /\ Launchable(profile)
                      /\ \A k \in Written(profile) : Record(Config(profile)[k]).zone = Mutable
    BY DEF QualifiedIsSafe, Mutable
  <2>1. Checks(host).preflight # "FAIL"
    <3>1. "preflight" \in DOMAIN Checks(host)
      BY DEF Checks
    <3>2. QED
      BY <3>1 DEF AutomatedReady
  <2>2. Checks(host).preflight = Verdict("config" \in host /\ ApplianceReady(host))
    BY DEF Checks
  <2>3. ApplianceReady(host)
    BY <2>1, <2>2 DEF Verdict
  <2>4. Launchable(profile)
    BY <2>3 DEF ApplianceReady
  <2>5. QED
    BY <2>4, SafeConfig DEF MayBeWritten
<1>2. Complete => QualifiedIsSafe
  BY <1>1 DEF Complete
<1>3. QED
  BY <1>2, InitIsComplete, StepKeepsComplete, PTL DEF Spec
=============================================================================
