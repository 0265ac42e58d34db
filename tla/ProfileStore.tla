---------------------------- MODULE ProfileStore ----------------------------
(***************************************************************************)
(* The raid-frame profiles the 3.3.5 realm cannot keep: saveCUFProfiles and *)
(* loadCUFProfiles, one file for the characters of an account on a realm.   *)
(* cufMu lets one save or load at a time near the file; the proxy may stop  *)
(* between any two steps of a save, with the machine or without it.         *)
(***************************************************************************)
EXTENDS Naturals

CONSTANTS
    MaxSaves,    \* bound: profiles the clients save
    MaxCrashes   \* bound: how often the proxy stops

Constants == MaxSaves \in Nat \ {0} /\ MaxCrashes \in Nat

VARIABLES
    step,     \* what the save that holds cufMu did last
    saving,   \* its profile; profiles are numbered in the order of the saves
    temp,     \* its temporary file
    file,     \* cuf.bin as the running system sees it
    disk,     \* what cuf.bin may hold once the machine has lost its memory
    loaded,   \* what the last load gave the client
    crashes,  \* how often the proxy stopped
    saved,    \* history: the last profile whose save returned no error
    lost      \* history: the machine stopped after a save

vars == <<step, saving, temp, file, disk, loaded, crashes, saved, lost>>

Profiles == 0..MaxSaves
Default == 0     \* DefaultCUFProfiles, given when there is no file
Contents == [profile : Profiles, whole : BOOLEAN]
Whole(p) == [profile |-> p, whole |-> TRUE]
Torn(p) == [profile |-> p, whole |-> FALSE]

TypeOK ==
    /\ step \in {"free", "created", "written", "synced", "renamed"}
    /\ saving \in Profiles
    /\ temp \in Contents
    /\ file \in Contents /\ disk \subseteq Contents /\ file \in disk
    /\ loaded \in Profiles /\ crashes \in 0..MaxCrashes
    /\ saved \in Profiles /\ lost \in BOOLEAN

Init ==
    /\ step = "free" /\ saving = Default /\ temp = Torn(Default)
    /\ file = Whole(Default) /\ disk = {Whole(Default)}
    /\ loaded = Default /\ crashes = 0 /\ saved = Default /\ lost = FALSE

-----------------------------------------------------------------------------
\* A save takes the mutex and makes its temporary file.
CreateTemp ==
    /\ step = "free" /\ saving < MaxSaves
    /\ step' = "created" /\ saving' = saving + 1
    /\ temp' = Torn(saving + 1)
    /\ UNCHANGED <<file, disk, loaded, crashes, saved, lost>>

Write ==
    /\ step = "created"
    /\ step' = "written" /\ temp' = Whole(saving)
    /\ UNCHANGED <<saving, file, disk, loaded, crashes, saved, lost>>

Sync ==
    /\ step = "written"
    /\ step' = "synced"
    /\ UNCHANGED <<saving, temp, file, disk, loaded, crashes, saved, lost>>

\* The file is closed and takes the place of the last one.  The directory is
\* not synced: until the system has written it, the disk holds either.  What
\* was not synced may come back torn.
\* Mutant: the file is renamed as soon as it is written.
RenameUnsynced ==
    /\ step = "written"
    /\ step' = "renamed" /\ file' = temp
    /\ disk' = disk \cup {temp, Torn(saving)}
    /\ UNCHANGED <<saving, temp, loaded, crashes, saved, lost>>
Rename ==
    /\ step = "synced"
    /\ step' = "renamed" /\ file' = temp
    /\ disk' = disk \cup {temp}
    /\ UNCHANGED <<saving, temp, loaded, crashes, saved, lost>>

\* An error of any call before the rename ends the save; the temporary file is
\* removed.
Fail ==
    /\ step \in {"created", "written", "synced"}
    /\ step' = "free"
    /\ UNCHANGED <<saving, temp, file, disk, loaded, crashes, saved, lost>>

Return ==
    /\ step = "renamed"
    /\ step' = "free" /\ saved' = saving /\ lost' = FALSE
    /\ UNCHANGED <<saving, temp, file, disk, loaded, crashes>>

\* A load gives the defaults for what does not validate.
Load ==
    /\ step = "free"
    /\ loaded' = IF file.whole THEN file.profile ELSE Default
    /\ UNCHANGED <<step, saving, temp, file, disk, crashes, saved, lost>>

-----------------------------------------------------------------------------
(* The system around the proxy.                                            *)

WriteBack ==
    /\ disk # {file} /\ disk' = {file}
    /\ UNCHANGED <<step, saving, temp, file, loaded, crashes, saved, lost>>

Crash ==
    /\ crashes < MaxCrashes
    /\ crashes' = crashes + 1 /\ step' = "free"
    /\ UNCHANGED <<saving, temp, file, disk, loaded, saved, lost>>

PowerLoss ==
    /\ crashes < MaxCrashes
    /\ crashes' = crashes + 1 /\ step' = "free"
    /\ file' \in disk /\ disk' = {file'} /\ lost' = TRUE
    /\ UNCHANGED <<saving, temp, loaded, saved>>

Next ==
    \/ CreateTemp \/ Write \/ Sync \/ Rename \/ Fail \/ Return \/ Load
    \/ WriteBack \/ Crash \/ PowerLoss

Spec == Init /\ [][Next]_vars

-----------------------------------------------------------------------------
\* Wherever the proxy or its machine stops and whichever call of a save fails,
\* the file holds one whole profile; unless the machine lost its memory it is
\* the last one whose save returned, or a newer one that was renamed already.
ProfileSurvives ==
    /\ file.whole
    /\ lost \/ file.profile >= saved
=============================================================================
