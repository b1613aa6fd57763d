----------------------------- MODULE Installer -----------------------------
(***************************************************************************)
(* What scripts/install.sh and scripts/uninstall.sh do to the files of UU  *)
(* and to the values in the registry of its Wine prefix, and what the      *)
(* session guard does to the driver installer among them.                  *)
(*                                                                         *)
(* A script is a fixed list of steps; `agenda` is what is left of it.  The *)
(* scripts run under set -e, so a step that fails ends them, as does a     *)
(* signal or a crash, between any two steps or in the middle of a copy: a  *)
(* file that cp, install or printf is writing is Torn until it is written. *)
(* In between UU may be upgraded by its own installer, which knows nothing *)
(* of the bridge, and the bridge's package may be.                         *)
(*                                                                         *)
(* Where a script says `|| true` a failure does not end it: it goes on     *)
(* with a guard that it could not stop, a value that it could not read or  *)
(* one that it could not delete.                                           *)
(*                                                                         *)
(* Registry values stand beside the files: a value is a place whose        *)
(* content is written at once, and its state file holds the old value too  *)
(* (kept under "backup" here).  Neither script writes while UU runs        *)
(* (uu_bridge_assert_stopped).  Left out: the helpers and unit files,      *)
(* which are replaced as a whole and belong to no one else, the copies of  *)
(* the server under backup/, which no script reads, the versions of the    *)
(* driver installer, a second process in disable_wine_driver_installers    *)
(* (the guard's script as ExecStartPre of the remote's unit), and writes   *)
(* that the disk loses or reorders after a power failure.                  *)
(***************************************************************************)
EXTENDS Naturals, Sequences, Functions

CONSTANTS
    Dlls,               \* names of the DLLs that are replaced, in order
    Values,             \* names of the registry values that are set, in order
    MaxUpgrades         \* bound: upgrades, of UU and of the bridge's package together

Items == Range(Dlls) \cup Range(Values)
Fixed == {"GameViewerServer.exe", "GameViewerServer.real.exe", "uu-server-compat.dll",
          "devcon.exe", "devcon.exe.uu-disabled"}

ASSUME NamesAssumption ==
    /\ Dlls \in Seq(STRING) /\ Values \in Seq(STRING)
    /\ Range(Dlls) \cap Range(Values) = {} /\ Items \cap Fixed = {}
ASSUME BoundAssumption == MaxUpgrades \in Nat

VARIABLES
    agenda,             \* the steps that the running script has left
    writing,            \* it is in the middle of writing a file
    disk,               \* the content of every place
    enabled,            \* the units are enabled, and may start a guard
    guard,              \* where the guard stands in disable_wine_driver_installers
    version,            \* of UU, as installed last
    package,            \* of the bridge's artifacts
    \* history
    original,           \* what was there before the bridge came
    misread,            \* values that were there and whose query failed
    undeleted,          \* values that this uninstall.sh could not delete
    outlived,           \* a guard has outlived the start of uninstall.sh
    removed,            \* uninstall.sh has run to its end, nothing happened since
    excuses             \* what has happened to UU's newest server

script  == <<agenda, writing>>
world   == <<version, package>>
history == <<original, misread, undeleted, outlived, removed, excuses>>
installVars    == <<script, disk, enabled, guard, world, history>>

-----------------------------------------------------------------------------

Missing    == [by |-> "nobody", version |-> 0]
Torn       == [by |-> "crash", version |-> 0]
Present    == [by |-> "present", version |-> 0]
Absent     == [by |-> "absent", version |-> 0]
Uu(v)      == [by |-> "uu", version |-> v]      \* UU's, or the user's value
Bridge(p)  == [by |-> "bridge", version |-> p]  \* the launcher of package p
Artifact   == Bridge(0)                         \* any other: never compared

Versions == 1..(MaxUpgrades + 1)
Contents == {Missing, Torn, Artifact} \cup {Uu(v) : v \in Versions} \cup {Bridge(p) : p \in Versions}

Bin(name)    == <<"bin", name>>
Backup(name) == <<"backup", name>>
State(name)  == <<"state", name>>
Server   == Bin("GameViewerServer.exe")
Real     == Bin("GameViewerServer.real.exe")
Compat   == Bin("uu-server-compat.dll")
Devcon   == Bin("devcon.exe")
Disabled == Bin("devcon.exe.uu-disabled")

Places == {Bin(i) : i \in Items \cup Fixed} \cup {Backup(i) : i \in Items}
States == {State(i) : i \in Items}

Steps(acts, name) == [k \in 1..Len(acts) |-> [do |-> acts[k], on |-> name]]
ForEach(names, acts) ==
    [k \in 1..(Len(names) * Len(acts)) |->
        [do |-> acts[1 + ((k - 1) % Len(acts))], on |-> names[1 + ((k - 1) \div Len(acts))]]]

InstallSteps ==
    ForEach(Dlls, <<"save", "mark">>) \o
    Steps(<<"server", "launcher", "compat">>, "server") \o
    ForEach(Values, <<"record", "set">>) \o
    ForEach(Dlls, <<"dll">>) \o
    Steps(<<"enable">>, "units")

UninstallSteps ==
    ForEach(Dlls, <<"restore">>) \o
    Steps(<<"restore server", "remove compat", "restore devcon">>, "server") \o
    ForEach(Values, <<"reset">>) \o
    Steps(<<"finish">>, "units")

InstallTypeOK ==
    /\ \E steps \in {InstallSteps, UninstallSteps} : \E done \in 0..Len(steps) :
          agenda = SubSeq(steps, done + 1, Len(steps))
    /\ writing \in BOOLEAN
    /\ DOMAIN disk = Places \cup States
    /\ \A p \in Places : disk[p] \in Contents
    /\ \A s \in States : disk[s] \in {Missing, Torn, Present, Absent}
    /\ enabled \in BOOLEAN
    /\ guard \in {"none", "idle", "copy", "remove"}
    /\ version \in Versions /\ package \in Versions
    /\ original \in [Items -> Contents]
    /\ misread \subseteq Range(Values) /\ undeleted \subseteq Range(Values)
    /\ outlived \in BOOLEAN /\ removed \in BOOLEAN
    /\ excuses \subseteq {"cut", "package", "upgrade"}

\* A prefix with UU and without the bridge.  Which of the DLLs UU has itself,
\* and which values the user has set, is open.
InstallInit ==
    /\ agenda = <<>> /\ writing = FALSE
    /\ original \in [Items -> {Missing, Uu(1)}]
    /\ disk = [p \in Places \cup States |->
                 CASE p \in {Server, Devcon}         -> Uu(1)
                   [] p[1] = "bin" /\ p[2] \in Items -> original[p[2]]
                   [] OTHER                          -> Missing]
    /\ enabled = FALSE /\ guard = "none"
    /\ version = 1 /\ package = 1
    /\ misread = {} /\ undeleted = {} /\ outlived = FALSE
    /\ removed = FALSE /\ excuses = {}

-----------------------------------------------------------------------------
(* Running a script *)

Idle == agenda = <<>>

\* Both scripts stop the units first, or fail to and go on.  A guard that is
\* stopped leaves what it is copying torn.
Start(steps) ==
    /\ Idle
    /\ agenda' = steps
    /\ guard' \in {"none", guard}
    /\ undeleted' = {} /\ removed' = FALSE
    /\ UNCHANGED <<writing, disk, world, original, misread>>

StartInstall == Start(InstallSteps) /\ UNCHANGED <<enabled, outlived, excuses>>

\* It disables the units too, or fails to.  It cannot tell UU's new server from
\* the launcher it takes it for.
StartUninstall ==
    /\ Start(UninstallSteps)
    /\ enabled' \in {FALSE, enabled}
    /\ outlived' = \/ enabled' \/ guard' # "none"
                   \/ outlived /\ disk[Devcon] = Missing /\ disk[Disabled] = Missing
    /\ excuses' = excuses \cup
                  IF disk[Server] = Uu(version) /\ disk[Real] # Missing THEN {"upgrade"} ELSE {}

Doing(act) == agenda # <<>> /\ Head(agenda).do = act
Item == Head(agenda).on
Skip(n) == agenda' = SubSeq(agenda, n + 1, Len(agenda))
Exit == agenda' = <<>>

Untouched == UNCHANGED <<enabled, guard, world, original, outlived, removed, excuses>>

Put(p, content) == [disk EXCEPT ![p] = content]
Move(from, to)  == [disk EXCEPT ![to] = disk[from], ![from] = Missing]

Pass(n) == Skip(n) /\ UNCHANGED <<writing, disk, misread, undeleted>> /\ Untouched

\* A step that takes no time, or none that matters: mv, rm, wine reg.
Do(files) ==
    /\ disk' = files
    /\ Skip(1)
    /\ UNCHANGED <<writing, misread, undeleted>> /\ Untouched

\* cp, install, printf >file: the file is there before its content is.
Write(p, content) ==
    /\ \/ ~writing /\ disk' = Put(p, Torn) /\ UNCHANGED agenda
       \/ writing /\ disk' = Put(p, content) /\ Skip(1)
    /\ writing' = ~writing
    /\ UNCHANGED <<misread, undeleted>> /\ Untouched

Crash ==
    /\ ~Idle
    /\ agenda' = <<>> /\ writing' = FALSE
    /\ excuses' = excuses \cup IF disk[Server] = Torn THEN {"cut"} ELSE {}
    /\ undeleted' = {}
    /\ UNCHANGED <<disk, enabled, guard, world, original, misread, outlived, removed>>

-----------------------------------------------------------------------------
(* install.sh *)

\* Mutant: each installation saves again what it finds.
BugSaveOriginal ==
    /\ Doing("save")
    /\ \/ disk[Bin(Item)] = Missing /\ Pass(1)
       \/ disk[Bin(Item)] # Missing /\ Write(Backup(Item), disk[Bin(Item)])

\* backup_target: what a marker speaks of is never saved again.
SaveOriginal ==
    /\ Doing("save")
    /\ \/ disk[State(Item)] # Missing /\ Pass(2)
       \/ disk[State(Item)] = Missing /\ disk[Bin(Item)] = Missing /\ Pass(1)
       \/ /\ disk[State(Item)] = Missing /\ disk[Bin(Item)] # Missing
          /\ Write(Backup(Item), disk[Bin(Item)])

Mark ==
    /\ Doing("mark")
    /\ Write(State(Item), IF disk[Bin(Item)] = Missing THEN Absent ELSE Present)

\* Mutant: the launcher in place is not compared with this package's.
BugMoveServer ==
    /\ Doing("server")
    /\ \/ disk[Server] = Missing /\ Exit /\ UNCHANGED <<writing, disk, misread, undeleted>> /\ Untouched
       \/ disk[Server] # Missing /\ Do(Move(Server, Real))

\* What is not the launcher of this package is taken for a new server of UU.
\* Without GameViewerServer.exe cmp and cp fail, and the script ends.
MoveServer ==
    /\ Doing("server")
    /\ \/ disk[Real] # Missing /\ disk[Server] = Bridge(package) /\ Pass(1)
       \/ disk[Server] = Missing /\ Exit /\ UNCHANGED <<writing, disk, misread, undeleted>> /\ Untouched
       \/ /\ disk[Server] # Missing
          /\ disk[Real] # Missing => disk[Server] # Bridge(package)
          /\ Do(Move(Server, Real))

InstallLauncher == Doing("launcher") /\ Write(Server, Bridge(package))
InstallCompat   == Doing("compat")   /\ Write(Compat, Artifact)
InstallDll      == Doing("dll")      /\ Write(Bin(Item), Artifact)

\* The state file of a value: a query that fails reads as a value that is not there.
Record ==
    /\ Doing("record")
    /\ \/ disk[State(Item)] # Missing /\ ~writing /\ Pass(1)
       \/ /\ disk[State(Item)] = Missing
          /\ Write(State(Item), Absent)
       \/ /\ writing
          /\ \E answers \in BOOLEAN :
               LET found == answers /\ disk[Bin(Item)] # Missing IN
               /\ disk' = [disk EXCEPT ![State(Item)] = IF found THEN Present ELSE Absent,
                                      ![Backup(Item)] = IF found THEN disk[Bin(Item)] ELSE Missing]
               /\ misread' = IF found \/ disk[Bin(Item)] = Missing THEN misread ELSE misread \cup {Item}
          /\ writing' = FALSE /\ Skip(1) /\ UNCHANGED undeleted /\ Untouched

SetValue == Doing("set") /\ Do(Put(Bin(Item), Artifact))

\* The units are enabled and restarted, which is the end of the installation.
Enable ==
    /\ Doing("enable")
    /\ enabled' = TRUE /\ guard' = "none"
    /\ Skip(1)
    /\ UNCHANGED <<writing, disk, world, history>>

-----------------------------------------------------------------------------
(* uninstall.sh *)

\* A marker that is neither "present" nor "absent" matches no case.
Restore ==
    /\ Doing("restore")
    /\ \/ disk[State(Item)] \in {Missing, Torn} /\ Pass(1)
       \/ disk[State(Item)] = Absent /\ Do(Put(Bin(Item), Missing))
       \/ disk[State(Item)] = Present /\ Write(Bin(Item), disk[Backup(Item)])

RestoreServer ==
    /\ Doing("restore server")
    /\ \/ disk[Real] = Missing /\ Pass(1)
       \/ disk[Real] # Missing /\ Do(Move(Real, Server))

RemoveCompat == Doing("remove compat") /\ Do(Put(Compat, Missing))

RestoreDevcon ==
    /\ Doing("restore devcon")
    /\ \/ disk[Disabled] = Missing /\ Pass(1)
       \/ disk[Disabled] # Missing /\ Do(Move(Disabled, Devcon))

\* Mutant: the first line of the state file instead of the second.
BugResetValue ==
    /\ Doing("reset")
    /\ \/ disk[State(Item)] \in {Missing, Torn} /\ Pass(1)
       \/ disk[State(Item)] = Absent /\ Do(Put(Bin(Item), Missing))
       \/ disk[State(Item)] = Present /\ Do(Put(Bin(Item), disk[State(Item)]))

\* wine reg delete may fail, and nobody learns of it.
NotDeleted ==
    /\ disk[State(Item)] = Absent /\ disk[Bin(Item)] # Missing
    /\ undeleted' = undeleted \cup {Item}
    /\ Skip(1)
    /\ UNCHANGED <<writing, disk, misread>> /\ Untouched

ResetValue ==
    /\ Doing("reset")
    /\ \/ disk[State(Item)] \in {Missing, Torn} /\ Pass(1)
       \/ disk[State(Item)] = Absent /\ Do(Put(Bin(Item), Missing))
       \/ NotDeleted
       \/ disk[State(Item)] = Present /\ Do(Put(Bin(Item), disk[Backup(Item)]))

\* Without the unit files and its script no guard is started any more; one
\* that still runs goes on.
Finish ==
    /\ Doing("finish")
    /\ enabled' = FALSE /\ removed' = TRUE
    /\ Skip(1)
    /\ UNCHANGED <<writing, disk, guard, world, original, misread, undeleted, outlived, excuses>>

-----------------------------------------------------------------------------
(* The guard: disable_wine_driver_installers.  It goes on beside a script  *)
(* that could not stop it.                                                 *)

GuardStep(from, to, files) ==
    /\ guard = from
    /\ guard' = to
    /\ disk' = files
    /\ UNCHANGED <<script, enabled, world, history>>

\* At the end of an installation, at a login, or again (Restart=always).
GuardStarts == enabled /\ GuardStep("none", "idle", disk)

\* With a copy from before there is nothing to write.
DisableDriver ==
    /\ disk[Devcon] # Missing
    /\ IF disk[Disabled] = Missing
       THEN GuardStep("idle", "copy", Put(Disabled, Torn))
       ELSE GuardStep("idle", "remove", disk)

\* When uninstall.sh has moved the copy over its source meanwhile, cp goes on
\* writing where it is now, from what was there and may have been cut short itself.
DriverCopied ==
    \/ disk[Disabled] # Missing /\ GuardStep("copy", "remove", Put(Disabled, disk[Devcon]))
    \/ /\ disk[Disabled] = Missing
       /\ \E source \in {Uu(1), Torn} : GuardStep("copy", "remove", Put(Devcon, source))

DriverRemoved == GuardStep("remove", "idle", Put(Devcon, Missing))

\* The guard dies, or the machine does.
GuardKilled ==
    /\ guard # "none" /\ guard' = "none"
    /\ UNCHANGED <<script, disk, enabled, world, history>>

-----------------------------------------------------------------------------
(* Upgrades *)

MoreUpgrades == version + package < MaxUpgrades + 2

\* UU's installer writes its own files under their names, some DLLs among them.
UpgradeUu ==
    /\ Idle /\ MoreUpgrades
    /\ version' = version + 1
    /\ \E ships \in SUBSET Range(Dlls) :
         LET fresh == {Server} \cup {Bin(d) : d \in ships} IN
         /\ disk' = [p \in DOMAIN disk |-> CASE p \in fresh -> Uu(version + 1)
                                              [] p = Devcon  -> Uu(1)
                                              [] OTHER       -> disk[p]]
         /\ original' = [i \in Items |-> IF i \in ships /\ disk[State(i)] = Missing
                                         THEN Uu(version + 1) ELSE original[i]]
    /\ undeleted' = {} /\ removed' = FALSE
    /\ excuses' = {}
    /\ UNCHANGED <<script, enabled, guard, package, misread, outlived>>

UpgradePackage ==
    /\ Idle /\ MoreUpgrades
    /\ package' = package + 1
    /\ excuses' = excuses \cup IF disk[Server].by = "bridge" THEN {"package"} ELSE {}
    /\ UNCHANGED <<script, disk, enabled, guard, version, original, misread, undeleted, outlived, removed>>

-----------------------------------------------------------------------------

Install   == StartInstall \/ SaveOriginal \/ Mark \/ MoveServer \/ InstallLauncher
             \/ InstallCompat \/ Record \/ SetValue \/ InstallDll \/ Enable
Uninstall == StartUninstall \/ Restore \/ RestoreServer \/ RemoveCompat \/ RestoreDevcon
             \/ ResetValue \/ Finish
Guard     == GuardStarts \/ DisableDriver \/ DriverCopied \/ DriverRemoved \/ GuardKilled

InstallNext == Install \/ Uninstall \/ Crash \/ Guard \/ UpgradeUu \/ UpgradePackage

InstallSpec == InstallInit /\ [][InstallNext]_installVars

-----------------------------------------------------------------------------
(* Properties *)

\* Once uninstall.sh has run to its end, everything is as it was before the
\* first installation (README.md:190, 208-209), after any number of
\* interrupted runs (install.sh:60-72, 86-126): DLLs and values, but a value
\* whose query failed, whose deletion failed just now (uninstall.sh:50-51), or
\* whose state file was cut short, and a DLL whose marker was cut short, of
\* which the backup is whole then.  The driver installer is there again, cut
\* short only when the guard was killed while it copied it, unless the guard was
\* not stopped (uninstall.sh:19-22): then it may rename it once more, or
\* remove the one that was just put back.
RollbackRestores ==
    removed =>
      /\ \A i \in Items :
           \/ disk[Bin(i)] = original[i]
           \/ i \in misread \cup undeleted
           \/ disk[State(i)] = Torn /\ (i \in Range(Dlls) => disk[Backup(i)] = original[i])
      /\ outlived \/ disk[Devcon].by \in {"uu", "crash"}
      /\ disk[Compat] = Missing /\ disk[Real] = Missing

\* UU's newest server is lost in three ways and no other: install.sh is cut
\* while it writes the launcher, or is run with another launcher than the one
\* in place, or uninstall.sh is run after an upgrade of UU without install.sh
\* before it (install.sh:76-83, uninstall.sh:33-35).
ServerKept ==
    excuses = {} => Uu(version) \in {disk[Server], disk[Real]}

\* After a rollback UU has its server back (README.md:182-190,
\* uninstall.sh:33-35), unless a script was cut while it wrote the launcher.
ServerRestored ==
    removed /\ "cut" \notin excuses => disk[Server].by = "uu"

=============================================================================
