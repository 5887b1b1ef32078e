----------------------------- MODULE Installer ------------------------------
(***************************************************************************)
(* The installer of kernel/installer.c over the disk driver: the boot      *)
(* sector and then the sectors of the kernel are copied to the disk, one   *)
(* call of disk_write_sector after the other.  Between installations the   *)
(* file system calls the driver for the sectors of its own image, and the  *)
(* power can fail at any moment.                                           *)
(***************************************************************************)
EXTENDS Disk, HelpMenu

CONSTANT Total    \* INSTALL_TOTAL_SECTORS

Image == 0..Total - 1

(* The image of the file system begins behind the installed sectors.       *)
ASSUME TotalAssumption == Total \in Nat \ {0} /\ Image \subseteq Sector

VARIABLES
  inst,        \* state, fail_sector and the menus of installer.c
  foundClean   \* history: the drive was at rest when the installation began

instVars == <<diskVars, inst, foundClean>>

InstKeys == {"ENTER", "ESCAPE", "I", "B", "H"}

InstSpots == {"ABOUT", "HELP", "INSTALL", "BACK", "NOWHERE"}

(* The processor is in no call, so that events reach the programs.         *)
Attentive == call.at = "none"

Idle == [state |-> "IDLE", failSector |-> 0, menus |-> Closed]

-----------------------------------------------------------------------------
(* start_install, up to the call for the boot sector.                      *)
StartInstall(m) ==
  /\ inst' = [inst EXCEPT !.state = "WORKING", !.menus = m]
  /\ Begin("write", 0)
  /\ foundClean' = Rests

StaysAt(m) ==
  /\ inst' = [inst EXCEPT !.menus = m]
  /\ UNCHANGED <<call, foundClean>>

(* The launch of PROGMAN from a key or a press is no step of the installer.*)
InstKey(key) ==
  /\ Attentive
  /\ IF IsOpen(inst.menus) THEN StaysAt(MenuKey(inst.menus, key))
     ELSE IF key \in {"ENTER", "I"} THEN StartInstall(inst.menus)
     ELSE StaysAt([inst.menus EXCEPT !.help = key = "H"])
  /\ UNCHANGED <<platter, drive>>

InstMouse(spot, left, right) ==
  /\ Attentive
  /\ IF right THEN StaysAt(RightButton(inst.menus, left))
     ELSE IF ~Edge(inst.menus, left) THEN StaysAt([inst.menus EXCEPT !.prev = left])
     ELSE IF TakesPress(inst.menus, spot) THEN StaysAt(MenuPress(inst.menus, spot))
     ELSE IF spot = "INSTALL" THEN StartInstall([inst.menus EXCEPT !.prev = TRUE])
     ELSE StaysAt([inst.menus EXCEPT !.prev = TRUE])
  /\ UNCHANGED <<platter, drive>>

(* installer_start, when the closed program is launched again.             *)
InstStart ==
  /\ Attentive
  /\ inst' = Idle
  /\ UNCHANGED <<diskVars, foundClean>>

(* Mutated form: a sector that cannot be written is passed over.           *)
NextSectorAnyway ==
  /\ inst.state = "WORKING"
  /\ call.at \in {"done", "failed"}
  /\ IF call.lba + 1 < Total THEN Begin("write", call.lba + 1) /\ UNCHANGED inst
     ELSE /\ inst' = [inst EXCEPT !.state = "OK"]
          /\ call' = NoCall
  /\ UNCHANGED <<platter, drive, foundClean>>

(* The loop of install_to_primary_disk, when a call has returned.          *)
NextSector ==
  /\ inst.state = "WORKING"
  /\ call.at \in {"done", "failed"}
  /\ IF call.at = "failed"
     THEN /\ inst' = [inst EXCEPT !.state = "FAIL", !.failSector = call.lba]
          /\ call' = NoCall
     ELSE IF call.lba + 1 < Total THEN Begin("write", call.lba + 1) /\ UNCHANGED inst
     ELSE /\ inst' = [inst EXCEPT !.state = "OK"]
          /\ call' = NoCall
  /\ UNCHANGED <<platter, drive, foundClean>>

(* fs.c reads and writes its image, in calls of which each may be the last.*)
FsCalls(kind, x) ==
  /\ Attentive
  /\ Begin(kind, x)
  /\ UNCHANGED <<platter, drive, inst, foundClean>>

FsReturns ==
  /\ inst.state # "WORKING"
  /\ call.at \in {"done", "failed"}
  /\ call' = NoCall
  /\ UNCHANGED <<platter, drive, inst, foundClean>>

(* What is on the platter stays; the drive forgets its command.            *)
PowerFails ==
  /\ drive' = AtRest(IF drive.state = "absent" THEN "absent" ELSE "ready")
  /\ call' = NoCall
  /\ inst' = Idle
  /\ UNCHANGED <<platter, foundClean>>

-----------------------------------------------------------------------------
InstInit == DiskInit /\ inst = Idle /\ foundClean = TRUE

Processor == (DriverStep /\ UNCHANGED <<inst, foundClean>>) \/ NextSector \/ FsReturns

(* Where the pointer is matters to a press of the left button only.        *)
InstNext ==
  \/ Processor
  \/ DriveStep /\ UNCHANGED <<inst, foundClean>>
  \/ \E key \in InstKeys : InstKey(key)
  \/ \E spot \in InstSpots : InstMouse(spot, TRUE, FALSE)
  \/ \E left, right \in BOOLEAN : InstMouse("NOWHERE", left, right)
  \/ InstStart
  \/ \E kind \in Kind, x \in Sector \ Image : FsCalls(kind, x)
  \/ PowerFails

(* The processor goes on, whatever the drive does.                         *)
InstSpec == InstInit /\ [][InstNext]_instVars /\ WF_instVars(Processor)

InstTypeOK ==
  /\ DiskTypeOK
  /\ inst \in [state : {"IDLE", "WORKING", "OK", "FAIL"},
               failSector : Image, menus : Menus]
  /\ foundClean \in BOOLEAN

-----------------------------------------------------------------------------
(* How far the last installation has come.                                 *)
Reached ==
  CASE inst.state = "OK"      -> Total
    [] inst.state = "FAIL"    -> inst.failSector
    [] inst.state = "WORKING" -> call.lba
    [] OTHER                  -> 0

(***************************************************************************)
(* What the installer says is true, if it found the drive at rest: after a *)
(* success every sector is on the disk, after a failure every sector below *)
(* the one that failed, and as much while it works.  Only a sector that    *)
(* the drive itself could not store goes unnoticed.                        *)
(***************************************************************************)
VerdictIsTrue ==
  foundClean => \A x \in 0..Reached - 1 : platter[x] \in {x, Bad}

(***************************************************************************)
(* An installation comes to an end although the drive may never answer.    *)
(***************************************************************************)
InstallEnds == (inst.state = "WORKING") ~> (inst.state # "WORKING")
=============================================================================
