-------------------------------- MODULE Disk --------------------------------
(***************************************************************************)
(* The disk driver of kernel/disk.c, one call of disk_read_sector or       *)
(* disk_write_sector after the other, and the ATA drive it talks to.       *)
(*                                                                         *)
(* The drive is external: it is busy with a command as long as it likes,   *)
(* then asks for the data or reports an error.  The driver gives up when   *)
(* ATA_TIMEOUT reads of the status register have passed, which can be at   *)
(* any time, and leaves the drive as it is.  As in the emulator of run.bat *)
(* and run_hdd.bat, a drive that waits for its data takes no new command.  *)
(* The 256 words of a sector move in one step.                             *)
(***************************************************************************)
EXTENDS Integers

CONSTANTS
  Sector,     \* the sectors that are read and written
  Old,        \* what was in a sector before
  Bad         \* what is in a sector that the drive could not store

ASSUME SectorAssumption ==
  0 \in Sector /\ Sector \subseteq Nat /\ Old \notin Nat /\ Bad \notin Nat

Kind == {"read", "write"}

(* A sector is told by the sector that its data was sent for.              *)
Data == Sector \union {Old, Bad}

(* BSY is set in the states busy and storing, DRQ in data, ERR in failed.  *)
(* orphan: the driver has given up the command that the drive is in.       *)
Drive ==
  [state : {"absent", "ready", "failed", "busy", "data", "storing"},
   kind : Kind, lba : Sector, data : Sector, orphan : BOOLEAN]

AtRest(state) ==
  [state |-> state, kind |-> "read", lba |-> 0, data |-> 0, orphan |-> FALSE]

(* at: which wait of the driver a call is in, or how it has ended.         *)
(* stale: the status may still be that of a command before; clean: history,*)
(* the call found the drive at rest.                                       *)
Request ==
  [at : {"none", "select", "drq", "settle", "done", "failed"},
   kind : Kind, lba : Sector, buffer : Data, stale : BOOLEAN, clean : BOOLEAN]

NoCall ==
  [at |-> "none", kind |-> "read", lba |-> 0, buffer |-> Old,
   stale |-> FALSE, clean |-> TRUE]

VARIABLES
  platter,    \* platter[x]: the data in sector x
  drive,      \* the drive and its command
  call        \* the call the processor is in

diskVars == <<platter, drive, call>>

BSY == drive.state \in {"busy", "storing"}

(* The drive has nothing more to do.                                       *)
Rests == drive.state \in {"ready", "failed", "absent"}

Return(ok) == call' = [call EXCEPT !.at = IF ok THEN "done" ELSE "failed"]

(* A return that leaves the drive with the command it has accepted.        *)
GiveUp == Return(FALSE) /\ drive' = [drive EXCEPT !.orphan = TRUE]

-----------------------------------------------------------------------------
(* disk_read_sector and disk_write_sector, up to ata_wait_not_busy.        *)
Begin(kind, x) ==
  call' = [at |-> "select", kind |-> kind, lba |-> x, buffer |-> Old,
           stale |-> FALSE, clean |-> Rests]

(* Mutated form: the sector number is written before the drive is ready.   *)
SelectUnset ==
  /\ call.at = "select" /\ ~BSY /\ drive.state # "absent"
  /\ drive' = IF drive.state = "data" THEN drive
              ELSE [AtRest("busy") EXCEPT !.kind = call.kind, !.lba = drive.lba]
  /\ call' = [call EXCEPT !.at = "drq", !.stale = drive.state = "failed"]
  /\ UNCHANGED platter

(* ata_select_lba28 of a drive that is not busy, and the command.          *)
Select ==
  /\ call.at = "select" /\ ~BSY /\ drive.state # "absent"
  /\ drive' = IF drive.state = "data" THEN drive
              ELSE [AtRest("busy") EXCEPT !.kind = call.kind, !.lba = call.lba]
  /\ call' = [call EXCEPT !.at = "drq", !.stale = drive.state = "failed"]
  /\ UNCHANGED platter

NoDrive ==
  /\ call.at = "select" /\ drive.state = "absent"
  /\ Return(FALSE)
  /\ UNCHANGED <<platter, drive>>

(* Mutated form: only the wait before the command comes to an end.         *)
TimeoutOfSelect ==
  /\ call.at = "select" /\ BSY
  /\ GiveUp
  /\ UNCHANGED platter

Timeout ==
  /\ call.at \in {"select", "drq", "settle"} /\ BSY
  /\ GiveUp
  /\ UNCHANGED platter

(* ata_wait_drq_ready meets the error bit: that of this command, or, as    *)
(* nothing waits between the command and the first read of the status,     *)
(* that of the command before.                                             *)
Refused ==
  /\ call.at = "drq"
  /\ \/ drive.state = "failed" /\ Return(FALSE) /\ UNCHANGED drive
     \/ drive.state = "busy" /\ call.stale /\ GiveUp
  /\ UNCHANGED platter

(* The data register: the words go to the command that the drive is in, or *)
(* nowhere when that one moves data the other way.                         *)
TransferIn ==
  /\ call.at = "drq" /\ drive.state = "data" /\ call.kind = "read"
  /\ drive' = IF drive.kind = "read" THEN AtRest("ready") ELSE drive
  /\ call' = [call EXCEPT !.at = "done",
                          !.buffer = IF drive.kind = "read" THEN platter[drive.lba] ELSE Bad]
  /\ UNCHANGED platter

(* Mutated form: the driver does not wait until the sector is stored.      *)
TransferOutAndReturn ==
  /\ call.at = "drq" /\ drive.state = "data" /\ call.kind = "write"
  /\ drive' = IF drive.kind = "write"
              THEN [drive EXCEPT !.state = "storing", !.data = call.lba] ELSE drive
  /\ Return(TRUE)
  /\ UNCHANGED platter

TransferOut ==
  /\ call.at = "drq" /\ drive.state = "data" /\ call.kind = "write"
  /\ drive' = IF drive.kind = "write"
              THEN [drive EXCEPT !.state = "storing", !.data = call.lba] ELSE drive
  /\ call' = [call EXCEPT !.at = "settle"]
  /\ UNCHANGED platter

(* The last wait looks at no error bit.                                    *)
Settle ==
  /\ call.at = "settle" /\ ~BSY
  /\ Return(TRUE)
  /\ UNCHANGED <<platter, drive>>

-----------------------------------------------------------------------------
(* The drive answers a command.                                            *)
Answer ==
  /\ drive.state = "busy"
  /\ \/ drive' = [drive EXCEPT !.state = "data"]
     \/ drive' = AtRest("failed")
  /\ UNCHANGED <<platter, call>>

(* The drive stores what it was sent, or finds that it cannot.             *)
Store ==
  /\ drive.state = "storing"
  /\ \/ /\ platter' = [platter EXCEPT ![drive.lba] = drive.data]
        /\ drive' = AtRest("ready")
     \/ /\ platter' = [platter EXCEPT ![drive.lba] = Bad]
        /\ drive' = AtRest("failed")
  /\ UNCHANGED call

(* One pass of a wait of the driver that ends it.                          *)
DriverStep ==
  Select \/ NoDrive \/ Timeout \/ Refused \/ TransferIn \/ TransferOut \/ Settle

DriveStep == Answer \/ Store

DiskInit ==
  /\ platter = [x \in Sector |-> Old]
  /\ \E s \in {"absent", "ready"} : drive = AtRest(s)
  /\ call = NoCall

DiskTypeOK ==
  /\ platter \in [Sector -> Data]
  /\ drive \in Drive
  /\ call \in Request

-----------------------------------------------------------------------------
(***************************************************************************)
(* The data of one call reaches the sector of another only through a       *)
(* command that the driver gave up before the drive had finished it, when  *)
(* the drive takes the data of a later call for that of this command.      *)
(***************************************************************************)
LandsWhereMeant ==
  [][ \A x \in Sector :
        platter'[x] # platter[x] => platter'[x] \in {x, Bad} \/ drive.orphan ]_diskVars

(***************************************************************************)
(* A call that returns 1 has done what it was asked for, if it found the   *)
(* drive at rest: the sector is on the platter unless the drive failed     *)
(* after it had the data, and a read has returned that very sector.        *)
(***************************************************************************)
AnswersAreTrue ==
  call.at = "done" /\ call.clean =>
    IF call.kind = "read" THEN call.buffer = platter[call.lba]
    ELSE platter[call.lba] \in {call.lba, Bad}
=============================================================================
