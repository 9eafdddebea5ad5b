-------------------------------- MODULE IncusBox --------------------------------
(***************************************************************************)
(* The scripts that look after the machine of the cluster:                 *)
(* atlas-relocate.sh moves the data directories to the box volume and      *)
(* links them there, incus-control.sh takes and restores the snapshots of  *)
(* the VMs.  One run of each may be under way; both stop at the first      *)
(* error and may be killed anywhere, and people go on using the machine.   *)
(***************************************************************************)
EXTENDS Naturals, FiniteSetsExt

CONSTANTS
  Dirs,       \* the keys of PAIRS, "incus" the directory of the service
  Files,      \* the files in a directory, "database" the one Incus makes when it is missing
  VMs,        \* numbers, in the order of their names
  Names,      \* snapshot names
  Placements, \* what the directories may be at the start
  MaxMoves, MaxRuns, MaxWrites, MaxFaults  \* bounds

ASSUME BoxAssumption ==
  /\ "incus" \in Dirs /\ "database" \in Files
  /\ VMs \subseteq Nat \ {0} /\ IsFiniteSet(VMs)
  /\ Placements \subseteq [Dirs -> {"absent", "dir", "stray", "other"}]
  /\ \A p \in Placements : p["incus"] = "dir"
  /\ MaxMoves \in Nat /\ MaxRuns \in Nat /\ MaxWrites \in Nat /\ MaxFaults \in Nat

VARIABLES
  link,     \* what is at the local path of a directory
  local,    \* the version of each file in it, 0 for none
  box,      \* the version of each file on the box volume
  incus,    \* the service is active
  move,     \* atlas-relocate.sh
  running,  \* the VMs that run
  disk,     \* the create a VM was last restored to, 0 for none
  snaps,    \* the create that took a VM's snapshot of a name, 0 for none
  control,  \* incus-control.sh
  latest,   \* history: the version last written of each file
  split,    \* history: directories used while their data was in two places
  clean,    \* history: no control run failed or left out a VM
  moves, runs, writes, faults  \* history: what the bounds count

data == <<link, local, box, latest, split>>
cluster == <<running, disk, snaps, clean>>
bounds == <<moves, runs, writes, faults>>
vars == <<data, incus, move, cluster, control, bounds>>

Idle == [step |-> "idle"]
NoFiles == [f \in Files |-> 0]
Present(dir) == {f \in Files : dir[f] # 0}
Versions == [Files -> Nat]

Move == [step : {"next", "rsync", "link", "mkdir"}, op : {"on", "off"},
         d : Dirs, todo : SUBSET Dirs, files : SUBSET Files, stopped : BOOLEAN]
Control == [step : {"next", "stop", "restore", "start"},
            op : {"create", "restore", "delete", "stop", "start"},
            name : Names, list : SUBSET VMs, todo : SUBSET VMs, id : Nat]

TypeOK ==
  /\ link \in [Dirs -> {"absent", "dir", "link", "stray", "other"}]
  /\ local \in [Dirs -> Versions] /\ box \in [Dirs -> Versions] /\ latest \in [Dirs -> Versions]
  /\ \A d \in Dirs : link[d] # "dir" => local[d] = NoFiles
  /\ incus \in BOOLEAN /\ clean \in BOOLEAN
  /\ move \in Move \cup {Idle} /\ control \in Control \cup {Idle}
  /\ running \subseteq VMs /\ disk \in [VMs -> Nat] /\ snaps \in [VMs -> [Names -> Nat]]
  /\ split \subseteq Dirs
  /\ moves \in Nat /\ runs \in Nat /\ writes \in Nat /\ faults \in Nat

(* A link elsewhere, which on repoints, holds no data here: what lies at its *)
(* old target stays there, outside of both places.                          *)
Init ==
  /\ link \in Placements
  /\ local = [d \in Dirs |-> IF link[d] = "dir" THEN [f \in Files |-> 1] ELSE NoFiles]
  /\ box = [d \in Dirs |-> NoFiles] /\ latest = local
  /\ incus = TRUE
  /\ running = VMs /\ disk = [v \in VMs |-> 0] /\ snaps = [v \in VMs |-> [n \in Names |-> 0]]
  /\ move = Idle /\ control = Idle /\ split = {} /\ clean = TRUE
  /\ moves = 0 /\ runs = 0 /\ writes = 0 /\ faults = 0

(* What is seen in a directory, through the link or not. *)
Seen(d) == IF link[d] = "link" THEN box[d] ELSE local[d]

(* The move is at work on d. *)
At(d) == move.step \in {"rsync", "link"} /\ move.d = d

Fault == faults < MaxFaults /\ faults' = faults + 1 /\ UNCHANGED <<moves, runs, writes>>

-----------------------------------------------------------------------------
(* A file is written where the path leads to; a missing directory is made. *)
Put(d, f, v) ==
  /\ latest' = [latest EXCEPT ![d][f] = v]
  /\ IF link[d] = "link"
     THEN box' = [box EXCEPT ![d][f] = v] /\ UNCHANGED <<link, local>>
     ELSE /\ local' = [local EXCEPT ![d][f] = v]
          /\ link' = [link EXCEPT ![d] = "dir"]
          /\ UNCHANGED box

(* A directory whose data is in two places, or on its way to the other. *)
TwoPlaces(d) == link[d] # "link" /\ (box[d] # NoFiles \/ At(d))

Write(d, f) ==
  /\ writes < MaxWrites
  /\ link[d] \in {"absent", "dir", "link"}
  /\ d = "incus" => incus
  /\ f # "database"
  /\ Put(d, f, latest[d][f] + 1)
  /\ split' = IF TwoPlaces(d) THEN split \cup {d} ELSE split
  /\ writes' = writes + 1
  /\ UNCHANGED <<incus, move, cluster, control, moves, runs, faults>>

(* Incus starts, with a fresh database where it finds none. *)
StartIncus ==
  /\ incus' = TRUE
  /\ IF Seen("incus")["database"] = 0
     THEN Put("incus", "database", latest["incus"]["database"] + 1)
     ELSE UNCHANGED <<link, local, box, latest>>

(* Somebody, or a reboot, starts it, also while a move is under way or was *)
(* interrupted.                                                            *)
StartByHand ==
  /\ ~ incus /\ writes < MaxWrites
  /\ StartIncus
  /\ split' = IF TwoPlaces("incus") \/ move # Idle THEN split \cup {"incus"} ELSE split
  /\ writes' = writes + 1
  /\ UNCHANGED <<move, cluster, control, moves, runs, faults>>

-----------------------------------------------------------------------------
(* Mistake: Incus goes on running. *)
MoveRunning(op, stops) ==
  /\ move = Idle /\ moves < MaxMoves
  /\ moves' = moves + 1
  /\ move' = [step |-> "next", op |-> op, d |-> "incus", todo |-> Dirs, files |-> {},
              stopped |-> FALSE]
  /\ UNCHANGED <<data, incus, cluster, control, runs, writes, faults>>

(* relocate_on and relocate_off: Incus is stopped, an error of systemctl   *)
(* passed over; the pairs come in the order of a hash table.               *)
StartMove(op, stops) ==
  /\ move = Idle /\ moves < MaxMoves
  /\ moves' = moves + 1
  /\ stops \/ (incus /\ faults < MaxFaults)
  /\ faults' = IF stops THEN faults ELSE faults + 1
  /\ incus' = (incus /\ ~ stops)
  /\ split' = IF stops THEN split ELSE split \cup {"incus"}
  /\ move' = [step |-> "next", op |-> op, d |-> "incus", todo |-> Dirs, files |-> {},
              stopped |-> incus]
  /\ UNCHANGED <<link, local, box, latest, cluster, control, runs, writes>>

Goto(step) == move' = [move EXCEPT !.step = step]
Take(d, step) ==
  /\ move.step = "next" /\ d \in move.todo
  /\ move' = [move EXCEPT !.step = step, !.d = d, !.todo = @ \ {d}, !.files = Present(local[d])]
Unmoved == UNCHANGED <<incus, latest, split, cluster, control, bounds>>

(* Mistake: a directory is moved to a clean destination. *)
TakeOnClean(d) ==
  /\ move # Idle /\ move.op = "on" /\ link[d] = "dir"
  /\ Take(d, "rsync")
  /\ box' = [box EXCEPT ![d] = NoFiles]
  /\ UNCHANGED <<link, local>> /\ Unmoved

(* on: a link is left or pointed to the box, a directory is moved. *)
TakeOn(d) ==
  /\ move # Idle /\ move.op = "on"
  /\ \/ link[d] \in {"link", "stray"} /\ Take(d, "next") /\ link' = [link EXCEPT ![d] = "link"]
     \/ link[d] = "dir" /\ Take(d, "rsync") /\ UNCHANGED link
     \/ link[d] = "absent" /\ Take(d, "link") /\ UNCHANGED link
     \/ link[d] = "other" /\ move.step = "next" /\ d \in move.todo /\ move' = Idle /\ UNCHANGED link
  /\ UNCHANGED <<local, box>> /\ Unmoved

(* rsync --remove-source-files takes file after file, whatever the box has. *)
MoveFile(f) ==
  /\ move.step = "rsync" /\ f \in move.files
  /\ box' = [box EXCEPT ![move.d][f] = local[move.d][f]]
  /\ local' = [local EXCEPT ![move.d][f] = 0]
  /\ move' = [move EXCEPT !.files = @ \ {f}]
  /\ UNCHANGED link /\ Unmoved

(* Mistakes: an error of rsync is passed over; the files stay below the    *)
(* link.                                                                   *)
RemoveEarly ==
  /\ move.step = "rsync"
  /\ link' = [link EXCEPT ![move.d] = "absent"]
  /\ local' = [local EXCEPT ![move.d] = NoFiles]
  /\ Goto("link")
  /\ UNCHANGED box /\ Unmoved

KeepDir ==
  /\ move.step = "rsync"
  /\ link' = [link EXCEPT ![move.d] = "absent"]
  /\ Goto("link")
  /\ UNCHANGED <<local, box>> /\ Unmoved

(* rm -rf takes what has come in the meantime too. *)
RemoveDir ==
  /\ move.step = "rsync" /\ move.files = {}
  /\ link' = [link EXCEPT ![move.d] = "absent"]
  /\ local' = [local EXCEPT ![move.d] = NoFiles]
  /\ Goto("link")
  /\ UNCHANGED box /\ Unmoved

(* ln -sfn, which puts the link into a directory that has come back. *)
MakeLink ==
  /\ move.step = "link"
  /\ link' = [link EXCEPT ![move.d] = IF @ = "dir" THEN "dir" ELSE "link"]
  /\ Goto("next")
  /\ UNCHANGED <<local, box>> /\ Unmoved

(* off: a link is removed, and a directory made where there is none. *)
TakeOff(d) ==
  /\ move # Idle /\ move.op = "off"
  /\ \/ link[d] \in {"link", "stray"} /\ Take(d, "mkdir") /\ link' = [link EXCEPT ![d] = "absent"]
     \/ link[d] = "dir" /\ Take(d, "next") /\ UNCHANGED link
     \/ link[d] = "absent" /\ Take(d, "mkdir") /\ UNCHANGED link
     \/ link[d] = "other" /\ move.step = "next" /\ d \in move.todo /\ move' = Idle /\ UNCHANGED link
  /\ UNCHANGED <<local, box>> /\ Unmoved

MakeDir ==
  /\ move.step = "mkdir"
  /\ link' = [link EXCEPT ![move.d] = "dir"]
  /\ Goto("next")
  /\ UNCHANGED <<local, box>> /\ Unmoved

(* The end of the loop; incus_start starts Incus only when this run has    *)
(* stopped it, and passes over an error.                                   *)
MoveDone == move # Idle /\ move.step = "next" /\ move.todo = {}

RestartIncus(starts) ==
  /\ MoveDone
  /\ starts \/ (move.stopped /\ faults < MaxFaults)
  /\ faults' = IF starts THEN faults ELSE faults + 1
  /\ move' = Idle
  /\ IF move.stopped /\ starts
     THEN /\ StartIncus
          /\ split' = IF move.op = "off" /\ TwoPlaces("incus") THEN split \cup {"incus"} ELSE split
     ELSE UNCHANGED <<incus, data>>
  /\ UNCHANGED <<cluster, control, moves, runs, writes>>

(* The run is killed, or a command of it fails. *)
KillMove ==
  /\ move # Idle /\ move' = Idle
  /\ Fault
  /\ UNCHANGED <<data, incus, cluster, control>>

-----------------------------------------------------------------------------
(* incus-control.sh sees the VMs while Incus runs on the database they are *)
(* in; only those that run are listed for create, restore and stop.        *)
Sight == IF incus /\ Seen("incus")["database"] = 1 THEN VMs ELSE {}
Listed(op) == IF op \in {"create", "restore", "stop"} THEN Sight \cap running ELSE Sight

(* With no VM in sight a run changes nothing. *)
StartControl(op, name, list) ==
  /\ control = Idle /\ runs < MaxRuns
  /\ list # {}
  /\ list = Listed(op) \/ (op \in {"stop", "start"} /\ \E v \in Sight : list = {v})
  /\ runs' = runs + 1
  /\ control' = [step |-> "next", op |-> op, name |-> name, list |-> list, todo |-> list,
                 id |-> runs + 1]
  /\ clean' = (clean /\ (op \in {"create", "restore"} => list = VMs))
  /\ UNCHANGED <<data, incus, move, running, disk, snaps, moves, writes, faults>>

VM == Min(control.todo)
Working(step, op) == control.step = step /\ control.op = op /\ control.todo # {}
NextVM == control' = [control EXCEPT !.step = "next", !.todo = @ \ {VM}]
GotoVM(step) == control' = [control EXCEPT !.step = step]
Fail == control' = Idle /\ clean' = FALSE
Ours == UNCHANGED <<data, incus, move, bounds>>

(* A snapshot whose name the VM already has is refused. *)
CreateSnapshot ==
  /\ Working("next", "create")
  /\ IF VM \in Sight /\ snaps[VM][control.name] = 0
     THEN /\ snaps' = [snaps EXCEPT ![VM][control.name] = control.id]
          /\ NextVM /\ UNCHANGED clean
     ELSE Fail /\ UNCHANGED snaps
  /\ UNCHANGED <<running, disk>> /\ Ours

HasSnapshot == VM \in Sight /\ snaps[VM][control.name] # 0

(* Mistake: the VMs without the snapshot are passed over. *)
SkipMissing ==
  /\ Working("next", "restore")
  /\ IF HasSnapshot THEN GotoVM("stop") ELSE NextVM
  /\ UNCHANGED cluster /\ Ours

FindSnapshot ==
  /\ Working("next", "restore")
  /\ IF HasSnapshot THEN GotoVM("stop") /\ UNCHANGED clean ELSE Fail
  /\ UNCHANGED <<running, disk, snaps>> /\ Ours

(* An error of stop is passed over. *)
StopVM(op, step) ==
  /\ Working(step, op)
  /\ running' = IF VM \in Sight THEN running \ {VM} ELSE running
  /\ IF op = "stop" THEN NextVM ELSE GotoVM("restore")
  /\ UNCHANGED <<disk, snaps, clean>> /\ Ours

RestoreSnapshot ==
  /\ Working("restore", "restore")
  /\ IF HasSnapshot
     THEN /\ disk' = [disk EXCEPT ![VM] = snaps[VM][control.name]]
          /\ GotoVM("start") /\ UNCHANGED clean
     ELSE Fail /\ UNCHANGED disk
  /\ UNCHANGED <<running, snaps>> /\ Ours

(* Mistake: restore leaves the starting for later. *)
StartOnly(op, step) ==
  /\ Working(step, op)
  /\ IF op = "restore" \/ VM \in Sight \ running THEN NextVM /\ UNCHANGED clean ELSE Fail
  /\ running' = IF op = "restore" \/ VM \notin Sight THEN running ELSE running \cup {VM}
  /\ UNCHANGED <<disk, snaps>> /\ Ours

(* start refuses a VM that runs. *)
StartVM(op, step) ==
  /\ Working(step, op)
  /\ IF VM \in Sight \ running
     THEN running' = running \cup {VM} /\ NextVM /\ UNCHANGED clean
     ELSE Fail /\ UNCHANGED running
  /\ UNCHANGED <<disk, snaps>> /\ Ours

(* What cannot be listed counts as not there. *)
DeleteSnapshot ==
  /\ Working("next", "delete")
  /\ snaps' = IF VM \in Sight THEN [snaps EXCEPT ![VM][control.name] = 0] ELSE snaps
  /\ NextVM
  /\ UNCHANGED <<running, disk, clean>> /\ Ours

ControlDone == control # Idle /\ control.step = "next" /\ control.todo = {}

ControlLeaves ==
  /\ ControlDone
  /\ control' = Idle
  /\ UNCHANGED cluster /\ Ours

KillControl ==
  /\ control # Idle /\ control.todo # {}
  /\ Fail /\ Fault
  /\ UNCHANGED <<data, incus, move, running, disk, snaps>>

-----------------------------------------------------------------------------
MoveStep ==
  \/ \E op \in {"on", "off"}, stops \in BOOLEAN : StartMove(op, stops)
  \/ \E d \in Dirs : TakeOn(d) \/ TakeOff(d)
  \/ \E f \in Files : MoveFile(f)
  \/ RemoveDir \/ MakeLink \/ MakeDir \/ KillMove
  \/ \E starts \in BOOLEAN : RestartIncus(starts)

ControlStep ==
  \/ \E op \in {"create", "restore", "delete", "stop", "start"}, name \in Names,
        list \in SUBSET VMs : StartControl(op, name, list)
  \/ CreateSnapshot \/ FindSnapshot \/ RestoreSnapshot \/ DeleteSnapshot
  \/ StopVM("restore", "stop") \/ StopVM("stop", "next")
  \/ StartVM("restore", "start") \/ StartVM("start", "next")
  \/ ControlLeaves \/ KillControl

Next ==
  \/ MoveStep \/ ControlStep \/ StartByHand
  \/ \E d \in Dirs, f \in Files : Write(d, f)

Spec == Init /\ [][Next]_vars

-----------------------------------------------------------------------------
(* When on has handled its pairs every directory is a link, and behind it  *)
(* is the version last written of every file, whatever runs were           *)
(* interrupted before, unless the directory was used while its data was in *)
(* two places.                                                             *)
OnIsWhole ==
  MoveDone /\ move.op = "on" =>
    \A d \in Dirs \ split : link[d] = "link" /\ box[d] = latest[d]

(* Incus never runs on a directory that is half moved or half empty, with  *)
(* the same exception.                                                     *)
IncusSeesItsData == incus /\ "incus" \notin split => Seen("incus") = latest["incus"]

(* rsync does not compare ages: no file on the box is ever replaced by an  *)
(* older one, or removed.                                                  *)
BoxNeverGoesBack == [][\A d \in Dirs, f \in Files : box'[d][f] >= box[d][f]]_vars

(* When restore is complete its VMs run on the snapshot asked for, and all *)
(* VMs on the snapshots of one and the same create, unless a run failed or *)
(* a VM was down when a create or restore began.                           *)
RestoreIsWhole ==
  ControlDone /\ control.op = "restore" =>
    /\ \A v \in control.list :
         v \in running /\ disk[v] = snaps[v][control.name] /\ disk[v] # 0
    /\ clean => \E id \in 1 .. MaxRuns : \A v \in VMs : v \in running /\ disk[v] = id

(* A restore never has more than one of its VMs down, and so leaves at     *)
(* most one down when it fails or is killed.                               *)
OneVMDown ==
  control # Idle /\ control.op = "restore" => Cardinality(control.list \ running) <= 1

=============================================================================
