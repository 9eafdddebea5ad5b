---------------------------- MODULE IncusBoxProofs ----------------------------
(***************************************************************************)
(* Theorems about the two Incus scripts, for any directories, files and    *)
(* VMs and any number of runs, kills, writes and starts by hand.  The two  *)
(* scripts hardly meet: the proof has one invariant about the data of the  *)
(* machine and one about the snapshots of the VMs.                         *)
(***************************************************************************)
EXTENDS IncusBox, FiniteSetTheorems, WellFoundedInduction, TLAPS

-----------------------------------------------------------------------------
(* A file below the local path is the newest there is, and never older     *)
(* than the box; without one the box has the newest.                       *)
Newest ==
  \A d \in Dirs, f \in Files :
    /\ box[d][f] <= latest[d][f]
    /\ local[d][f] # 0 => local[d][f] >= box[d][f]
    /\ local[d][f] <= latest[d][f]
    /\ d \notin split => latest[d][f] = IF local[d][f] # 0 THEN local[d][f] ELSE box[d][f]

(* rsync has a list of files that are there, and of all of them unless the *)
(* directory is written to under its hands.                                *)
Rsyncing ==
  move.step = "rsync" =>
    /\ link[move.d] = "dir"
    /\ \A f \in move.files : local[move.d][f] # 0
    /\ move.d \notin split => move.files = Present(local[move.d])

(* Before ln the path is free, unless the directory came back.             *)
Linking == move.step = "link" /\ move.d \notin split => link[move.d] = "absent"

(* Only off makes directories.                                             *)
Making == move.step = "mkdir" => move.op = "off"

(* The directories on has dealt with are links.                            *)
Linked ==
  move # Idle /\ move.op = "on" =>
    \A d \in Dirs \ split : d \in move.todo \/ At(d) \/ link[d] = "link"

(* Incus is down during a move, and sees everything when it is up.         *)
IncusInv ==
  incus /\ "incus" \notin split =>
    /\ move = Idle
    /\ link["incus"] = "link" \/ box["incus"] = NoFiles

DataInv == TypeOK /\ Newest /\ Rsyncing /\ Linking /\ Making /\ Linked /\ IncusInv

(* The VM in hand is the only one of a restore that may be down.           *)
HandInv ==
  control # Idle =>
    /\ control.todo \subseteq control.list /\ control.list # {}
    /\ control.step # "next" => control.todo # {}
    /\ control.op # "restore" => control.step = "next"
    /\ control.id \in 1 .. MaxRuns

Restoring ==
  control # Idle /\ control.op = "restore" =>
    /\ \A v \in control.list \ running : control.step \in {"restore", "start"} /\ v = VM
    /\ \A v \in control.list :
         v \notin control.todo \/ (control.step = "start" /\ v = VM) =>
           disk[v] = snaps[v][control.name] /\ disk[v] # 0

(* While no run failed or left out a VM, the snapshots of a name are of    *)
(* one create, those still to be replaced by the create under way aside.   *)
Creating(n) == control # Idle /\ control.op = "create" /\ control.name = n

OneCreate ==
  /\ \A v \in VMs, n \in Names : snaps[v][n] \in 0 .. MaxRuns
  /\ \A n \in Names : Creating(n) =>
       \A v \in control.list \ control.todo : snaps[v][n] = control.id
  /\ clean /\ control # Idle /\ control.op \in {"create", "restore"} => control.list = VMs
  /\ clean => \A n \in Names, u, v \in VMs :
       \/ snaps[u][n] = 0 \/ snaps[v][n] = 0 \/ snaps[u][n] = snaps[v][n]
       \/ Creating(n) /\ (u \in control.todo \/ v \in control.todo)

SnapInv == TypeOK /\ runs <= MaxRuns /\ HandInv /\ Restoring /\ OneCreate

-----------------------------------------------------------------------------
(* Types: what the relocation and what the control script may change.      *)
DataOK ==
  /\ link \in [Dirs -> {"absent", "dir", "link", "stray", "other"}]
  /\ local \in [Dirs -> Versions] /\ box \in [Dirs -> Versions] /\ latest \in [Dirs -> Versions]
  /\ \A d \in Dirs : link[d] # "dir" => local[d] = NoFiles
  /\ split \subseteq Dirs /\ incus \in BOOLEAN

ClusterOK ==
  /\ running \subseteq VMs /\ disk \in [VMs -> Nat] /\ snaps \in [VMs -> [Names -> Nat]]
  /\ clean \in BOOLEAN

BoundsOK == moves \in Nat /\ runs \in Nat /\ writes \in Nat /\ faults \in Nat

LEMMA TypeParts ==
  TypeOK <=> /\ DataOK /\ ClusterOK /\ BoundsOK
             /\ move \in Move \cup {Idle} /\ control \in Control \cup {Idle}
  BY DEF TypeOK, DataOK, ClusterOK, BoundsOK

LEMMA TypeOfParts ==
  ASSUME DataOK', ClusterOK', BoundsOK', move' \in Move \cup {Idle},
         control' \in Control \cup {Idle}
  PROVE  TypeOK'
  BY DEF TypeOK, DataOK, ClusterOK, BoundsOK

LEMMA TypeInit == Init => TypeOK
<1> SUFFICES ASSUME Init PROVE TypeOK
  OBVIOUS
<1>1. link \in [Dirs -> {"absent", "dir", "stray", "other"}]
  BY BoxAssumption DEF Init
<1>2. [f \in Files |-> 1] \in Versions /\ NoFiles \in Versions
  BY DEF Versions, NoFiles
<1> QED BY <1>1, <1>2 DEF Init, TypeOK

(* A script that is not idle has its fields.                               *)
LEMMA MoveShape ==
  ASSUME TypeOK, move # Idle
  PROVE  /\ move \in Move /\ move.step \in {"next", "rsync", "link", "mkdir"}
         /\ move.op \in {"on", "off"} /\ move.d \in Dirs /\ move.todo \subseteq Dirs
         /\ move.files \subseteq Files /\ move.stopped \in BOOLEAN
  BY DEF TypeOK, Move

LEMMA ControlShape ==
  ASSUME TypeOK, control # Idle
  PROVE  /\ control \in Control /\ control.step \in {"next", "stop", "restore", "start"}
         /\ control.op \in {"create", "restore", "delete", "stop", "start"}
         /\ control.name \in Names /\ control.list \subseteq VMs /\ control.todo \subseteq VMs
         /\ control.id \in Nat
  BY DEF TypeOK, Control

(* The VM in hand is one of those still to do.                             *)
LEMMA InHand ==
  ASSUME NEW S, S \subseteq VMs, S # {}
  PROVE  Min(S) \in S
<1>1. S \subseteq Nat
  BY BoxAssumption
<1>2. PICK n \in S : \A m \in S : <<m, n>> \notin OpToRel(<, Nat)
  BY <1>1, NatLessThanWellFounded, WFMin
<1>3. ASSUME NEW m \in S PROVE n <= m
  <2>1. ~ (m < n)
    BY <1>1, <1>2 DEF OpToRel
  <2> QED BY <1>1, <2>1
<1> QED BY <1>2, <1>3 DEF Min

LEMMA PutType ==
  ASSUME DataOK, NEW d \in Dirs, NEW f \in Files, NEW v \in Nat, Put(d, f, v)
  PROVE  /\ link' \in [Dirs -> {"absent", "dir", "link", "stray", "other"}]
         /\ local' \in [Dirs -> Versions] /\ box' \in [Dirs -> Versions]
         /\ latest' \in [Dirs -> Versions]
         /\ \A e \in Dirs : link'[e] # "dir" => local'[e] = NoFiles
<1>1. \A s \in [Dirs -> Versions] : [s EXCEPT ![d][f] = v] \in [Dirs -> Versions]
  BY DEF Versions
<1>2. latest' \in [Dirs -> Versions]
  BY <1>1 DEF Put, DataOK
<1>3. CASE link[d] = "link"
  BY <1>1, <1>2, <1>3 DEF Put, DataOK
<1>4. CASE link[d] # "link"
  <2>1. /\ local' = [local EXCEPT ![d][f] = v] /\ link' = [link EXCEPT ![d] = "dir"]
        /\ box' = box
    BY <1>4 DEF Put
  <2>2. \A e \in Dirs : link'[e] # "dir" => e # d /\ link[e] # "dir" /\ local'[e] = local[e]
    BY <2>1 DEF DataOK
  <2>3. local' \in [Dirs -> Versions]
    BY <1>1, <2>1 DEF DataOK
  <2> QED BY <1>2, <2>1, <2>2, <2>3 DEF DataOK
<1> QED BY <1>3, <1>4

LEMMA StartIncusType ==
  ASSUME DataOK, StartIncus
  PROVE  /\ link' \in [Dirs -> {"absent", "dir", "link", "stray", "other"}]
         /\ local' \in [Dirs -> Versions] /\ box' \in [Dirs -> Versions]
         /\ latest' \in [Dirs -> Versions]
         /\ \A e \in Dirs : link'[e] # "dir" => local'[e] = NoFiles
         /\ incus' = TRUE
<1>1. "incus" \in Dirs /\ "database" \in Files
  BY BoxAssumption
<1>2. latest["incus"]["database"] + 1 \in Nat
  BY <1>1 DEF DataOK, Versions
<1>3. CASE Seen("incus")["database"] = 0
  BY <1>1, <1>2, <1>3, PutType DEF StartIncus
<1>4. CASE Seen("incus")["database"] # 0
  BY <1>4 DEF StartIncus, DataOK
<1> QED BY <1>3, <1>4 DEF StartIncus

LEMMA WriteType ==
  ASSUME TypeOK, NEW d \in Dirs, NEW f \in Files, Write(d, f)
  PROVE  TypeOK'
<1>1. DataOK /\ latest[d][f] + 1 \in Nat
  BY TypeParts DEF DataOK, Versions
<1>2. DataOK'
  BY <1>1, PutType DEF Write, DataOK
<1>3. ClusterOK' /\ BoundsOK'
  BY TypeParts DEF Write, cluster, ClusterOK, BoundsOK
<1> QED BY <1>2, <1>3, TypeParts, TypeOfParts DEF Write

LEMMA ByHandType ==
  ASSUME TypeOK, StartByHand
  PROVE  TypeOK'
<1>1. DataOK /\ "incus" \in Dirs
  BY TypeParts, BoxAssumption
<1>2. DataOK'
  BY <1>1, StartIncusType DEF StartByHand, DataOK
<1>3. ClusterOK' /\ BoundsOK'
  BY TypeParts DEF StartByHand, cluster, ClusterOK, BoundsOK
<1> QED BY <1>2, <1>3, TypeParts, TypeOfParts DEF StartByHand

(* A step of the relocation, its data aside.                               *)
LEMMA MoveFrame ==
  ASSUME TypeOK, DataOK', move' \in Move \cup {Idle}, BoundsOK', UNCHANGED <<cluster, control>>
  PROVE  TypeOK'
<1>1. ClusterOK'
  BY TypeParts DEF cluster, ClusterOK
<1> QED BY <1>1, TypeParts, TypeOfParts

LEMMA TakeType ==
  ASSUME TypeOK, move # Idle, NEW d \in Dirs, NEW step \in {"next", "rsync", "link", "mkdir"},
         Take(d, step)
  PROVE  move' \in Move
<1>1. Present(local[d]) \subseteq Files
  BY DEF Present
<1> QED BY <1>1, MoveShape DEF Take, Move

LEMMA MoveType ==
  ASSUME TypeOK, MoveStep
  PROVE  TypeOK'
<1>1. DataOK /\ BoundsOK /\ "incus" \in Dirs
  BY TypeParts, BoxAssumption
<1>2. ASSUME NEW op \in {"on", "off"}, NEW stops \in BOOLEAN, StartMove(op, stops) PROVE TypeOK'
  <2>1. move' \in Move
    BY <1>1, <1>2 DEF StartMove, Move, DataOK
  <2>2. DataOK' /\ BoundsOK'
    BY <1>1, <1>2 DEF StartMove, DataOK, BoundsOK
  <2> QED BY <1>2, <2>1, <2>2, MoveFrame DEF StartMove
<1>3. ASSUME NEW d \in Dirs, TakeOn(d) \/ TakeOff(d) PROVE TypeOK'
  <2>1. move # Idle /\ UNCHANGED <<local, box>> /\ Unmoved
    BY <1>3 DEF TakeOn, TakeOff
  <2>2. move' \in Move \cup {Idle}
    BY <1>3, <2>1, TakeType DEF TakeOn, TakeOff
  <2>3. \/ link' = link
        \/ link[d] # "dir" /\ \E p \in {"link", "absent"} : link' = [link EXCEPT ![d] = p]
    BY <1>3 DEF TakeOn, TakeOff
  <2>4. DataOK' /\ BoundsOK'
    BY <1>1, <2>1, <2>3 DEF Unmoved, bounds, DataOK, BoundsOK
  <2> QED BY <2>1, <2>2, <2>4, MoveFrame DEF Unmoved
<1>4. ASSUME NEW f \in Files, MoveFile(f) PROVE TypeOK'
  <2>1. move # Idle /\ UNCHANGED link /\ Unmoved /\ move.d \in Dirs
    BY <1>4, MoveShape DEF MoveFile, Idle
  <2>2. move' \in Move
    BY <1>4, <2>1, MoveShape DEF MoveFile, Move
  <2>3. local[move.d][f] \in Nat
    BY <1>1, <2>1 DEF DataOK, Versions
  <2>4. box' \in [Dirs -> Versions] /\ local' \in [Dirs -> Versions]
    BY <1>1, <1>4, <2>1, <2>3 DEF MoveFile, DataOK, Versions
  <2>5. \A d \in Dirs : link[d] # "dir" => local'[d] = NoFiles
    <3> SUFFICES ASSUME NEW d \in Dirs, link[d] # "dir" PROVE local'[d] = NoFiles
      OBVIOUS
    <3>1. local[d] = NoFiles
      BY <1>1 DEF DataOK
    <3>2. local' = [local EXCEPT ![move.d][f] = 0]
      BY <1>4 DEF MoveFile
    <3> QED BY <1>1, <2>1, <3>1, <3>2 DEF DataOK, NoFiles
  <2>6. DataOK' /\ BoundsOK'
    BY <1>1, <2>1, <2>4, <2>5 DEF Unmoved, bounds, DataOK, BoundsOK
  <2> QED BY <2>1, <2>2, <2>6, MoveFrame DEF Unmoved
<1>5. ASSUME RemoveDir \/ MakeLink \/ MakeDir PROVE TypeOK'
  <2>1. move # Idle /\ box' = box /\ Unmoved /\ move.d \in Dirs
    BY <1>5, MoveShape DEF RemoveDir, MakeLink, MakeDir, Idle
  <2>2. move' \in Move
    BY <1>5, <2>1, MoveShape DEF RemoveDir, MakeLink, MakeDir, Goto, Move
  <2>3. NoFiles \in Versions
    BY DEF NoFiles, Versions
  <2>4. CASE RemoveDir
    <3>1. DataOK' /\ BoundsOK'
      BY <1>1, <2>1, <2>3, <2>4 DEF RemoveDir, Unmoved, bounds, DataOK, BoundsOK
    <3> QED BY <2>1, <2>2, <3>1, MoveFrame DEF Unmoved
  <2>5. CASE MakeLink \/ MakeDir
    <3>1. /\ local' = local
          /\ \/ link' = [link EXCEPT ![move.d] = "dir"]
             \/ link[move.d] # "dir" /\ link' = [link EXCEPT ![move.d] = "link"]
      BY <1>1, <2>1, <2>5 DEF MakeLink, MakeDir, DataOK
    <3>2. DataOK' /\ BoundsOK'
      BY <1>1, <2>1, <3>1 DEF Unmoved, bounds, DataOK, BoundsOK
    <3> QED BY <2>1, <2>2, <3>2, MoveFrame DEF Unmoved
  <2> QED BY <1>5, <2>4, <2>5
<1>6. CASE KillMove
  <2>1. DataOK' /\ BoundsOK' /\ move' = Idle
    BY <1>1, <1>6 DEF KillMove, Fault, data, DataOK, BoundsOK
  <2> QED BY <1>6, <2>1, MoveFrame DEF KillMove
<1>7. ASSUME NEW starts \in BOOLEAN, RestartIncus(starts) PROVE TypeOK'
  <2>1. DataOK'
    BY <1>1, <1>7, StartIncusType DEF RestartIncus, data, DataOK
  <2>2. BoundsOK' /\ move' = Idle
    BY <1>1, <1>7 DEF RestartIncus, BoundsOK
  <2> QED BY <1>7, <2>1, <2>2, MoveFrame DEF RestartIncus
<1> QED BY <1>2, <1>3, <1>4, <1>5, <1>6, <1>7 DEF MoveStep

LEMMA ControlType ==
  ASSUME TypeOK, ControlStep
  PROVE  TypeOK'
<1>1. ClusterOK /\ BoundsOK /\ DataOK
  BY TypeParts
<1> DEFINE Framed == ClusterOK' /\ control' \in Control \cup {Idle} /\ Ours
<1>2. Framed => TypeOK'
  <2> SUFFICES ASSUME Framed PROVE TypeOK'
    OBVIOUS
  <2>1. DataOK' /\ BoundsOK'
    BY <1>1 DEF Ours, data, bounds, DataOK, BoundsOK
  <2> QED BY <2>1, TypeParts, TypeOfParts DEF Ours
<1>3. ASSUME NEW op \in {"create", "restore", "delete", "stop", "start"}, NEW name \in Names,
             NEW list \in SUBSET VMs, StartControl(op, name, list)
      PROVE  TypeOK'
  <2>1. control' \in Control
    BY <1>1, <1>3 DEF StartControl, Control, BoundsOK
  <2>2. clean' \in BOOLEAN
    BY <1>3, Zenon DEF StartControl
  <2>3. ClusterOK'
    BY <1>1, <1>3, <2>2 DEF StartControl, ClusterOK
  <2>4. DataOK' /\ BoundsOK'
    BY <1>1, <1>3 DEF StartControl, data, DataOK, BoundsOK
  <2> QED BY <1>3, <2>1, <2>3, <2>4, TypeParts, TypeOfParts DEF StartControl
<1>4. ASSUME control # Idle, control.todo # {}
      PROVE  /\ VM \in VMs /\ control \in Control /\ control.name \in Names /\ control.id \in Nat
             /\ \A step \in {"next", "stop", "restore", "start"} : GotoVM(step) => control' \in Control
             /\ NextVM => control' \in Control
             /\ Fail => control' = Idle /\ clean' \in BOOLEAN
  <2>1. VM \in VMs
    BY <1>4, ControlShape, InHand DEF VM
  <2> QED BY <1>4, <2>1, ControlShape DEF GotoVM, NextVM, Fail, Control
<1>5. ASSUME NEW step \in {"next", "stop", "restore", "start"}, NEW op, Working(step, op)
      PROVE  control # Idle /\ control.todo # {}
  BY <1>5 DEF Working, Idle
<1>6. CASE CreateSnapshot
  <2>1. control # Idle /\ control.todo # {}
    BY <1>5, <1>6 DEF CreateSnapshot
  <2> QED BY <1>1, <1>2, <1>4, <1>6, <2>1 DEF CreateSnapshot, ClusterOK
<1>7. CASE FindSnapshot
  <2>1. control # Idle /\ control.todo # {}
    BY <1>5, <1>7 DEF FindSnapshot
  <2> QED BY <1>1, <1>2, <1>4, <1>7, <2>1 DEF FindSnapshot, ClusterOK
<1>8. CASE RestoreSnapshot
  <2>1. control # Idle /\ control.todo # {}
    BY <1>5, <1>8 DEF RestoreSnapshot
  <2> QED BY <1>1, <1>2, <1>4, <1>8, <2>1 DEF RestoreSnapshot, ClusterOK
<1>9. CASE DeleteSnapshot
  <2>1. control # Idle /\ control.todo # {}
    BY <1>5, <1>9 DEF DeleteSnapshot
  <2> QED BY <1>1, <1>2, <1>4, <1>9, <2>1 DEF DeleteSnapshot, ClusterOK
<1>10. ASSUME NEW step \in {"next", "stop"}, NEW op, StopVM(op, step) PROVE TypeOK'
  <2>1. control # Idle /\ control.todo # {}
    BY <1>5, <1>10 DEF StopVM
  <2> QED BY <1>1, <1>2, <1>4, <1>10, <2>1 DEF StopVM, ClusterOK
<1>11. ASSUME NEW step \in {"next", "start"}, NEW op, StartVM(op, step) PROVE TypeOK'
  <2>1. control # Idle /\ control.todo # {}
    BY <1>5, <1>11 DEF StartVM
  <2> QED BY <1>1, <1>2, <1>4, <1>11, <2>1 DEF StartVM, ClusterOK
<1>12. CASE ControlLeaves
  BY <1>1, <1>2, <1>12 DEF ControlLeaves, cluster, ClusterOK
<1>13. CASE KillControl
  <2>1. control' = Idle /\ ClusterOK'
    BY <1>1, <1>13 DEF KillControl, Fail, ClusterOK
  <2>2. DataOK' /\ BoundsOK'
    BY <1>1, <1>13 DEF KillControl, Fault, data, DataOK, BoundsOK
  <2> QED BY <1>13, <2>1, <2>2, TypeParts, TypeOfParts DEF KillControl
<1> QED BY <1>3, <1>6, <1>7, <1>8, <1>9, <1>10, <1>11, <1>12, <1>13 DEF ControlStep

LEMMA TypeNext == TypeOK /\ [Next]_vars => TypeOK'
<1> SUFFICES ASSUME TypeOK, [Next]_vars PROVE TypeOK'
  OBVIOUS
<1>1. CASE UNCHANGED vars
  BY <1>1 DEF vars, data, cluster, bounds, TypeOK
<1> QED BY <1>1, WriteType, ByHandType, MoveType, ControlType DEF Next

(* The scripts keep every variable within its type.                        *)
THEOREM BoxTypeCorrect == Spec => []TypeOK
  BY TypeInit, TypeNext, PTL DEF Spec

-----------------------------------------------------------------------------
(* The data of the machine.                                                *)
LEMMA DataInit == Init => DataInv
<1> SUFFICES ASSUME Init PROVE DataInv
  OBVIOUS
<1>1. TypeOK
  BY TypeInit
<1>2. Newest
  BY DEF Init, Newest, NoFiles
<1>3. move = Idle /\ box["incus"] = NoFiles
  BY BoxAssumption DEF Init
<1> QED BY <1>1, <1>2, <1>3 DEF DataInv, Rsyncing, Linking, Making, Linked, IncusInv, Idle

(* The files, flat for the provers.                                        *)
LEMMA FileTypes ==
  ASSUME TypeOK
  PROVE  /\ link \in [Dirs -> {"absent", "dir", "link", "stray", "other"}]
         /\ local \in [Dirs -> Versions] /\ box \in [Dirs -> Versions] /\ latest \in [Dirs -> Versions]
         /\ \A d \in Dirs, f \in Files :
              local[d][f] \in Nat /\ box[d][f] \in Nat /\ latest[d][f] \in Nat
         /\ \A d \in Dirs, f \in Files : link[d] # "dir" => local[d][f] = 0
         /\ split \subseteq Dirs
  BY DEF TypeOK, Versions, NoFiles

(* A step that does not touch the data, Incus or the relocation.           *)
LEMMA StillData ==
  ASSUME DataInv, TypeOK', UNCHANGED <<data, incus, move>>
  PROVE  DataInv'
<1>1. UNCHANGED <<link, local, box, latest, split>>
  BY DEF data
<1>2. Newest' /\ Rsyncing' /\ Linking' /\ Making' /\ IncusInv'
  BY <1>1 DEF DataInv, Newest, Rsyncing, Linking, Making, IncusInv, Present
<1>3. Linked'
  BY <1>1 DEF DataInv, Linked, At
<1> QED BY <1>2, <1>3 DEF DataInv

(* What writing a file does: the new version is the newest, and it lands   *)
(* on the box only through the link.                                       *)
LEMMA PutFile ==
  ASSUME TypeOK, NEW d \in Dirs, NEW f \in Files, Put(d, f, latest[d][f] + 1)
  PROVE  \A e \in Dirs, g \in Files :
           /\ e = d /\ g = f =>
                /\ latest'[e][g] = latest[e][g] + 1
                /\ \/ link[d] = "link" /\ box'[e][g] = latest[e][g] + 1 /\ local'[e][g] = local[e][g]
                   \/ link[d] # "link" /\ local'[e][g] = latest[e][g] + 1 /\ box'[e][g] = box[e][g]
           /\ ~ (e = d /\ g = f) =>
                /\ latest'[e][g] = latest[e][g] /\ box'[e][g] = box[e][g]
                /\ local'[e][g] = local[e][g]
<1>1. latest' = [latest EXCEPT ![d][f] = latest[d][f] + 1]
  BY DEF Put
<1>2. \/ /\ link[d] = "link" /\ local' = local
         /\ box' = [box EXCEPT ![d][f] = latest[d][f] + 1]
      \/ /\ link[d] # "link" /\ box' = box
         /\ local' = [local EXCEPT ![d][f] = latest[d][f] + 1]
  BY DEF Put
<1>3. \A s \in [Dirs -> Versions], n, e \in Dirs, g \in Files :
        [s EXCEPT ![d][f] = n][e][g] = IF e = d /\ g = f THEN n ELSE s[e][g]
  BY DEF Versions
<1> QED BY <1>1, <1>2, FileTypes DEF Versions

LEMMA PutNewest ==
  ASSUME TypeOK, Newest, NEW d \in Dirs, NEW f \in Files, Put(d, f, latest[d][f] + 1),
         split \subseteq split'
  PROVE  Newest'
<1> SUFFICES ASSUME NEW e \in Dirs, NEW g \in Files
             PROVE  /\ box'[e][g] <= latest'[e][g]
                    /\ local'[e][g] # 0 => local'[e][g] >= box'[e][g]
                    /\ local'[e][g] <= latest'[e][g]
                    /\ e \notin split' =>
                         latest'[e][g] = IF local'[e][g] # 0 THEN local'[e][g] ELSE box'[e][g]
  BY DEF Newest
<1>1. /\ local[e][g] \in Nat /\ box[e][g] \in Nat /\ latest[e][g] \in Nat
      /\ link[e] = "link" => local[e][g] = 0
  BY FileTypes
<1>2. /\ box[e][g] <= latest[e][g]
      /\ local[e][g] # 0 => local[e][g] >= box[e][g]
      /\ local[e][g] <= latest[e][g]
      /\ e \notin split' =>
           latest[e][g] = IF local[e][g] # 0 THEN local[e][g] ELSE box[e][g]
  BY DEF Newest
<1>3. CASE e = d /\ g = f
  <2>1. latest'[e][g] = latest[e][g] + 1
    BY <1>3, PutFile
  <2>2. CASE link[d] = "link"
    <3>1. box'[e][g] = latest[e][g] + 1 /\ local'[e][g] = 0
      BY <1>1, <1>3, <2>2, PutFile
    <3> QED BY <1>1, <2>1, <3>1
  <2>3. CASE link[d] # "link"
    <3>1. local'[e][g] = latest[e][g] + 1 /\ box'[e][g] = box[e][g]
      BY <1>3, <2>3, PutFile
    <3> QED BY <1>1, <1>2, <2>1, <3>1
  <2> QED BY <2>2, <2>3
<1>4. CASE ~ (e = d /\ g = f)
  BY <1>2, <1>4, PutFile
<1> QED BY <1>3, <1>4

LEMMA StartNewest ==
  ASSUME TypeOK, Newest, StartIncus, split \subseteq split'
  PROVE  Newest'
<1>1. "incus" \in Dirs /\ "database" \in Files
  BY BoxAssumption
<1>2. CASE Seen("incus")["database"] = 0
  BY <1>1, <1>2, PutNewest DEF StartIncus
<1>3. CASE Seen("incus")["database"] # 0
  BY <1>3 DEF StartIncus, Newest
<1> QED BY <1>2, <1>3

(* Writing to a directory the relocation is not at, or through its link.   *)
LEMMA PutMoving ==
  ASSUME DataInv, NEW d \in Dirs, NEW f \in Files, Put(d, f, latest[d][f] + 1),
         move' = move, split \subseteq split', At(d) /\ link[d] # "link" => d \in split'
  PROVE  Rsyncing' /\ Linking' /\ Making' /\ Linked'
<1>1. TypeOK
  BY DEF DataInv
<1>2. /\ link' = IF link[d] = "link" THEN link ELSE [link EXCEPT ![d] = "dir"]
      /\ \A e \in Dirs : link[e] \in {"link", "dir"} => link'[e] = link[e]
      /\ \A e \in Dirs : e # d => link'[e] = link[e]
  BY <1>1, FileTypes DEF Put
<1>3. Rsyncing'
  <2> SUFFICES ASSUME move.step = "rsync"
               PROVE  /\ link'[move.d] = "dir"
                      /\ \A g \in move.files : local'[move.d][g] # 0
                      /\ move.d \notin split' => move.files = Present(local'[move.d])
    BY DEF Rsyncing
  <2>1. /\ link[move.d] = "dir" /\ move.d \in Dirs /\ move.files \subseteq Files
        /\ \A g \in move.files : local[move.d][g] # 0
        /\ move.d \notin split => move.files = Present(local[move.d])
    BY <1>1, MoveShape DEF DataInv, Rsyncing, Idle
  <2>2. \A g \in Files : local[move.d][g] # 0 => local'[move.d][g] # 0
    BY <1>1, <2>1, PutFile, FileTypes
  <2>3. ASSUME move.d \notin split' PROVE Present(local'[move.d]) = Present(local[move.d])
    <3>1. move.d # d
      BY <2>1, <2>3 DEF At
    <3> QED BY <1>1, <2>1, <3>1, PutFile DEF Present
  <2> QED BY <1>2, <2>1, <2>2, <2>3
<1>4. Linking'
  <2> SUFFICES ASSUME move.step = "link", move.d \notin split' PROVE link'[move.d] = "absent"
    BY DEF Linking
  <2>1. link[move.d] = "absent" /\ move.d \in Dirs
    BY <1>1, MoveShape DEF DataInv, Linking, Idle
  <2>2. move.d # d
    BY <2>1 DEF At
  <2> QED BY <1>2, <2>1, <2>2
<1>5. Making'
  BY DEF DataInv, Making
<1>6. Linked'
  BY <1>2 DEF DataInv, Linked, At
<1> QED BY <1>3, <1>4, <1>5, <1>6

(* What Incus sees on the way does not come through a write.               *)
LEMMA PutIncus ==
  ASSUME TypeOK, NEW d \in Dirs, NEW f \in Files, Put(d, f, latest[d][f] + 1),
         link["incus"] = "link" \/ box["incus"] = NoFiles
  PROVE  link'["incus"] = "link" \/ box'["incus"] = NoFiles
<1>1. "incus" \in Dirs
  BY BoxAssumption
<1>2. CASE link["incus"] = "link"
  BY <1>1, <1>2, FileTypes DEF Put
<1>3. CASE link["incus"] # "link"
  BY <1>1, <1>3, FileTypes DEF Put
<1> QED BY <1>2, <1>3

LEMMA WriteData ==
  ASSUME DataInv, TypeOK', NEW d \in Dirs, NEW f \in Files, Write(d, f)
  PROVE  DataInv'
<1>1. /\ Put(d, f, latest[d][f] + 1) /\ move' = move /\ incus' = incus
      /\ split \subseteq split' /\ TypeOK /\ (At(d) /\ link[d] # "link" => d \in split')
  BY DEF Write, TwoPlaces, DataInv
<1>2. Newest' /\ Rsyncing' /\ Linking' /\ Making' /\ Linked'
  BY <1>1, PutNewest, PutMoving DEF DataInv
<1>3. IncusInv'
  BY <1>1, PutIncus DEF DataInv, IncusInv
<1> QED BY <1>2, <1>3 DEF DataInv

LEMMA StartIncusSees ==
  ASSUME TypeOK, StartIncus, link["incus"] = "link" \/ box["incus"] = NoFiles
  PROVE  link'["incus"] = "link" \/ box'["incus"] = NoFiles
<1>1. "incus" \in Dirs /\ "database" \in Files
  BY BoxAssumption
<1>2. CASE Seen("incus")["database"] = 0
  BY <1>1, <1>2, PutIncus DEF StartIncus
<1>3. CASE Seen("incus")["database"] # 0
  BY <1>3 DEF StartIncus
<1> QED BY <1>2, <1>3

LEMMA ByHandData ==
  ASSUME DataInv, TypeOK', StartByHand
  PROVE  DataInv'
<1>1. /\ StartIncus /\ move' = move /\ split \subseteq split' /\ TypeOK
      /\ "incus" \notin split' => move = Idle /\ ~ TwoPlaces("incus")
  BY DEF StartByHand, DataInv
<1>2. Newest'
  BY <1>1, StartNewest DEF DataInv
<1>3. Rsyncing' /\ Linking' /\ Making' /\ Linked'
  <2>1. CASE Seen("incus")["database"] = 0
    <3>1. At("incus") => "incus" \in split'
      BY <1>1 DEF At, Idle
    <3> QED BY <1>1, <2>1, <3>1, BoxAssumption, PutMoving DEF StartIncus
  <2>2. CASE Seen("incus")["database"] # 0
    <3>1. UNCHANGED <<link, local, box, latest, move>>
      BY <1>1, <2>2 DEF StartIncus
    <3> QED BY <1>1, <3>1 DEF DataInv, Rsyncing, Linking, Making, Linked, At
  <2> QED BY <2>1, <2>2
<1>4. IncusInv'
  BY <1>1, StartIncusSees DEF IncusInv, TwoPlaces
<1> QED BY <1>2, <1>3, <1>4 DEF DataInv

(* A step of the relocation that does not start Incus.                     *)
LEMMA NewestKept ==
  ASSUME Newest, UNCHANGED <<local, box, latest>>, split \subseteq split'
  PROVE  Newest'
  BY DEF Newest

LEMMA IncusStaysDown ==
  ASSUME DataInv, move # Idle, UNCHANGED <<incus, split>>
  PROVE  IncusInv'
  BY DEF DataInv, IncusInv

LEMMA StartMoveData ==
  ASSUME DataInv, TypeOK', NEW op \in {"on", "off"}, NEW stops \in BOOLEAN, StartMove(op, stops)
  PROVE  DataInv'
<1>1. /\ move'.step = "next" /\ move'.todo = Dirs
      /\ UNCHANGED <<local, box, latest>> /\ split \subseteq split'
      /\ incus' => "incus" \in split'
  BY DEF StartMove
<1>2. Newest'
  BY <1>1, NewestKept DEF DataInv
<1>3. Rsyncing' /\ Linking' /\ Making' /\ Linked' /\ IncusInv'
  BY <1>1 DEF Rsyncing, Linking, Making, Linked, IncusInv
<1> QED BY <1>2, <1>3 DEF DataInv

LEMMA TakeOnData ==
  ASSUME DataInv, TypeOK', NEW d \in Dirs, TakeOn(d)
  PROVE  DataInv'
<1>1. /\ move # Idle /\ move.op = "on" /\ UNCHANGED <<local, box, latest, incus, split>>
      /\ move.step = "next" /\ d \in move.todo
  BY DEF TakeOn, Take, Unmoved
<1>2. Newest' /\ IncusInv' /\ TypeOK
  BY <1>1, NewestKept, IncusStaysDown DEF DataInv
<1>3. \A e \in Dirs \ split : e \in move.todo \/ link[e] = "link"
  BY <1>1 DEF DataInv, Linked, At
<1>4. CASE move' = Idle
  BY <1>2, <1>4 DEF DataInv, Rsyncing, Linking, Making, Linked, Idle
<1>5. ASSUME NEW step \in {"next", "rsync", "link"}, Take(d, step),
             step = "next" => link' = [link EXCEPT ![d] = "link"],
             step = "rsync" => link[d] = "dir" /\ link' = link,
             step = "link" => link[d] = "absent" /\ link' = link
      PROVE  DataInv'
  <2>1. /\ move'.step = step /\ move'.d = d /\ move'.todo = move.todo \ {d}
        /\ move'.files = Present(local[d])
    BY <1>2, <1>1, <1>5, MoveShape DEF Take, Move
  <2>2. Rsyncing' /\ Linking' /\ Making'
    BY <1>1, <1>5, <2>1 DEF Rsyncing, Linking, Making, Present
  <2>3. Linked'
    <3> SUFFICES ASSUME NEW e \in Dirs \ split'
                 PROVE  e \in move'.todo \/ At(e)' \/ link'[e] = "link"
      BY DEF Linked
    <3>1. e \in move.todo \/ link[e] = "link"
      BY <1>1, <1>3
    <3>2. CASE e = d
      BY <1>2, <1>5, <2>1, <3>2, FileTypes DEF At
    <3>3. CASE e # d
      BY <1>2, <1>5, <2>1, <3>1, <3>3, FileTypes
    <3> QED BY <3>2, <3>3
  <2> QED BY <1>2, <2>2, <2>3 DEF DataInv
<1> QED BY <1>4, <1>5 DEF TakeOn

LEMMA TakeOffData ==
  ASSUME DataInv, TypeOK', NEW d \in Dirs, TakeOff(d)
  PROVE  DataInv'
<1>1. /\ move # Idle /\ move.op = "off" /\ UNCHANGED <<local, box, latest, incus, split>>
  BY DEF TakeOff, Unmoved
<1>2. Newest' /\ IncusInv' /\ TypeOK
  BY <1>1, NewestKept, IncusStaysDown DEF DataInv
<1>3. CASE move' = Idle
  BY <1>2, <1>3 DEF DataInv, Rsyncing, Linking, Making, Linked, Idle
<1>4. ASSUME NEW step \in {"next", "mkdir"}, Take(d, step) PROVE DataInv'
  <2>1. move'.step = step /\ move'.op = "off"
    BY <1>1, <1>2, <1>4, MoveShape DEF Take, Move
  <2>2. Rsyncing' /\ Linking' /\ Making' /\ Linked'
    BY <2>1 DEF Rsyncing, Linking, Making, Linked
  <2> QED BY <1>2, <2>2 DEF DataInv
<1> QED BY <1>3, <1>4 DEF TakeOff

(* A file moves to the box whole, and is the newest there then.            *)
LEMMA MoveFileMoves ==
  ASSUME DataInv, NEW f \in Files, MoveFile(f)
  PROVE  \A e \in Dirs, g \in Files :
           /\ e = move.d /\ g = f =>
                /\ local[e][g] # 0 /\ local'[e][g] = 0
                /\ box'[e][g] = local[e][g] /\ local[e][g] >= box[e][g]
           /\ ~ (e = move.d /\ g = f) => local'[e][g] = local[e][g] /\ box'[e][g] = box[e][g]
<1>1. TypeOK /\ move # Idle /\ move.d \in Dirs
  BY MoveShape DEF DataInv, MoveFile, Idle
<1>2. local[move.d][f] # 0 /\ local[move.d][f] >= box[move.d][f]
  BY <1>1 DEF DataInv, Rsyncing, Newest, MoveFile
<1>3. /\ box' = [box EXCEPT ![move.d][f] = local[move.d][f]]
      /\ local' = [local EXCEPT ![move.d][f] = 0]
  BY DEF MoveFile
<1> QED BY <1>1, <1>2, <1>3, FileTypes DEF Versions

LEMMA MoveFileData ==
  ASSUME DataInv, TypeOK', NEW f \in Files, MoveFile(f)
  PROVE  DataInv'
<1>1. /\ TypeOK /\ move # Idle /\ move.d \in Dirs /\ move.step = "rsync"
      /\ f \in move.files /\ move.files \subseteq Files
      /\ UNCHANGED <<link, latest, incus, split>>
  BY MoveShape DEF DataInv, MoveFile, Unmoved, Idle
<1>2. /\ move'.step = "rsync" /\ move'.d = move.d /\ move'.files = move.files \ {f}
      /\ move'.op = move.op /\ move'.todo = move.todo
  BY <1>1, MoveShape DEF MoveFile, Move
<1>3. Newest'
  <2> SUFFICES ASSUME NEW e \in Dirs, NEW g \in Files
               PROVE  /\ box'[e][g] <= latest'[e][g]
                      /\ local'[e][g] # 0 => local'[e][g] >= box'[e][g]
                      /\ local'[e][g] <= latest'[e][g]
                      /\ e \notin split' =>
                           latest'[e][g] = IF local'[e][g] # 0 THEN local'[e][g] ELSE box'[e][g]
    BY DEF Newest
  <2>1. /\ box[e][g] <= latest[e][g]
        /\ local[e][g] # 0 => local[e][g] >= box[e][g]
        /\ local[e][g] <= latest[e][g]
        /\ e \notin split => latest[e][g] = IF local[e][g] # 0 THEN local[e][g] ELSE box[e][g]
        /\ local[e][g] \in Nat /\ box[e][g] \in Nat /\ latest[e][g] \in Nat
    BY <1>1, FileTypes DEF DataInv, Newest
  <2>2. CASE e = move.d /\ g = f
    BY <1>1, <2>1, <2>2, MoveFileMoves
  <2>3. CASE ~ (e = move.d /\ g = f)
    BY <1>1, <2>1, <2>3, MoveFileMoves
  <2> QED BY <2>2, <2>3
<1>4. Rsyncing'
  <2>1. link'[move'.d] = "dir"
    BY <1>1, <1>2 DEF DataInv, Rsyncing
  <2>2. \A g \in move'.files : local'[move'.d][g] # 0
    BY <1>1, <1>2, MoveFileMoves DEF DataInv, Rsyncing
  <2>3. Present(local'[move'.d]) = Present(local[move.d]) \ {f}
    BY <1>1, <1>2, MoveFileMoves DEF Present
  <2>4. move.d \notin split => move.files = Present(local[move.d])
    BY <1>1 DEF DataInv, Rsyncing
  <2> QED BY <1>1, <1>2, <2>1, <2>2, <2>3, <2>4 DEF Rsyncing
<1>5. Linking' /\ Making'
  BY <1>2 DEF Linking, Making
<1>6. Linked'
  BY <1>1, <1>2 DEF DataInv, Linked, At
<1> QED BY <1>1, <1>3, <1>4, <1>5, <1>6, IncusStaysDown DEF DataInv

(* Unless it is used meanwhile, a directory is empty when it is removed.   *)
LEMMA RemoveDirData ==
  ASSUME DataInv, TypeOK', RemoveDir
  PROVE  DataInv'
<1>1. /\ TypeOK /\ move # Idle /\ move.d \in Dirs /\ move.step = "rsync" /\ move.files = {}
      /\ UNCHANGED <<box, latest, incus, split>>
      /\ link' = [link EXCEPT ![move.d] = "absent"]
      /\ local' = [local EXCEPT ![move.d] = NoFiles]
  BY MoveShape DEF DataInv, RemoveDir, Unmoved, Idle
<1>2. /\ move'.step = "link" /\ move'.d = move.d /\ move'.op = move.op /\ move'.todo = move.todo
  BY <1>1, MoveShape DEF RemoveDir, Goto, Move
<1>3. \A e \in Dirs, g \in Files :
        local'[e][g] = IF e = move.d THEN 0 ELSE local[e][g]
  BY <1>1, FileTypes DEF NoFiles
<1>4. move.d \notin split => \A g \in Files : local[move.d][g] = 0
  BY <1>1 DEF DataInv, Rsyncing, Present
<1>5. Newest'
  <2> SUFFICES ASSUME NEW e \in Dirs, NEW g \in Files
               PROVE  /\ box'[e][g] <= latest'[e][g]
                      /\ local'[e][g] # 0 => local'[e][g] >= box'[e][g]
                      /\ local'[e][g] <= latest'[e][g]
                      /\ e \notin split' =>
                           latest'[e][g] = IF local'[e][g] # 0 THEN local'[e][g] ELSE box'[e][g]
    BY DEF Newest
  <2>1. /\ box[e][g] <= latest[e][g]
        /\ local[e][g] # 0 => local[e][g] >= box[e][g]
        /\ local[e][g] <= latest[e][g]
        /\ e \notin split => latest[e][g] = IF local[e][g] # 0 THEN local[e][g] ELSE box[e][g]
        /\ local[e][g] \in Nat /\ box[e][g] \in Nat /\ latest[e][g] \in Nat
    BY <1>1, FileTypes DEF DataInv, Newest
  <2> QED BY <1>1, <1>3, <1>4, <2>1
<1>6. Rsyncing' /\ Linking' /\ Making'
  BY <1>1, <1>2, FileTypes DEF Rsyncing, Linking, Making
<1>7. Linked'
  BY <1>1, <1>2, FileTypes DEF DataInv, Linked, At
<1> QED BY <1>1, <1>5, <1>6, <1>7, IncusStaysDown DEF DataInv

LEMMA MakeData ==
  ASSUME DataInv, TypeOK', MakeLink \/ MakeDir
  PROVE  DataInv'
<1>1. /\ TypeOK /\ move # Idle /\ move.d \in Dirs /\ move.step \in {"link", "mkdir"}
      /\ UNCHANGED <<local, box, latest, incus, split>>
  BY MoveShape DEF DataInv, MakeLink, MakeDir, Unmoved, Idle
<1>2. /\ move'.step = "next" /\ move'.op = move.op /\ move'.todo = move.todo
  BY <1>1, MoveShape DEF MakeLink, MakeDir, Goto, Move
<1>3. Rsyncing' /\ Linking' /\ Making'
  BY <1>2 DEF Rsyncing, Linking, Making
<1>4. Linked'
  <2>1. CASE MakeLink
    <3>1. \A e \in Dirs : e # move.d => link'[e] = link[e]
      BY <1>1, <2>1, FileTypes DEF MakeLink
    <3>2. move.d \notin split => link'[move.d] = "link"
      BY <1>1, <2>1, FileTypes DEF MakeLink, DataInv, Linking
    <3> QED BY <1>1, <1>2, <3>1, <3>2 DEF DataInv, Linked, At
  <2>2. CASE MakeDir
    BY <1>1, <1>2, <2>2 DEF DataInv, Making, MakeDir, Linked
  <2> QED BY <2>1, <2>2
<1> QED BY <1>1, <1>3, <1>4, NewestKept, IncusStaysDown DEF DataInv

LEMMA KillMoveData ==
  ASSUME DataInv, TypeOK', KillMove
  PROVE  DataInv'
<1>1. move # Idle /\ move' = Idle /\ UNCHANGED <<local, box, latest, incus, split>>
  BY DEF KillMove, data
<1>2. Rsyncing' /\ Linking' /\ Making' /\ Linked'
  BY <1>1 DEF Rsyncing, Linking, Making, Linked, Idle
<1> QED BY <1>1, <1>2, NewestKept, IncusStaysDown DEF DataInv

(* When the move starts Incus its directory is a link, or nothing is on    *)
(* the box, or the history notes that it is not.                           *)
LEMMA RestartData ==
  ASSUME DataInv, TypeOK', NEW starts \in BOOLEAN, RestartIncus(starts)
  PROVE  DataInv'
<1>1. /\ TypeOK /\ "incus" \in Dirs /\ move # Idle /\ move.step = "next" /\ move.todo = {}
      /\ move' = Idle
  BY BoxAssumption DEF DataInv, RestartIncus, MoveDone
<1>2. Rsyncing' /\ Linking' /\ Making' /\ Linked'
  BY <1>1 DEF Rsyncing, Linking, Making, Linked, Idle
<1>3. CASE move.stopped /\ starts
  <2>1. /\ StartIncus
        /\ split' = IF move.op = "off" /\ TwoPlaces("incus") THEN split \cup {"incus"} ELSE split
    BY <1>3 DEF RestartIncus
  <2>2. Newest'
    BY <1>1, <2>1, StartNewest DEF DataInv
  <2>3. "incus" \notin split' => link["incus"] = "link" \/ box["incus"] = NoFiles
    <3>1. CASE move.op = "on"
      BY <1>1, <2>1, <3>1 DEF DataInv, Linked, At
    <3>2. CASE move.op = "off"
      BY <2>1, <3>2 DEF TwoPlaces
    <3> QED BY <1>1, <3>1, <3>2, MoveShape
  <2>4. IncusInv'
    BY <1>1, <2>1, <2>3, StartIncusSees DEF IncusInv
  <2> QED BY <1>2, <2>2, <2>4 DEF DataInv
<1>4. CASE ~ (move.stopped /\ starts)
  <2>1. UNCHANGED <<local, box, latest, incus, split>>
    BY <1>4 DEF RestartIncus, data
  <2> QED BY <1>1, <1>2, <2>1, NewestKept, IncusStaysDown DEF DataInv
<1> QED BY <1>3, <1>4

LEMMA DataNext == DataInv /\ [Next]_vars => DataInv'
<1> SUFFICES ASSUME DataInv, [Next]_vars PROVE DataInv'
  OBVIOUS
<1>1. TypeOK'
  BY TypeNext DEF DataInv
<1>2. CASE UNCHANGED vars
  BY <1>1, <1>2, StillData DEF vars
<1>3. CASE MoveStep
  BY <1>1, <1>3, StartMoveData, TakeOnData, TakeOffData, MoveFileData, RemoveDirData, MakeData,
     KillMoveData, RestartData DEF MoveStep
<1>4. CASE ControlStep
  <2>1. UNCHANGED <<data, incus, move>>
    BY <1>4 DEF ControlStep, StartControl, CreateSnapshot, FindSnapshot, RestoreSnapshot,
       DeleteSnapshot, StopVM, StartVM, ControlLeaves, KillControl, Ours
  <2> QED BY <1>1, <2>1, StillData
<1>5. CASE StartByHand
  BY <1>1, <1>5, ByHandData
<1>6. ASSUME NEW d \in Dirs, NEW f \in Files, Write(d, f) PROVE DataInv'
  BY <1>1, <1>6, WriteData
<1> QED BY <1>2, <1>3, <1>4, <1>5, <1>6 DEF Next

(* However often on was killed, repeated and mixed with off, once it has   *)
(* handled its pairs every directory is a link to the newest files, unless *)
(* the directory was used while its data was in two places.                *)
THEOREM BoxHasTheData == Spec => []OnIsWhole
<1>1. DataInv => OnIsWhole
  <2> SUFFICES ASSUME DataInv, MoveDone, move.op = "on", NEW d \in Dirs \ split
               PROVE  link[d] = "link" /\ box[d] = latest[d]
    BY DEF OnIsWhole
  <2>1. link[d] = "link"
    BY DEF DataInv, Linked, MoveDone, At
  <2>2. \A f \in Files : box[d][f] = latest[d][f]
    BY <2>1, FileTypes DEF DataInv, Newest
  <2> QED BY <2>1, <2>2, FileTypes DEF DataInv, Versions
<1> QED BY <1>1, DataInit, DataNext, PTL DEF Spec

(* Incus never runs on half of its data, with the same exception.          *)
THEOREM IncusHasItsData == Spec => []IncusSeesItsData
<1>1. DataInv => IncusSeesItsData
  <2> SUFFICES ASSUME DataInv, incus, "incus" \notin split
               PROVE  Seen("incus") = latest["incus"]
    BY DEF IncusSeesItsData
  <2>1. TypeOK /\ "incus" \in Dirs /\ (link["incus"] = "link" \/ box["incus"] = NoFiles)
    BY BoxAssumption DEF DataInv, IncusInv
  <2>2. \A f \in Files : Seen("incus")[f] = latest["incus"][f]
    BY <2>1, FileTypes DEF DataInv, Newest, Seen, NoFiles
  <2>3. Seen("incus") \in Versions /\ latest["incus"] \in Versions
    BY <2>1, FileTypes DEF Seen
  <2> QED BY <2>2, <2>3 DEF Versions
<1> QED BY <1>1, DataInit, DataNext, PTL DEF Spec

(* No file on the box is ever replaced by an older one or removed.         *)
THEOREM BoxOnlyGrows == Spec => BoxNeverGoesBack
<1>1. DataInv /\ [Next]_vars => \A d \in Dirs, f \in Files : box'[d][f] >= box[d][f]
  <2> SUFFICES ASSUME DataInv, [Next]_vars, NEW d \in Dirs, NEW f \in Files
               PROVE  box'[d][f] >= box[d][f]
    OBVIOUS
  <2>1. TypeOK /\ box[d][f] \in Nat /\ box[d][f] <= latest[d][f] /\ latest[d][f] \in Nat
    BY FileTypes DEF DataInv, Newest
  <2>2. ASSUME NEW e \in Dirs, NEW g \in Files, Put(e, g, latest[e][g] + 1)
        PROVE  box'[d][f] >= box[d][f]
    BY <2>1, <2>2, PutFile
  <2>3. StartIncus => box'[d][f] >= box[d][f]
    BY <2>1, <2>2, BoxAssumption DEF StartIncus
  <2>4. ASSUME NEW g \in Files, MoveFile(g) PROVE box'[d][f] >= box[d][f]
    BY <2>1, <2>4, MoveFileMoves
  <2>5. box' = box => box'[d][f] >= box[d][f]
    BY <2>1
  <2>6. CASE UNCHANGED vars \/ ControlStep
    BY <2>5, <2>6 DEF vars, data, ControlStep, StartControl, CreateSnapshot, FindSnapshot,
       RestoreSnapshot, DeleteSnapshot, StopVM, StartVM, ControlLeaves, KillControl, Ours
  <2>7. CASE MoveStep
    BY <2>3, <2>4, <2>5, <2>7 DEF MoveStep, StartMove, TakeOn, TakeOff, RemoveDir, MakeLink,
       MakeDir, KillMove, RestartIncus, data
  <2>8. CASE StartByHand
    BY <2>3, <2>8 DEF StartByHand
  <2>9. ASSUME NEW e \in Dirs, NEW g \in Files, Write(e, g) PROVE box'[d][f] >= box[d][f]
    BY <2>2, <2>9 DEF Write
  <2> QED BY <2>6, <2>7, <2>8, <2>9 DEF Next
<1> QED BY <1>1, DataInit, DataNext, PTL DEF Spec, BoxNeverGoesBack

-----------------------------------------------------------------------------
(* The snapshots of the VMs.                                               *)
LEMMA SnapInit == Init => SnapInv
<1> SUFFICES ASSUME Init PROVE SnapInv
  OBVIOUS
<1>1. /\ TypeOK /\ runs = 0 /\ control = Idle /\ MaxRuns \in Nat
      /\ \A v \in VMs, n \in Names : snaps[v][n] = 0
  BY TypeInit, BoxAssumption DEF Init
<1> QED BY <1>1 DEF SnapInv, HandInv, Restoring, OneCreate, Creating

(* A step that does not touch the VMs or the control script.               *)
LEMMA StillSnap ==
  ASSUME SnapInv, TypeOK', UNCHANGED <<cluster, control, runs>>
  PROVE  SnapInv'
<1>1. UNCHANGED <<running, disk, snaps, clean, control, runs>>
  BY DEF cluster
<1>2. VM' = VM
  BY <1>1 DEF VM
<1> QED BY <1>1, <1>2 DEF SnapInv, HandInv, Restoring, OneCreate, Creating

(* The next VM, and the next step with the same VM.                        *)
LEMMA HandShape ==
  ASSUME SnapInv, control # Idle, control.todo # {}
  PROVE  /\ VM \in control.todo /\ VM \in control.list /\ VM \in VMs
         /\ control.list \subseteq VMs /\ control.name \in Names /\ control.id \in 1 .. MaxRuns
         /\ NextVM =>
              /\ control' # Idle /\ control'.step = "next" /\ control'.todo = control.todo \ {VM}
              /\ control'.op = control.op /\ control'.name = control.name
              /\ control'.list = control.list /\ control'.id = control.id
         /\ \A step \in {"stop", "restore", "start"} : GotoVM(step) =>
              /\ control' # Idle /\ control'.step = step /\ VM' = VM
              /\ control'.todo = control.todo
              /\ control'.op = control.op /\ control'.name = control.name
              /\ control'.list = control.list /\ control'.id = control.id
<1>1. TypeOK /\ HandInv
  BY DEF SnapInv
<1>2. VM \in control.todo
  BY <1>1, ControlShape, InHand DEF VM
<1>3. /\ VM \in control.list /\ VM \in VMs /\ control.id \in 1 .. MaxRuns
      /\ control \in Control /\ control.list \subseteq VMs /\ control.name \in Names
  BY <1>1, <1>2, ControlShape DEF HandInv
<1>4. ASSUME NextVM
      PROVE  /\ control' # Idle /\ control'.step = "next" /\ control'.todo = control.todo \ {VM}
             /\ control'.op = control.op /\ control'.name = control.name
             /\ control'.list = control.list /\ control'.id = control.id
  <2>1. control' = [control EXCEPT !.step = "next", !.todo = control.todo \ {VM}]
    BY <1>4 DEF NextVM
  <2>2. control'.step = "next"
    BY <1>3, <2>1 DEF Control
  <2> QED BY <1>3, <2>1, <2>2 DEF Control, Idle
<1>5. ASSUME NEW step \in {"stop", "restore", "start"}, GotoVM(step)
      PROVE  /\ control' # Idle /\ control'.step = step /\ VM' = VM
             /\ control'.todo = control.todo
             /\ control'.op = control.op /\ control'.name = control.name
             /\ control'.list = control.list /\ control'.id = control.id
  <2>1. control' = [control EXCEPT !.step = step]
    BY <1>5 DEF GotoVM
  <2>2. control'.step = step /\ control'.todo = control.todo
    BY <1>3, <2>1 DEF Control
  <2>3. VM' = VM
    BY <2>2 DEF VM
  <2> QED BY <1>3, <2>1, <2>2, <2>3 DEF Control, Idle
<1> QED BY <1>2, <1>3, <1>4, <1>5

(* A run that ends, well or badly.                                         *)
LEMMA EndSnap ==
  ASSUME SnapInv, TypeOK', control # Idle, control' = Idle, UNCHANGED <<snaps, runs>>,
         clean' => clean /\ control.todo = {}
  PROVE  SnapInv'
<1>1. HandInv' /\ Restoring'
  BY DEF HandInv, Restoring
<1>2. OneCreate'
  BY DEF SnapInv, OneCreate, Creating
<1> QED BY <1>1, <1>2 DEF SnapInv

LEMMA StartControlSnap ==
  ASSUME SnapInv, TypeOK',
         NEW op \in {"create", "restore", "delete", "stop", "start"}, NEW name \in Names,
         NEW list \in SUBSET VMs, StartControl(op, name, list)
  PROVE  SnapInv'
<1>1. /\ TypeOK /\ control = Idle /\ runs \in Nat /\ MaxRuns \in Nat /\ runs < MaxRuns
      /\ runs' = runs + 1 /\ UNCHANGED <<running, disk, snaps>>
      /\ list # {} /\ (op = "restore" => list \subseteq running)
      /\ clean' => clean /\ (op \in {"create", "restore"} => list = VMs)
  BY BoxAssumption DEF SnapInv, TypeOK, StartControl, Listed
<1>2. /\ control' # Idle /\ control'.step = "next" /\ control'.op = op /\ control'.name = name
      /\ control'.list = list /\ control'.todo = list /\ control'.id = runs + 1
  BY DEF StartControl, Idle
<1>3. runs' <= MaxRuns /\ HandInv'
  BY <1>1, <1>2 DEF HandInv
<1>4. Restoring'
  BY <1>1, <1>2 DEF Restoring
<1>5. OneCreate'
  BY <1>1, <1>2 DEF SnapInv, OneCreate, Creating
<1> QED BY <1>3, <1>4, <1>5 DEF SnapInv

LEMMA CreateSnap ==
  ASSUME SnapInv, TypeOK', CreateSnapshot
  PROVE  SnapInv'
<1>1. /\ control # Idle /\ control.todo # {} /\ control.op = "create" /\ TypeOK
      /\ runs' = runs
  BY DEF SnapInv, CreateSnapshot, Working, Idle, Ours, bounds
<1>2. CASE Fail /\ UNCHANGED snaps
  BY <1>1, <1>2, EndSnap DEF Fail
<1>3. CASE ~ (Fail /\ UNCHANGED snaps)
  <2>1. /\ snaps' = [snaps EXCEPT ![VM][control.name] = control.id] /\ NextVM
        /\ UNCHANGED clean
    BY <1>3 DEF CreateSnapshot
  <2>2. /\ VM \in control.todo /\ VM \in control.list /\ VM \in VMs
        /\ control.name \in Names /\ control.id \in 1 .. MaxRuns
        /\ control' # Idle /\ control'.step = "next" /\ control'.todo = control.todo \ {VM}
        /\ control'.op = control.op /\ control'.name = control.name
        /\ control'.list = control.list /\ control'.id = control.id
    BY <1>1, <2>1, HandShape
  <2>3. \A v \in VMs, n \in Names :
          snaps'[v][n] = IF v = VM /\ n = control.name THEN control.id ELSE snaps[v][n]
    BY <1>1, <2>1, <2>2 DEF TypeOK
  <2>4. HandInv' /\ Restoring'
    BY <1>1, <2>2 DEF SnapInv, HandInv, Restoring
  <2>5. \A v \in VMs, n \in Names : snaps'[v][n] \in 0 .. MaxRuns
    BY <2>2, <2>3 DEF SnapInv, OneCreate
  <2>6. \A n \in Names : Creating(n)' =>
          \A v \in control'.list \ control'.todo : snaps'[v][n] = control'.id
    BY <1>1, <2>2, <2>3, ControlShape DEF SnapInv, OneCreate, Creating
  <2>7. clean' => control'.list = VMs
    BY <1>1, <2>1, <2>2 DEF SnapInv, OneCreate
  <2>8. ASSUME clean', NEW n \in Names, NEW u \in VMs, NEW v \in VMs
        PROVE  \/ snaps'[u][n] = 0 \/ snaps'[v][n] = 0 \/ snaps'[u][n] = snaps'[v][n]
               \/ Creating(n)' /\ (u \in control'.todo \/ v \in control'.todo)
    <3>1. CASE n = control.name
      <4>1. Creating(n)'
        BY <1>1, <2>2, <3>1 DEF Creating
      <4> QED BY <2>6, <2>7, <2>8, <4>1
    <3>2. CASE n # control.name
      BY <2>1, <2>3, <2>8, <3>2 DEF SnapInv, OneCreate, Creating
    <3> QED BY <3>1, <3>2
  <2>9. OneCreate'
    BY <2>5, <2>6, <2>7, <2>8 DEF OneCreate
  <2> QED BY <1>1, <2>4, <2>9 DEF SnapInv
<1> QED BY <1>2, <1>3

(* The steps of restore: on the way to the next one nothing of the         *)
(* snapshots changes.                                                      *)
LEMMA SnapsKept ==
  ASSUME SnapInv, control # Idle, control' # Idle, UNCHANGED <<snaps, clean>>,
         control.op \notin {"create"}, control'.op = control.op, control'.list = control.list
  PROVE  OneCreate'
  BY DEF SnapInv, OneCreate, Creating

LEMMA FindSnap ==
  ASSUME SnapInv, TypeOK', FindSnapshot
  PROVE  SnapInv'
<1>1. /\ control # Idle /\ control.todo # {} /\ control.op = "restore" /\ control.step = "next"
      /\ UNCHANGED <<running, disk, snaps, runs>>
  BY DEF FindSnapshot, Working, Idle, Ours, bounds
<1>2. CASE Fail
  BY <1>1, <1>2, EndSnap DEF Fail
<1>3. CASE ~ Fail
  <2>1. GotoVM("stop") /\ UNCHANGED clean
    BY <1>3 DEF FindSnapshot
  <2>2. /\ control' # Idle /\ control'.step = "stop" /\ control'.todo = control.todo
        /\ control'.op = control.op /\ control'.name = control.name
        /\ control'.list = control.list /\ control'.id = control.id
    BY <1>1, <2>1, HandShape
  <2>3. HandInv' /\ Restoring'
    BY <1>1, <2>2 DEF SnapInv, HandInv, Restoring
  <2> QED BY <1>1, <2>1, <2>2, <2>3, SnapsKept DEF SnapInv
<1> QED BY <1>2, <1>3

LEMMA StopSnap ==
  ASSUME SnapInv, TypeOK', StopVM("restore", "stop") \/ StopVM("stop", "next")
  PROVE  SnapInv'
<1>1. /\ control # Idle /\ control.todo # {} /\ UNCHANGED <<disk, snaps, clean, runs>>
      /\ running \ {VM} \subseteq running'
  BY DEF StopVM, Working, Idle, Ours, bounds
<1>2. CASE StopVM("restore", "stop")
  <2>1. control.op = "restore" /\ control.step = "stop" /\ GotoVM("restore")
    BY <1>2 DEF StopVM, Working
  <2>2. /\ control' # Idle /\ control'.step = "restore" /\ control'.todo = control.todo
        /\ control'.op = control.op /\ control'.name = control.name
        /\ control'.list = control.list /\ control'.id = control.id /\ VM' = VM
    BY <1>1, <2>1, HandShape
  <2>3. HandInv' /\ Restoring'
    BY <1>1, <2>1, <2>2 DEF SnapInv, HandInv, Restoring
  <2> QED BY <1>1, <2>1, <2>2, <2>3, SnapsKept DEF SnapInv
<1>3. CASE StopVM("stop", "next")
  <2>1. control.op = "stop" /\ NextVM
    BY <1>3 DEF StopVM, Working
  <2>2. /\ control' # Idle /\ control'.step = "next" /\ control'.todo = control.todo \ {VM}
        /\ control'.op = control.op /\ control'.name = control.name
        /\ control'.list = control.list /\ control'.id = control.id
    BY <1>1, <2>1, HandShape
  <2>3. HandInv' /\ Restoring'
    BY <1>1, <2>1, <2>2 DEF SnapInv, HandInv, Restoring
  <2> QED BY <1>1, <2>1, <2>2, <2>3, SnapsKept DEF SnapInv
<1> QED BY <1>2, <1>3

LEMMA RestoreSnap ==
  ASSUME SnapInv, TypeOK', RestoreSnapshot
  PROVE  SnapInv'
<1>1. /\ control # Idle /\ control.todo # {} /\ control.op = "restore"
      /\ control.step = "restore" /\ UNCHANGED <<running, snaps, runs>> /\ TypeOK
  BY DEF RestoreSnapshot, Working, Idle, Ours, bounds, SnapInv
<1>2. CASE Fail
  BY <1>1, <1>2, EndSnap DEF Fail
<1>3. CASE ~ Fail
  <2>1. /\ GotoVM("start") /\ UNCHANGED clean /\ snaps[VM][control.name] # 0
        /\ disk' = [disk EXCEPT ![VM] = snaps[VM][control.name]]
    BY <1>3 DEF RestoreSnapshot, HasSnapshot
  <2>2. /\ control' # Idle /\ control'.step = "start" /\ control'.todo = control.todo
        /\ control'.op = control.op /\ control'.name = control.name
        /\ control'.list = control.list /\ control'.id = control.id /\ VM' = VM
        /\ VM \in VMs /\ control.list \subseteq VMs
    BY <1>1, <2>1, HandShape
  <2>3. \A v \in VMs : disk'[v] = IF v = VM THEN snaps[VM][control.name] ELSE disk[v]
    BY <1>1, <2>1, <2>2 DEF TypeOK
  <2>4. HandInv'
    BY <1>1, <2>2 DEF SnapInv, HandInv
  <2>5. Restoring'
    BY <1>1, <2>1, <2>2, <2>3 DEF SnapInv, Restoring
  <2> QED BY <1>1, <2>1, <2>2, <2>4, <2>5, SnapsKept DEF SnapInv
<1> QED BY <1>2, <1>3

LEMMA StartSnap ==
  ASSUME SnapInv, TypeOK', StartVM("restore", "start") \/ StartVM("start", "next")
  PROVE  SnapInv'
<1>1. /\ control # Idle /\ control.todo # {} /\ UNCHANGED <<disk, snaps, runs>>
      /\ control.op \in {"restore", "start"}
      /\ control.op = "restore" => control.step = "start"
  BY DEF StartVM, Working, Idle, Ours, bounds
<1>2. CASE Fail
  BY <1>1, <1>2, EndSnap DEF Fail
<1>3. CASE ~ Fail
  <2>1. running' = running \cup {VM} /\ NextVM /\ UNCHANGED clean
    BY <1>3 DEF StartVM
  <2>2. /\ control' # Idle /\ control'.step = "next" /\ control'.todo = control.todo \ {VM}
        /\ control'.op = control.op /\ control'.name = control.name
        /\ control'.list = control.list /\ control'.id = control.id
    BY <1>1, <2>1, HandShape
  <2>3. HandInv' /\ Restoring'
    BY <1>1, <2>1, <2>2 DEF SnapInv, HandInv, Restoring
  <2> QED BY <1>1, <2>1, <2>2, <2>3, SnapsKept DEF SnapInv
<1> QED BY <1>2, <1>3

LEMMA DeleteSnap ==
  ASSUME SnapInv, TypeOK', DeleteSnapshot
  PROVE  SnapInv'
<1>1. /\ control # Idle /\ control.todo # {} /\ control.op = "delete" /\ NextVM
      /\ UNCHANGED <<running, disk, clean, runs>> /\ TypeOK /\ MaxRuns \in Nat
  BY BoxAssumption DEF DeleteSnapshot, Working, Idle, Ours, bounds, SnapInv
<1>2. /\ control' # Idle /\ control'.step = "next" /\ control'.todo = control.todo \ {VM}
      /\ control'.op = control.op /\ control'.name = control.name
      /\ control'.list = control.list /\ control'.id = control.id
      /\ VM \in VMs /\ control.name \in Names
  BY <1>1, HandShape
<1>3. \A v \in VMs, n \in Names : snaps'[v][n] = 0 \/ snaps'[v][n] = snaps[v][n]
  BY <1>1, <1>2 DEF DeleteSnapshot, TypeOK
<1>4. HandInv' /\ Restoring'
  BY <1>1, <1>2 DEF SnapInv, HandInv, Restoring
<1>5. OneCreate'
  BY <1>1, <1>2, <1>3 DEF SnapInv, OneCreate, Creating
<1> QED BY <1>1, <1>4, <1>5 DEF SnapInv

LEMMA SnapNext == SnapInv /\ [Next]_vars => SnapInv'
<1> SUFFICES ASSUME SnapInv, [Next]_vars PROVE SnapInv'
  OBVIOUS
<1>1. TypeOK'
  BY TypeNext DEF SnapInv
<1>2. CASE UNCHANGED vars
  BY <1>1, <1>2, StillSnap DEF vars, bounds
<1>3. CASE MoveStep
  <2>1. UNCHANGED <<cluster, control, runs>>
    BY <1>3 DEF MoveStep, StartMove, TakeOn, TakeOff, MoveFile, RemoveDir, MakeLink, MakeDir,
       KillMove, RestartIncus, Unmoved, Fault, bounds
  <2> QED BY <1>1, <2>1, StillSnap
<1>4. CASE StartByHand \/ \E d \in Dirs, f \in Files : Write(d, f)
  <2>1. UNCHANGED <<cluster, control, runs>>
    BY <1>4 DEF StartByHand, Write
  <2> QED BY <1>1, <2>1, StillSnap
<1>5. CASE ControlStep
  <2>1. CASE ControlLeaves
    <3>1. /\ control # Idle /\ control' = Idle /\ control.todo = {}
          /\ UNCHANGED <<snaps, clean, runs>>
      BY <2>1 DEF ControlLeaves, ControlDone, cluster, Ours, bounds
    <3> QED BY <1>1, <3>1, EndSnap
  <2>2. CASE KillControl
    <3>1. control # Idle /\ control' = Idle /\ ~ clean' /\ UNCHANGED <<snaps, runs>>
      BY <2>2 DEF KillControl, Fail, Fault
    <3> QED BY <1>1, <3>1, EndSnap
  <2> QED BY <1>1, <1>5, <2>1, <2>2, StartControlSnap, CreateSnap, FindSnap, RestoreSnap,
          DeleteSnap, StopSnap, StartSnap DEF ControlStep
<1> QED BY <1>2, <1>3, <1>4, <1>5 DEF Next

(* A restore that ends well has every VM of its list running on the        *)
(* snapshot asked for, and all VMs on the snapshots of one create, unless  *)
(* a run failed or left out a VM.                                          *)
THEOREM RestoreRestores == Spec => []RestoreIsWhole
<1>1. SnapInv => RestoreIsWhole
  <2> SUFFICES ASSUME SnapInv, ControlDone, control.op = "restore"
               PROVE  /\ \A v \in control.list :
                           v \in running /\ disk[v] = snaps[v][control.name] /\ disk[v] # 0
                      /\ clean => \E id \in 1 .. MaxRuns : \A v \in VMs : v \in running /\ disk[v] = id
    BY DEF RestoreIsWhole
  <2>1. /\ TypeOK /\ control # Idle /\ control.step = "next" /\ control.todo = {}
        /\ control.list # {} /\ control.name \in Names /\ control.list \subseteq VMs
    BY ControlShape DEF SnapInv, HandInv, ControlDone
  <2>2. \A v \in control.list :
          v \in running /\ disk[v] = snaps[v][control.name] /\ disk[v] # 0
    BY <2>1 DEF SnapInv, Restoring
  <2>3. ASSUME clean PROVE \E id \in 1 .. MaxRuns : \A v \in VMs : v \in running /\ disk[v] = id
    <3>1. control.list = VMs
      BY <2>1, <2>3 DEF SnapInv, OneCreate
    <3>2. PICK u \in VMs : TRUE
      BY <2>1
    <3>3. disk[u] \in 1 .. MaxRuns
      <4>1. snaps[u][control.name] \in 0 .. MaxRuns
        BY <2>1 DEF SnapInv, OneCreate
      <4> QED BY <2>2, <3>1, <4>1, BoxAssumption
    <3>4. \A v \in VMs : snaps[u][control.name] = snaps[v][control.name]
      BY <2>1, <2>2, <2>3, <3>1 DEF SnapInv, OneCreate, Creating
    <3> QED BY <2>2, <3>1, <3>3, <3>4
  <2> QED BY <2>2, <2>3
<1> QED BY <1>1, SnapInit, SnapNext, PTL DEF Spec

(* Wherever a restore stands, and wherever it fails or is killed, at most  *)
(* one of its VMs is down.                                                 *)
THEOREM RestoreRolls == Spec => []OneVMDown
<1>1. SnapInv => OneVMDown
  <2> SUFFICES ASSUME SnapInv, control # Idle, control.op = "restore"
               PROVE  Cardinality(control.list \ running) <= 1
    BY DEF OneVMDown
  <2>1. control.list \ running = {} \/ control.list \ running = {VM}
    BY DEF SnapInv, Restoring
  <2>2. Cardinality({}) = 0 /\ Cardinality({VM}) = 1
    BY FS_EmptySet, FS_Singleton
  <2> QED BY <2>1, <2>2
<1> QED BY <1>1, SnapInit, SnapNext, PTL DEF Spec

=============================================================================
