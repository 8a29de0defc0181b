------------------------------ MODULE VmStore ------------------------------
(***************************************************************************)
(* The manager of virtual machines: vms.json, which every change rewrites  *)
(* in place (VM.java), the list and its deletions (LauncherActivity), the  *)
(* form (CreateVmActivity), and what a start makes of a machine: the disk  *)
(* lines of tiny.ini (MainActivity) and the slots they end in (pc.c).      *)
(* The user holds one screen at a time; the process may be killed on any.  *)
(* Names, sizes and the import of images are left out.                     *)
(***************************************************************************)
EXTENDS Integers, Sequences, SequencesExt

CONSTANTS
  UserFiles,    \* images of the user, outside of the application
  LooksOwn,     \* those of them that are named disk_*.img
  Boots,        \* choices of the first boot device: 0 floppy, 1 hard disk, 2 CD-ROM
  MaxDisks,     \* virtual disks created
  MaxMachines   \* machines beside the built-in one

None == <<>>
Included == <<"disk.img">>               \* the boot floppy of the application
User(f) == <<"user", f>>
Own(n) == <<"own", n>>

VARIABLES
  json,         \* what vms.json reads as: a cut file is an empty list
  files,        \* the user's images and the own disks that exist
  created,      \* own disks created so far
  screen,       \* "resume" (the list is about to be read), "list", "form", "saving", "running"
  vms, sel,     \* of LauncherActivity; 0 is no selection
  form,         \* the machine in the form, and the position it edits or 0
  writing,      \* the list that is being saved
  drives,       \* of the machine that runs: slot -> image and kind; and its floppy
  running,
  mine          \* the list that the user asked for, or was left with by a kill in a save

vmVars == <<json, files, created, screen, vms, sel, form, writing, drives, running, mine>>

Blank == [fda |-> None, hda |-> None, cda |-> None, boot |-> 0, builtin |-> FALSE]
BuiltIn == [Blank EXCEPT !.fda = Included, !.builtin = TRUE]
NoForm == [vm |-> Blank, idx |-> 0]
NoDrives == [slot |-> [s \in 0 .. 3 |-> None], cd |-> [s \in 0 .. 3 |-> FALSE], fda |-> None]

VmInit ==
  /\ json = <<>> /\ files = {User(f) : f \in UserFiles} \cup {Included} /\ created = 0
  /\ screen = "resume" /\ vms = <<>> /\ sel = 0
  /\ form = NoForm /\ writing = <<>>
  /\ drives = NoDrives /\ running = Blank
  /\ mine = <<BuiltIn>>

-----------------------------------------------------------------------------
(* VM.load *)
Load == json

(* VM.save opens the file, which empties it, and then writes the list. *)
Save(list) == screen' = "saving" /\ json' = <<>> /\ writing' = list

WriteList ==
  /\ screen = "saving"
  /\ json' = writing /\ writing' = <<>>
  /\ screen' = "resume"
  /\ UNCHANGED <<files, created, vms, sel, form, drives, running, mine>>

Reselected(s, list) == IF s > Len(list) THEN 0 ELSE s

(* onResume: refresh. *)
Resume ==
  /\ screen = "resume"
  /\ vms' = IF Load = <<>> THEN <<BuiltIn>> ELSE Load
  /\ IF Load = <<>> THEN Save(<<BuiltIn>>) ELSE screen' = "list" /\ UNCHANGED <<json, writing>>
  /\ sel' = Reselected(sel, vms')
  /\ UNCHANGED <<files, created, form, drives, running, mine>>

Select(i) ==
  /\ screen = "list" /\ i \in DOMAIN vms
  /\ sel' = i /\ screen' = "resume"
  /\ UNCHANGED <<json, files, created, vms, form, writing, drives, running, mine>>

-----------------------------------------------------------------------------
(* The form, empty or with a machine that is not locked. *)
OpenForm(i) ==
  /\ screen = "list" /\ i \in {0} \cup DOMAIN vms
  /\ i # 0 => ~vms[i].builtin
  /\ i = 0 => Len(vms) <= MaxMachines
  /\ screen' = "form"
  /\ form' = IF i \in 1 .. Len(Load) THEN [vm |-> Load[i], idx |-> i] ELSE NoForm
  /\ UNCHANGED <<json, files, created, vms, sel, writing, drives, running, mine>>

Enter(vm) ==
  /\ screen = "form" /\ form' = [form EXCEPT !.vm = vm]
  /\ UNCHANGED <<json, screen, vms, sel, writing, drives, running, mine>>

Pick(device, f) ==
  Enter([form.vm EXCEPT ![device] = User(f)]) /\ UNCHANGED <<files, created>>
ChooseBoot(b) ==
  Enter([form.vm EXCEPT !.boot = b]) /\ UNCHANGED <<files, created>>
CreateDisk ==
  /\ created < MaxDisks
  /\ Enter([form.vm EXCEPT !.hda = Own(created + 1)])
  /\ created' = created + 1 /\ files' = files \cup {Own(created + 1)}

(* The button of the form: at least one image. *)
SaveForm ==
  LET vm == form.vm
      put(list) == IF form.idx \in 1 .. Len(list)
                   THEN [list EXCEPT ![form.idx] = [vm EXCEPT !.builtin = list[form.idx].builtin]]
                   ELSE Append(list, vm)
  IN /\ screen = "form" /\ {vm.fda, vm.hda, vm.cda} # {None}
     /\ Save(put(Load))
     /\ mine' = put(mine) /\ form' = NoForm
     /\ UNCHANGED <<files, created, vms, sel, drives, running>>

LeaveForm ==
  /\ screen = "form" /\ screen' = "resume" /\ form' = NoForm
  /\ UNCHANGED <<json, files, created, vms, sel, writing, drives, running, mine>>

-----------------------------------------------------------------------------
(* Mutated: the files are those of the machine that moves up. *)
DeletedWithNext(i) ==
  LET left == RemoveAt(vms, i)
      vm == left[IF i > Len(left) THEN Len(left) ELSE i]
  IN {p \in files : p \in {vm.fda, vm.hda, vm.cda} /\ p # Included /\ p[1] = "own"}

(* deleteOwnDisks: whatever is named like a disk of the application. *)
DeletedWith(i) ==
  LET own(p) == p \notin {None, Included} /\ (p[1] = "own" \/ p[2] \in LooksOwn)
  IN {p \in {vms[i].fda, vms[i].hda, vms[i].cda} : own(p)}

Delete(i) ==
  /\ screen = "list" /\ i \in DOMAIN vms /\ ~vms[i].builtin
  /\ files' = files \ DeletedWith(i)
  /\ vms' = RemoveAt(vms, i) /\ Save(RemoveAt(vms, i))
  /\ sel' = Reselected(sel, RemoveAt(vms, i))
  /\ mine' = RemoveAt(mine, i)
  /\ UNCHANGED <<created, form, drives, running>>

(* The process is killed on any screen, and the user comes back. *)
Kill ==
  /\ screen' = "resume" /\ vms' = <<>> /\ sel' = 0 /\ writing' = <<>>
  /\ form' = NoForm
  /\ drives' = NoDrives /\ running' = Blank
  /\ mine' = IF screen = "saving" THEN <<BuiltIn>> ELSE mine
  /\ UNCHANGED <<json, files, created>>

-----------------------------------------------------------------------------
(* The disk lines of tiny.ini. *)
HdSlot(vm) == IF vm.boot = 2 /\ vm.cda # None THEN 1 ELSE 0
CdSlot(vm) == IF vm.hda # None /\ vm.boot # 2 THEN 1 ELSE 0
Floppy(vm) == IF vm.fda # None THEN vm.fda
              ELSE IF vm.hda = None /\ vm.cda = None THEN Included ELSE None

(* parse_conf_ini and pc_new: of two lines for a slot the later counts.     *)
Put(d, slot, path, cd) ==
  IF path = None THEN d ELSE [d EXCEPT !.slot[slot] = path, !.cd[slot] = cd]
Attached(vm) ==
  Put(Put([NoDrives EXCEPT !.fda = Floppy(vm)], HdSlot(vm), vm.hda, FALSE),
      CdSlot(vm), vm.cda, TRUE)

Start ==
  /\ screen = "list" /\ sel \in DOMAIN vms
  /\ screen' = "running" /\ running' = vms[sel] /\ drives' = Attached(vms[sel])
  /\ UNCHANGED <<json, files, created, vms, sel, form, writing, mine>>

LeaveMachine ==
  /\ screen = "running" /\ screen' = "resume" /\ running' = Blank /\ drives' = NoDrives
  /\ UNCHANGED <<json, files, created, vms, sel, form, writing, mine>>

VmNext ==
  \/ WriteList \/ Resume \/ CreateDisk \/ SaveForm \/ LeaveForm \/ Kill \/ Start \/ LeaveMachine
  \/ \E i \in 1 .. MaxMachines + 1 : Select(i) \/ Delete(i)
  \/ \E i \in 0 .. MaxMachines + 1 : OpenForm(i)
  \/ \E device \in {"fda", "hda", "cda"}, f \in UserFiles : Pick(device, f)
  \/ \E b \in Boots : ChooseBoot(b)

VmSpec == VmInit /\ [][VmNext]_vmVars

-----------------------------------------------------------------------------
(* The list on disk is what the user asked for, over any order of creating, *)
(* editing, deleting, starting, leaving a form and being killed; a kill in  *)
(* a save leaves the built-in machine alone (the file is rewritten in       *)
(* place), and that too is a list that the user can go on from.             *)
MachinesKept == screen \in {"list", "form", "running"} => json = mine

(* A disk that the application created exists while a machine uses it: a    *)
(* deletion takes the disks of its machine and of no other.                 *)
OwnDisksStay ==
  \A i \in DOMAIN json : \A n \in 1 .. MaxDisks : json[i].hda = Own(n) => Own(n) \in files

(* README, "slot conflict": the hard disk and the CD-ROM never share a slot *)
(* and the one to boot from comes first; every image is in the machine.     *)
SlotsAsPromised ==
  screen = "running" =>
    LET has(path, cd) == \E s \in 0 .. 3 : drives.slot[s] = path /\ drives.cd[s] = cd
    IN /\ running.hda # None => has(running.hda, FALSE)
       /\ running.cda # None => has(running.cda, TRUE)
       /\ running.hda # None /\ running.cda # None => (drives.cd[0] <=> running.boot = 2)
       /\ running.fda # None => drives.fda = running.fda
       /\ {drives.fda, drives.slot[0]} # {None}

(* What the manager keeps of machines and disks, a start can use.           *)
MachinesSound == MachinesKept /\ OwnDisksStay /\ SlotsAsPromised

(* LauncherActivity, the question before a deletion: the images that the    *)
(* user chose are not deleted.                                              *)
UserFilesStay == \A f \in UserFiles : User(f) \in files
============================================================================
