---------------------------- MODULE DiskManager ----------------------------
(***************************************************************************)
(* The build for devices without a disk service (disk_manager.c): the      *)
(* event thread mounts and unmounts the disks that the kernel reports, and *)
(* main() lists them.                                                      *)
(*                                                                         *)
(* A disk is plugged in as a new insertion of a name the kernel has free;  *)
(* a name stays taken while something is mounted from it.  A card reader   *)
(* may be empty: its disk cannot be opened.  Its medium can be swapped     *)
(* under a mount.  Partition 0 is the whole disk where there is no         *)
(* partition table.                                                        *)
(*                                                                         *)
(* The event thread holds rlock while it works on the list, so a request   *)
(* is one step of main() between two of its events.                        *)
(*                                                                         *)
(* The directory a partition is mounted on is named after the disk, or     *)
(* after the tag that a file gives to the place of the bus where the disk  *)
(* is (disk_mnt_disktag_parse()); what is mounted on a directory covers    *)
(* what was mounted there before.                                          *)
(***************************************************************************)
EXTENDS Integers, Sequences, FiniteSets, SequencesExt

CONSTANTS Names,       (* the names the kernel gives to disks                 *)
          Places,      (* where on the bus the disk of a name may be          *)
          Links,       (* the flags that the sysfs link of a place contains   *)
          TagFile,     (* DISK_TAG_FILE: its lines, [flag, dir, vol]          *)
          PartNums,    (* the numbers of partitions                           *)
          Prefix,      (* pairs of partitions: the name of one begins the     *)
                       (* other's, as /dev/sda1 does with /dev/sda10          *)
          Efi,         (* the partitions that a GPT may say are the firmware's  *)
          MaxNodes,    (* disks that fit the reply to a DISKLUN               *)
          MaxInfoNodes, (* and the one to a DISKINFO, which says more of each *)
          MAX_PARTITIONS, (* of protocol.h: partitions of a diskInfoNode      *)
          MaxInsert,   (* bound: insertions of a disk or of a medium          *)
          MaxChange    (* bound: reports of a change without one, and new     *)
                       (* partition tables                                    *)

ASSUME DiskManagerAssumption ==
  /\ IsFiniteSet(Names) /\ IsFiniteSet(PartNums)
  /\ PartNums \subseteq Nat \ {0}
  /\ Prefix \subseteq PartNums \X PartNums
  /\ Efi \subseteq PartNums
  /\ {MaxNodes, MaxInfoNodes, MaxChange} \subseteq Nat
  /\ {MaxInsert, MAX_PARTITIONS} \subseteq Nat \ {0}

VARIABLES
  (* the kernel *)
  table,     \* its disks: insertion, medium, partitions, and those with a file system
  inserted,  \* insertions so far
  changes,   \* changes so far
  mounts,    \* /proc/mounts, in the order of mounting
  uevents,   \* the netlink socket
  (* the event thread, and disk_init() of the main thread before it starts *)
  evpc,      \* "mnt1", "mnt2", "mnt3" of disk_mount_process(), with "find" and
             \* "mount" for a partition of the third pass; "bind"; "poll"
  scope,     \* the disks disk_mount_process() is about: one, or all at the start
  bound,     \* the netlink socket is bound
  work,      \* the partitions disk_mnt3_automount_partition() has left
  (* i4disk and what main() makes of it, under rlock *)
  list,      \* disks and their partitions
  plugcount,
  notify,    \* notifyInfo.valid
  app,       \* view: the disks of its last reply; told: it knows that there is a change
  (* history *)
  deaf,      \* something happened before it was
  look       \* what the partition table gave to the firmware when it was looked at

kernel == <<table, inserted, changes, mounts>>
evVars == <<evpc, bound, scope, work>>
lists  == <<list, plugcount>>
vars == <<kernel, uevents, evVars, lists, notify, app, deaf, look>>

-----------------------------------------------------------------------------
Whole == 0
Nums  == PartNums \cup {Whole}
Ports == UNION {Places[n] : n \in Names}
Absent == [inst |-> 0, port |-> "none", open |-> FALSE, parts |-> {}, good |-> {},
           gpt |-> FALSE, efi |-> {}]

(* What may be on a medium: a partition table, or none and perhaps a file     *)
(* system.  A GPT, which is what the first sector says it is, may name        *)
(* partitions of the firmware; it may still be there under a newer table.     *)
Content(i, p) ==
  {c \in [inst : {i}, port : {p}, open : {TRUE}, parts : SUBSET PartNums, good : SUBSET Nums,
          gpt : BOOLEAN, efi : {{}, Efi}] :
     /\ c.good \subseteq IF c.parts = {} THEN {Whole} ELSE c.parts
     /\ c.gpt => c.efi # {}}

Empty(i, p) == [Absent EXCEPT !.inst = i, !.port = p]

Disks(i, p) == Content(i, p) \cup {Empty(i, p)}

-----------------------------------------------------------------------------
(* disk_mnt_disktag_parse() reads a line: one with the flag of an earlier one *)
(* is to update it, but only its directory gets there; the volume goes to the *)
(* entry inserted last, and the line is inserted all the same.                *)
ReadTag(tags, line) ==
  LET known == {i \in DOMAIN tags : tags[i].flag = line.flag} IN
  Append([i \in DOMAIN tags |->
            [tags[i] EXCEPT !.dir = IF i \in known THEN line.dir ELSE @,
                            !.vol = IF i = Len(tags) /\ known # {} THEN line.vol ELSE @]],
         line)

TagList == FoldLeft(ReadTag, <<>>, TagFile)

(* Fault: the volume is not made part of the tag.                             *)
NoTag == <<>>
TagOfDir(port) ==
  LET found == SelectSeq(TagList, LAMBDA e : e.flag \in Links[port]) IN
  IF found = <<>> THEN NoTag ELSE <<found[1].dir, "any">>

(* disk_fill_main_partition_baseinfo(): the tag of a disk is that of the      *)
(* first flag in its link.                                                    *)
TagOf(port) ==
  LET found == SelectSeq(TagList, LAMBDA e : e.flag \in Links[port]) IN
  IF found = <<>> THEN NoTag ELSE <<found[1].dir, found[1].vol>>

(* generate_mount_point(): the last two digits of the partition's name make   *)
(* up the volume number, ...                                                  *)
VolNum(p) ==
  LET sum == (p % 10) + IF p < 10 THEN 0 ELSE 10 + ((p \div 10) % 10)
  IN IF sum = 0 THEN 1 ELSE sum

(* ... and the directory is named after the tag, or the partition.            *)
MntPoint(d, p) == IF d.tag = NoTag THEN <<<<d.name>>, p>> ELSE <<d.tag, VolNum(p)>>

TagsOf(n)     == {NoTag} \cup {TagOf(p) : p \in Places[n]}
PathsOf(n, p) == {MntPoint([name |-> n, tag |-> tag], p) : tag \in TagsOf(n)}
NoPath == <<>>
Tags   == UNION {TagsOf(n) : n \in Names}
Paths  == UNION {PathsOf(n, p) : n \in Names, p \in Nums}

Part  == [num : Nums, fs : BOOLEAN, mounted : BOOLEAN, mnt : Paths \cup {NoPath}]
Disk  == [name : Names, tag : Tags, gpt : BOOLEAN, plug : Nat, inst : 1..MaxInsert,
          status : {"INIT", "MOUNTED"}, parts : Seq(Part)]
View  == Seq(Names \X Nat) \cup Seq({<<n>> : n \in Names})

(* late: (history) the firmware had other partitions by the time of the mount *)
(* than when the table was looked at.                                         *)
Mount == [name : Names, num : Nums, inst : 1..MaxInsert, at : Paths, late : BOOLEAN]

Rows(n)   == table[n].parts
Listed(n) == \E i \in DOMAIN list : list[i].name = n
Place(n)  == CHOOSE i \in DOMAIN list : list[i].name = n
Mounts    == {mounts[i] : i \in DOMAIN mounts}
MountsOf(n) == {m \in Mounts : m.name = n}

TypeOK ==
  /\ DOMAIN table = Names
  /\ \A n \in Names :
       table[n] \in {Absent} \cup UNION {Disks(i, p) : i \in 1..MaxInsert, p \in Places[n]}
  /\ inserted \in 0..MaxInsert /\ changes \in 0..MaxChange
  /\ mounts \in Seq(Mount)
  /\ uevents \in Seq({"add", "remove", "change"} \X Names)
  /\ evpc \in {"mnt1", "mnt2", "mnt3", "find", "mount", "bind", "poll"}
  /\ bound \in BOOLEAN /\ scope \subseteq Names
  /\ work \in Seq(Names \X Nums)
  /\ list \in Seq(Disk)
  /\ \A i, j \in DOMAIN list : list[i].name = list[j].name => i = j
  /\ \A i \in DOMAIN list : \A j, k \in DOMAIN list[i].parts :
       list[i].parts[j].num = list[i].parts[k].num => j = k
  /\ plugcount \in Nat
  /\ notify \in BOOLEAN
  /\ app \in [view : View, told : BOOLEAN]
  /\ deaf \in BOOLEAN
  /\ look \in {{}, Efi}

(* No two disks are in one place.                                             *)
Apart(tab) ==
  \A m, n \in Names : tab[m] # Absent /\ tab[m].port = tab[n].port => m = n

Init ==
  /\ table \in [Names -> {Absent} \cup UNION {Content(1, p) : p \in Ports}]
  /\ \A n \in Names : table[n] # Absent => table[n].port \in Places[n]
  /\ Apart(table)
  /\ inserted = 1 /\ changes = 0
  /\ mounts = <<>> /\ uevents = <<>>
  /\ evpc = "mnt1" /\ bound = FALSE /\ scope = Names /\ work = <<>>
  /\ list = <<>> /\ plugcount = 0
  /\ notify = FALSE /\ app = [view |-> <<>>, told |-> TRUE]
  /\ deaf = FALSE /\ look = {}

-----------------------------------------------------------------------------
(* The kernel and the users.                                                  *)

(* A uevent of the disk; nobody hears it before the socket is bound.          *)
Uevent(action, n) ==
  /\ IF bound THEN uevents' = Append(uevents, <<action, n>>) /\ UNCHANGED deaf
     ELSE deaf' = TRUE /\ UNCHANGED uevents
  /\ UNCHANGED <<mounts, evVars, lists, notify, app, look>>

(* A disk or medium with this content arrives.                                *)
Insert(n, c) ==
  /\ inserted < MaxInsert /\ inserted' = inserted + 1
  /\ table' = [table EXCEPT ![n] = c] /\ Apart(table')
  /\ UNCHANGED changes

(* A disk, or a card reader with or without a medium, is plugged in.          *)
Plug ==
  \E n \in Names : \E p \in Places[n] : \E c \in Disks(inserted + 1, p) :
    /\ table[n] = Absent /\ MountsOf(n) = {}
    /\ Insert(n, c) /\ Uevent("add", n)

Unplug ==
  \E n \in Names :
    /\ table[n] # Absent
    /\ table' = [table EXCEPT ![n] = Absent]
    /\ UNCHANGED <<inserted, changes>>
    /\ Uevent("remove", n)

(* The medium leaves the reader, or another is put in, whatever is mounted    *)
(* from the one before: its partitions, if they are, stay the kernel's.       *)
MediumOut ==
  \E n \in Names :
    /\ table[n].open
    /\ table' = [table EXCEPT ![n] = Empty(table[n].inst, table[n].port)]
    /\ UNCHANGED <<inserted, changes>>
    /\ Uevent("change", n)

MediumIn ==
  \E n \in Names : \E c \in Content(inserted + 1, table[n].port) :
    /\ table[n].inst # 0 /\ ~table[n].open
    /\ {m.num : m \in MountsOf(n)} \ {Whole} \subseteq c.parts
    /\ Insert(n, c) /\ Uevent("change", n)

(* A change is reported, which may be a new partition table where nothing is  *)
(* mounted.                                                                   *)
Change ==
  /\ changes < MaxChange /\ changes' = changes + 1
  /\ \E n \in Names :
       /\ table[n].open
       /\ UNCHANGED table
       /\ Uevent("change", n)
  /\ UNCHANGED inserted

Repartition ==
  /\ changes < MaxChange /\ changes' = changes + 1
  /\ \E n \in Names : \E c \in Content(table[n].inst, table[n].port) :
       /\ table[n].open /\ MountsOf(n) = {}
       /\ table' = [table EXCEPT ![n] = c]
       /\ Uevent("change", n)
  /\ UNCHANGED inserted

-----------------------------------------------------------------------------
(* disk_mount_process(): three passes over the disks in scope.                *)

NewParts(nums) ==
  [i \in 1..Len(SetToSeq(nums)) |->
     [num |-> SetToSeq(nums)[i], fs |-> FALSE, mounted |-> FALSE, mnt |-> NoPath]]

PartSet(d) == {d.parts[j].num : j \in DOMAIN d.parts}

ListedPart(n, p) ==
  \E i \in DOMAIN list : list[i].name = n /\ p \in PartSet(list[i])

NewDisks == {n \in scope : table[n].open /\ ~Listed(n)}

(* The disks of /proc/partitions that are not listed are added, and to each   *)
(* listed one its partitions but for those that are known.  The disks in      *)
(* unlinked have left before their link could be read.                        *)
Scan(known, unlinked) ==
  LET new   == SetToSeq(NewDisks)
      added == [i \in DOMAIN new |->
                 LET c == table[new[i]] IN
                 [name |-> new[i], gpt |-> c.gpt,
                  tag |-> IF new[i] \in unlinked THEN NoTag ELSE TagOf(c.port),
                  plug |-> plugcount + i - 1, inst |-> c.inst,
                  status |-> "INIT", parts |-> <<>>]]
      all   == list \o added
  IN /\ evpc = "mnt1" /\ evpc' = "mnt2"
     /\ list' = [i \in DOMAIN all |->
                   IF all[i].name \notin scope THEN all[i]
                   ELSE [all[i] EXCEPT !.parts =
                           @ \o NewParts(Rows(all[i].name) \ known[all[i].name])]]
     /\ plugcount' = plugcount + Len(new)
     /\ UNCHANGED <<kernel, uevents, bound, scope, work, notify, app, deaf, look>>

(* Fault: partitions are added without a look at those there are.             *)
Mnt1Twice == Scan([n \in Names |-> {}], {})

(* disk_mnt1_loop_partition().                                                *)
Mnt1 ==
  \E unlinked \in SUBSET NewDisks :
    Scan([n \in Names |-> {p \in Nums : ListedPart(n, p)}], unlinked)

(* disk_mnt2_confirm_partition_info(): the file systems are looked up; a disk *)
(* without partitions gets the whole of it as one.                            *)
Probed(d) ==
  LET parts == IF d.parts = <<>> THEN NewParts({Whole}) ELSE d.parts IN
  IF d.name \notin scope THEN d
  ELSE [d EXCEPT !.parts = [j \in DOMAIN parts |->
          [parts[j] EXCEPT !.fs = parts[j].num \in table[d.name].good]]]

WorkOf(l) ==
  FlattenSeq([i \in DOMAIN l |->
    IF l[i].name \notin scope THEN <<>>
    ELSE [j \in DOMAIN l[i].parts |-> <<l[i].name, l[i].parts[j].num>>]])

Mnt2 ==
  /\ evpc = "mnt2" /\ evpc' = "mnt3"
  /\ ~bound \/ \E n \in scope : Listed(n)
  /\ list' = [i \in DOMAIN list |-> Probed(list[i])]
  /\ work' = WorkOf(list')
  /\ UNCHANGED <<kernel, uevents, bound, scope, plugcount, notify, app, deaf, look>>

(* The disk has left before it could be added: there is nothing to report.    *)
Mnt2NotFound ==
  /\ evpc = "mnt2" /\ evpc' = "poll"
  /\ bound /\ \A n \in scope : ~Listed(n)
  /\ UNCHANGED <<kernel, uevents, bound, scope, work, lists, notify, app, deaf, look>>

(* The partition's mount point and whether it counts as mounted are noted.    *)
Note(n, p, path, m) ==
  list' = [i \in DOMAIN list |->
    IF list[i].name # n THEN list[i]
    ELSE [list[i] EXCEPT !.parts = [j \in DOMAIN list[i].parts |->
            IF list[i].parts[j].num # p THEN list[i].parts[j]
            ELSE [list[i].parts[j] EXCEPT !.mounted = m, !.mnt = path]]]]

(* find_mount_point(): a line of /proc/mounts begins with the partition's     *)
(* name.                                                                      *)
FindMountPoint(n, p) ==
  \E m \in MountsOf(n) : m.num = p \/ p = Whole \/ <<p, m.num>> \in Prefix

Entry(n, p) ==
  LET parts == list[Place(n)].parts IN
  parts[CHOOSE j \in DOMAIN parts : parts[j].num = p]

Marked(n, p) == ListedPart(n, p) /\ Entry(n, p).mounted

(* get_partition_capacity_rw(): where the partition is mounted first, if the  *)
(* whole of its name is found; otherwise what is noted stays.                 *)
MountedAt(n, p) ==
  LET found == {i \in DOMAIN mounts : mounts[i].name = n /\ mounts[i].num = p} IN
  IF found = {} THEN Entry(n, p).mnt ELSE mounts[Min(found)].at

(* probe_efi_partition(), for a disk that had a GPT when it was listed: the   *)
(* table that is there now makes the partition one of the firmware's.         *)
IsEfi(n, p) ==
  /\ \E i \in DOMAIN list : list[i].name = n /\ list[i].gpt
  /\ table[n].open /\ p \in table[n].efi

(* disk_mnt3_automount_partition() is through with the partition in hand.     *)
NextPart == work' = Tail(work) /\ evpc' = "mnt3" /\ look' = {}

Probe(efi) ==
  /\ evpc = "mnt3" /\ work # <<>>
  /\ \/ efi /\ NextPart
     \/ ~efi /\ evpc' = "find" /\ look' = table[Head(work)[1]].efi /\ UNCHANGED work
  /\ UNCHANGED <<kernel, uevents, bound, scope, lists, notify, app, deaf>>

(* Fault: the partitions of the firmware are mounted as well.                 *)
Mnt3ProbeNot == Probe(FALSE)

(* A partition of the firmware is left alone.                                 *)
Mnt3Probe == Probe(IsEfi(Head(work)[1], Head(work)[2]))

Find(seen) ==
  /\ evpc = "find"
  /\ LET n == Head(work)[1]  p == Head(work)[2] IN
     \/ seen /\ Note(n, p, MountedAt(n, p), TRUE) /\ NextPart
     \/ /\ ~seen /\ ~Entry(n, p).fs
        /\ Note(n, p, MntPoint(list[Place(n)], p), FALSE) /\ NextPart
     \/ ~seen /\ Entry(n, p).fs /\ evpc' = "mount" /\ UNCHANGED <<list, work, look>>
  /\ UNCHANGED <<kernel, uevents, bound, scope, plugcount, notify, app, deaf>>

(* Fault: whether the partition is mounted is not looked up.                  *)
Mnt3FindNot == Find(FALSE)

(* One that is mounted is marked, and of the others those with a file system  *)
(* are to be mounted.                                                         *)
Mnt3Find == Find(FindMountPoint(Head(work)[1], Head(work)[2]))

(* mount() may fail; it does so if another medium has come without a file     *)
(* system there, or if the whole disk is mounted.                             *)
Mnt3Mount ==
  /\ evpc = "mount"
  /\ LET n == Head(work)[1]  p == Head(work)[2]  path == MntPoint(list[Place(n)], p) IN
     \/ Note(n, p, path, FALSE) /\ UNCHANGED mounts
     \/ /\ p \in table[n].good /\ \A m \in MountsOf(n) : m.num # Whole
        /\ Note(n, p, path, TRUE)
        /\ mounts' = Append(mounts, [name |-> n, num |-> p, inst |-> table[n].inst, at |-> path,
                                     late |-> table[n].efi # look])
  /\ NextPart
  /\ UNCHANGED <<table, inserted, changes, uevents, bound, scope, plugcount, notify, app, deaf>>

(* The disks in scope count as mounted; the app is to be told of one that an  *)
(* event was about.                                                           *)
Mnt3Done ==
  /\ evpc = "mnt3" /\ work = <<>>
  /\ list' = [i \in DOMAIN list |-> IF list[i].name \in scope
                                    THEN [list[i] EXCEPT !.status = "MOUNTED"]
                                    ELSE list[i]]
  /\ evpc' = IF bound THEN "poll" ELSE "bind"
  /\ notify' = (notify \/ bound)
  /\ UNCHANGED <<kernel, uevents, bound, scope, work, plugcount, app, deaf, look>>

-----------------------------------------------------------------------------
(* The event thread.                                                          *)

(* initNetlinkSock().                                                         *)
Bind ==
  /\ evpc = "bind" /\ evpc' = "poll"
  /\ bound' = TRUE
  /\ UNCHANGED <<kernel, uevents, scope, work, lists, notify, app, deaf, look>>

(* handleStoragePlug() takes an event that says, or shows by the disk being   *)
(* openable, that there is a disk to add ...                                  *)
EvAdd ==
  /\ evpc = "poll" /\ bound /\ uevents # <<>>
  /\ LET action == Head(uevents)[1]  n == Head(uevents)[2] IN
       /\ action \in {"add", "change"} /\ table[n].open
       /\ scope' = {n}
  /\ evpc' = "mnt1"
  /\ uevents' = Tail(uevents)
  /\ UNCHANGED <<kernel, bound, work, lists, notify, app, deaf, look>>

DropOf(actions) ==
  /\ evpc = "poll" /\ uevents # <<>>
  /\ Head(uevents)[1] \in actions /\ ~table[Head(uevents)[2]].open
  /\ uevents' = Tail(uevents)
  /\ UNCHANGED <<kernel, evVars, lists, notify, app, deaf, look>>

(* Fault: a medium that left is not always taken for a removal.               *)
EvDropAny == DropOf({"add", "change"})

(* ... or drops it, since the disk to be added cannot be opened ...           *)
EvDrop == DropOf({"add"})

(* umount2() takes away what is on top at the path, whatever it is.           *)
Unmount(ms, path) ==
  LET on == {i \in DOMAIN ms : ms[i].at = path} IN
  IF on = {} THEN ms ELSE RemoveAt(ms, Max(on))

(* What is left when the path of every partition that is marked as mounted    *)
(* has been unmounted, one after the other.                                   *)
UnmountAll(parts) ==
  LET left[j \in 0..Len(parts)] ==
        IF j = 0 THEN mounts
        ELSE IF parts[j].mounted THEN Unmount(left[j - 1], parts[j].mnt) ELSE left[j - 1]
  IN left[Len(parts)]

(* udev_action_func_remove(): the disk is unmounted and forgotten.            *)
RemoveDisk(n) ==
  /\ evpc = "poll" /\ uevents # <<>>
  /\ <<Head(uevents)[1], table[n].open>> \in {"remove"} \X BOOLEAN \cup {<<"change", FALSE>>}
  /\ IF Listed(n)
     THEN /\ mounts' = UnmountAll(list[Place(n)].parts)
          /\ list' = RemoveAt(list, Place(n))
     ELSE UNCHANGED <<mounts, list>>
  /\ uevents' = Tail(uevents)
  /\ UNCHANGED <<table, inserted, changes, evVars, plugcount, app, deaf, look>>

(* Fault: a removal is not reported.                                          *)
EvRemoveSilent == RemoveDisk(Head(uevents)[2]) /\ UNCHANGED notify

(* ... or removes the disk, which is reported if the disk was listed.         *)
EvRemove == RemoveDisk(Head(uevents)[2]) /\ notify' = (notify \/ Listed(Head(uevents)[2]))

-----------------------------------------------------------------------------
(* main().                                                                    *)

MountedDisks(l) ==
  LET up[i \in 0..Len(l)] ==
        IF i = 0 THEN <<>>
        ELSE IF l[i].status = "MOUNTED" THEN Append(up[i - 1], l[i]) ELSE up[i - 1]
  IN up[Len(l)]

MountedParts(d) == {j \in DOMAIN d.parts : d.parts[j].mounted}
Cut(l, k)    == IF Len(l) > k THEN SubSeq(l, 1, k) ELSE l

(* What the app sees of the disks: a diskPlugNode has the name and the number *)
(* of plugs, a diskInfoNode only the name.                                    *)
ViewOf(l)  == [i \in DOMAIN l |-> <<l[i].name, l[i].plug>>]
NamesOf(l) == [i \in DOMAIN l |-> <<l[i].name>>]

(* disk_getdisk_info() stops at the first disk for which it runs out of room  *)
(* for partitions.                                                            *)
InfoDisks(l) ==
  LET full == {i \in DOMAIN l : Cardinality(MountedParts(l[i])) >= MAX_PARTITIONS} IN
  IF full = {} THEN l ELSE SubSeq(l, 1, Min(full) - 1)

Asked(view) ==
  /\ evpc \in {"bind", "poll"}
  /\ app' = [view |-> view, told |-> FALSE]
  /\ notify' = FALSE
  /\ UNCHANGED <<kernel, uevents, evVars, lists, deaf, look>>

(* disk_getdisk_lun() and disk_getdisk_info(), called by usDisk_diskLun() and *)
(* usDisk_diskInfo(), which cancel the pending notification.                  *)
DiskLun  == Asked(ViewOf(Cut(MountedDisks(list), MaxNodes)))
DiskInfo == Asked(NamesOf(Cut(InfoDisks(MountedDisks(list)), MaxInfoNodes)))

(* usStorage_notifyPlug().                                                    *)
NotifyPlug ==
  /\ evpc \in {"bind", "poll"}
  /\ notify /\ notify' = FALSE
  /\ app' = [app EXCEPT !.told = TRUE]
  /\ UNCHANGED <<kernel, uevents, evVars, lists, deaf, look>>

Next == \/ Plug \/ Unplug \/ MediumOut \/ MediumIn \/ Change \/ Repartition
        \/ Mnt1 \/ Mnt2 \/ Mnt2NotFound
        \/ Mnt3Probe \/ Mnt3Find \/ Mnt3Mount \/ Mnt3Done
        \/ Bind \/ EvAdd \/ EvDrop \/ EvRemove
        \/ DiskLun \/ DiskInfo \/ NotifyPlug

Spec == Init /\ [][Next]_vars

-----------------------------------------------------------------------------
(* No mount is forgotten: what is mounted belongs to a partition that is      *)
(* listed and marked, so that the removal of the disk unmounts it and frees   *)
(* its name.                                                                  *)
MountsListed == \A m \in Mounts : Marked(m.name, m.num)

(* Disks whose directories differ do not get in each other's way, whatever    *)
(* leaves and comes: as long as a file system is there, and no medium was     *)
(* swapped under a mount of the disk, what the app finds under the mount      *)
(* point of its partition is that partition, and not one mounted over it or   *)
(* what is left when another's removal took its mount away.                   *)
ServedFromOwn ==
  \A i \in DOMAIN list : \A j \in DOMAIN list[i].parts :
    LET d == list[i]  q == d.parts[j]
        at == {k \in DOMAIN mounts : mounts[k].at = q.mnt}
    IN /\ q.mounted /\ q.num \in table[d.name].good
       /\ \A m \in MountsOf(d.name) : m.inst = table[d.name].inst
       => at # {} /\ mounts[Max(at)].name = d.name /\ mounts[Max(at)].num = q.num

(* "EFI Partition Found %s-->IGNORE": the app is not shown what belongs to    *)
(* the firmware.                                                              *)
EfiHidden ==
  \A m \in Mounts : ~(table[m.name].gpt /\ m.num \in table[m.name].efi)

(* That is so unless the disk has got its GPT since it was listed, or its     *)
(* table has changed between the look at it and the mount, or the medium is   *)
(* not the one that was mounted, none of which is noticed: in spite of what   *)
(* comes between the passes, before the look and after the mount.             *)
EfiIgnored ==
  \A m \in Mounts : \A i \in DOMAIN list :
    list[i].name = m.name /\ list[i].gpt /\ ~m.late /\ m.inst = table[m.name].inst =>
      m.num \notin table[m.name].efi

(* Once the events are worked off (and none came too early to be heard), the  *)
(* list is that of the disks there are, whatever came between the passes, with *)
(* all their partitions; nothing is mounted from a disk that has left, and    *)
(* from a medium that has left only if the list has the disk from before the  *)
(* swap.                                                                      *)
Settled == evpc = "poll" /\ uevents = <<>> /\ ~deaf

ListSettles ==
  Settled =>
    /\ \A n \in Names : table[n].open <=> Listed(n)
    /\ \A i \in DOMAIN list :
         LET d == list[i] IN
         /\ d.status = "MOUNTED"
         /\ Rows(d.name) \subseteq PartSet(d)
    /\ \A m \in Mounts :
         LET d == list[Place(m.name)] IN
         /\ table[m.name].open
         /\ d.inst = table[m.name].inst => m.inst = table[m.name].inst

(* Of two "change" events for a swap the first is to be taken for the         *)
(* removal: "We Think it may be Remove action".                               *)
SwapSeen == Settled => \A m \in Mounts : m.inst = table[m.name].inst

(* The app's last reply, a DISKLUN with names and numbers or a DISKINFO with  *)
(* names, is what the same request would get now, or a notification is        *)
(* pending that will make it ask.                                             *)
Notified ==
  evpc \in {"bind", "poll"} =>
    \/ notify \/ app.told
    \/ app.view = ViewOf(Cut(MountedDisks(list), MaxNodes))
    \/ app.view = NamesOf(Cut(MountedDisks(list), MaxInfoNodes))

(* protocol.h: seqnum is the "sequence number represent plug counts", so that *)
(* a disk which is not the one that was plugged in before has another.        *)
PlugCounted ==
  Settled => \A i \in DOMAIN list : list[i].inst = table[list[i].name].inst

(* "%s is already mounted" (disk_mnt3_automount_partition()): a partition     *)
(* that is marked is mounted.                                                 *)
MarkedMounted ==
  \A i \in DOMAIN list : \A j \in DOMAIN list[i].parts :
    list[i].parts[j].mounted =>
      \E m \in MountsOf(list[i].name) : m.num = list[i].parts[j].num

(* protocol.h: a diskInfoNode has "partitions[MAX_PARTITIONS]", so that a     *)
(* disk with as many fits it.                                                 *)
InfoComplete ==
  [][DiskInfo /\ Len(MountedDisks(list)) <= MaxInfoNodes
       /\ (\A i \in DOMAIN list : Cardinality(MountedParts(list[i])) <= MAX_PARTITIONS)
       => app'.view = NamesOf(MountedDisks(list))]_vars
=============================================================================
