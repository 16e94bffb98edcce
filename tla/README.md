# U-Storage on device: TLA+ models, checks and proofs

`src/` is a daemon that runs on a small router-like device. A phone is plugged
into its USB port, a disk into another; the daemon (`ustorage`) finds the phone,
opens a packet stream to the app on it (over the iPhone's usbmux protocol, or
over Android's accessory mode), and serves the app's requests for the files on
the disk. Depending on the build, the disks are managed by the daemon itself
(`diskm/`) or by a service that it asks over a UNIX socket (`diskipc/`).

This directory holds TLA+ modules of that system, the TLC configurations that
check them on small instances, and theorems about them that TLAPS checks.

    tlc -config MCUStorage_safety.cfg MCUStorage      # check one instance
    tlapm UStorageProofs.tla                          # check one module's proofs

## 1. The system

### 1.1 Parts

| Part | Source | State | Operations | Module |
|---|---|---|---|---|
| Main loop | `usStorage.c` 314-447 | `conState`, `usContext.phone`, `phonePlugin` (written by the event thread) | wait, detect, connect, receive, handle, reply, notify, release | `UStorage` |
| Pending notification | `usDisk.c` 56-113, 252-279 | `notifyInfo` under `rlock` | record, consume, cancel | `UStorage` and `DiskIpc`, which implement `DiskNews` |
| Event thread | `usEvent.c` | two sockets, two callbacks | phone and disk uevents, messages of the disk service | `UStorage`, `DiskManager`, `DiskIpc` |
| Phone claim | `usProtocol.c` 965-1370 | the libusb handle | enumerate, switch to accessory, open and claim, release | `UStorage` |
| iPhone transport | `usProtocol.c` 123-960 | sequence numbers, acknowledgements and windows of `struct mux_itunes` | version, setup, handshake, send and receive a package | `ItunesMux`, which implements `ByteStream` |
| Accessory transport | `usProtocol.c` 642-696, `usUsb.c` | none | bulk transfers with a timeout, the split of aligned ones | `Requests` |
| Packages and file operations | `usStorage.c` 160-312, `usDecode.c`, `usDisk.c` | the one buffer `usContext.uspayload` | receive a package, dispatch, read, write, create, delete, move, sync, ... | `Requests` |
| Listings | `usDecode.c` 264-430, `usDisk.c` 282-315 | `struct listCallback` on the shared buffer | LIST in pages, FILE_INFO | `DirList` |
| Firmware upgrade | `usFirmware.c` | `static int fd`, the file in `/tmp` | UPDATE_START, _DATA, _END | `Firmware` |
| Disk service client | `diskipc/diskipc.c` | none between calls | call, parse | `DiskIpc` |
| Disk manager | `diskm/disk_manager.c` | `i4disk`: disks, partitions, mount points, tags, counters | the tag file, three passes over an added disk, removal, DISKLUN, DISKINFO | `DiskManager` |
| Probes of the partition table | `diskm/libblkid-tiny.c` 360-490 | none | is it a GPT, is a partition one of the firmware's | `DiskManager` |
| Superblock probing, SCSI sleep, helpers, logging | `diskm/*.c` but the above, `usSys.c` | none of interest | | not modelled |

### 1.2 How they interact

Two threads. The event thread polls a netlink socket (phones and, in the
`diskm` build, disks) and the socket of the disk service. On a phone event it
writes the flag `phonePlugin`, without a lock; on a disk event it takes `rlock`,
lets the disk manager do its work and records the event in `notifyInfo`. The
main thread runs one loop: it polls the flag, detects and connects the phone,
receives a package, handles it and sends the answer, and, at the end of a round,
sends a notification if one is recorded. DISKLUN and DISKINFO take `rlock`, read
the list (or ask the service) and cancel the notification, since their answer
shows everything it could announce.

The app is told only *that* something changed (an empty DISKLUN package) and asks
for the list itself; so a lost notification is a stale list for ever.

### 1.3 What is hard, and what makes each part right

* *Main loop and event thread.* Unplugs and replugs at any step, a flag that is
  read twice per round, a device handle that outlives its device. Right: exactly
  the claimed interface is in use, no session without its phone, the flag ends
  up true, a phone that stays is served.
* *Notification.* Cancelled by main() while the other thread records. Right: a
  change is pending, announced or shown, or its message was lost on the wire or
  thrown away by the event thread;
  and an answer cancels no more than it shows (`DiskNews`).
* *iPhone transport.* One thread sends, receives and waits in turn; timeouts on
  both pipes, also in the middle of a packet; stale packets of an earlier
  connection; acknowledgements that lag.
  Right: two byte streams, no half-open session, no window that stays shut.
* *Packages.* The stream is cut anywhere, reads time out in the middle or end
  within a header, packages are too big, answers go out in several transfers.
  Right: only whole packages are handled, and only whole answers taken; success
  means done; a request made when the streams are empty is answered, whatever was
  lost before.
* *Listings.* Pages cut by a buffer, entries that vanish. Right: each entry once,
  in order, and one end, after the last page (marked but for a case of section 6).
* *Firmware.* A static descriptor that outlives failures, uploads that are cut,
  repeated and begun anew. Right: no descriptor is leaked, only an image is
  accepted, an image acknowledged block by block is accepted (unless a block went
  to another file after a failed write of the same upload, section 6).
* *Disk service client.* The service is slow, silent, failing, dead, started
  anew. Right: every call returns, with one whole list, and the lock comes back
  (but for the two places of section 6); a message that comes in parts or is cut
  off does not stop the event thread.
* *Disk manager.* The disk is pulled, swapped or repartitioned between three
  passes, or between the steps for one partition; a medium is swapped under a mount;
  disks change places, and their mount points are named after the place.
  Right: what is mounted is marked, a mount point shows its own partition, nothing
  of the firmware is mounted, the list settles on what is there (but for a swap that
  nobody notices and a table that changes after the look at it, section 6).

PROJECT.json lists the hazards at their lines with the properties that cover
them.

## 2. The modules

In all of them a number is abstract (units instead of bytes, versions instead of
contents) and each `MaxSomething` constant marked `bound` in its module limits
the environment (devices plugged, changes made, requests sent), never the code.
Definitions commented `Fault:` are plausible errors of the code, none of them in
the next-state relation: each breaks a property when it takes the place of the
definition it stands before, which shows that the property depends on the code.

**`UStorage`**, the core. `pc` is main()'s place in its loop; an action goes from
one access of shared state, or one call that can block, to the next: `WaitPlugIn`
(line 379), `DetectClaim`/`DetectSwitch`/`DetectNothing`, `ConnectOk`/
`ConnectFail`, `RecvRequest`/`RecvIdle`/`RecvRefuse`/`RecvOffline`, `QueryLock`,
`Query`, `QueryUnlock`, `ReplyOk`/`ReplyLost`/`ReplyOffline`, `LoopUnplugged`/
`LoopPlugged` (line 436), `GetNotify`, `PushOk`/`PushLost`. The event thread's
actions are `EvBind` and `EvTrigger` (the socket is bound, then the kernel asked
for the "add" of a phone that was there first), `EvPhone`, `EvDisk`, `EvDiskUnread`
(a message that is cut off, or names no disk, is thrown away) and `EvDiskCall`. The bus, the phone's
re-enumeration as an accessory, the disk and the app are the environment. The
transport is reduced to the result codes it returns.
  A device number is used once, so that a stale handle can be told from a new
one. Two facts of the code that shaped the model: a handle stays claimed while
the phone is out if the unplug falls between lines 436 and 379, until the next
plug; and the branch for EUSTOR_PRO_REFUSE after a handled request is never
reached. `NoLostChange` speaks of each change that is to be reported: not of one
whose event was thrown away (`unread`), and not of the "add" of a disk that has left
again, whose device can no longer be opened. It counts a notification whose send
failed as lost (`missed`): the code ignores the result.

**`DiskNews`** is the promise about disk changes: a change is recorded while no
request for the disks is served, unless its event is thrown away (`Miss`); a request is answered from one list, and only
its answer, or an announcement, takes the pending notification away. `UStorage`
implements it with `Query` in one step, `DiskIpc` with a call taken apart; `News`
is the refinement mapping in both. `AnswerCovers` says what the promise is worth:
an answer that cancels the notification shows the disks as they are, or a change
is still to be recorded, or the event of the last change was thrown away.

**`ItunesMux`** and **`ByteStream`**. One claim of one iPhone: version exchange,
setup, handshake, then packages both ways. `tx_seq`, `tx_ack`, `rx_ack`, `rx_win`
are the code's; `left` and `win` are its locals; `out` and `in` the two USB
pipes; `phone` is the other end, external, its behaviour taken from what the code
expects of it and compared with the trace `itunes.log`. Kept from the code: a
setup packet whose send failed is skipped on the retry; a failed last
acknowledgement of the handshake leaves the numbers counted up; a bare TCP header
is taken as an acknowledgement whatever its flags (the phone's resets carry a
message); acknowledgements go out before the segment is counted. A packet from
the phone may take two transfers (`RecvHead`, `RecvRest`), of which the first holds
the headers and some payload. If the second is late (`RestTimeout`), the session
goes on and the rest is decoded as a packet (`RecvGarbled`): from then to the next
connection (`cut`) nothing is promised. `ByteStream` is the promise to main() and
the app, and `Channel` its refinement mapping. Not modelled: packets in more than
two transfers, ports, `itx_seq`/`irx_seq`, partial USB writes.

**`Requests`**. A package is a sequence of units `<<tag, position>>`, two of them
the header; a read takes any number of them (`RecvFirst`, `RecvMore`), a timeout
drops what was read (`RecvTimeout`), and a first read that ends within a header
or finds a package that does not fit is skipped. Then one handler:
`Read`, `Create`, `Delete`, `Move`, `Sync`, `Basic`, `FirmwareInfo`, `SyncTime`,
`SafeRemove`, or the write loop `WriteOpen`, `WriteStep`, `WriteDone`,
`WriteFails`. `fs` is what the file system shows, `stored` what is on the medium;
`Writeback`, `Unplug`, `Replug`, `Errors` are the disk's. The app sends one
request at a time, may give up waiting, and finishes every package it began.
Two packages merged in one read lose the second, as in the code. `clean` says that
the streams are whole: it is lost with a timeout, a read that is skipped or a
request that is given up, and comes back with a new session or a request made
when nothing is left in the streams (`Quiet`). Paths are flat. The answer goes out in the
transfers of `aoa_SendProPackage()` (`Reply`, `Transfer`, `Part`): the phone hands
on what it has got when a USB packet comes that is not full, which is why a
transfer of full packets only is split. A timeout (`ReplyTimeout`) may have moved
some packets and keeps the session.

**`DirList`**. `readDirInvoke` with `usedsize`, `fileNum` and the entries in the
buffer; `Flush`/`FlushFails`, `Stat`, `Finish`. Entries may be deleted at any
time; none is created while a listing runs. When the buffer is empty at the end,
only a protocol header goes out (`HeaderOnly`): the count and the mark are set in
a payload of length 0, and an app can only take the header for the end (`Ends`).
A page whose send fails ends the listing, and main() is not told: the parenthesis
at `usDecode.c:297` is misplaced and the result of the handler is not looked at.

**`Firmware`**. `fd` is the static descriptor, `owner` what each number is open
for in the process, `WriteStep` one `write()`. An image is two blocks; its first
64 KB are not covered by the MD5, which `Digested` keeps. A second script,
started by a repeated UPDATE_END, is not modelled.

**`DiskIpc`**. One call taken apart: `Lock`, `Connect`, `Write`, `ReadHdr`,
`ReadBody`, `Check`, `ListDisk`/`Filter`/`ListEnd`, `Unlock`, with their failures,
against the service (`Change`, `Accept`, `Answer`, `AnswerBody`, `Drops`, `Dies`,
`Starts`) and the event thread. Calls wait for the service in a queue of `Backlog`
places and in their order; one that timed out keeps its place until the service
has accepted it (`waiting`), and connect() waits while the queue is full (`Stuck`),
since only read() has a timeout. `EvAccept` takes the service's connection, on
which the message may come in parts, be cut off or never come (`EvMessage`);
`EvRead` is the end of ipcRead() and the checks of handleStoragePlug(), `EvCall` the
callback under `rlock`. handleIPC() passes the message's `type` for the device, whose
name may be that of no disk; the model lets it pass on or throw away any event,
and keeps what was thrown away in `unread`. Assumed of the service: it has told
the daemon of a change before it dies. A free that is skipped when the buffer is full, or the
answer empty, leaks memory and is not modelled.

**`DiskManager`**. `Mnt1` and `Mnt2` are the first passes of
`disk_mount_process()`; the third takes three steps for a partition: `Mnt3Probe` looks
at the partition table, `Mnt3Find` for a mount, `Mnt3Mount` mounts it (or mount()
fails). The disks change between any two steps; a mount made from another table
than the one looked at is kept apart as `late`. The first pass is one step with its
probe for a GPT, since /proc/partitions is read in one go; a disk that leaves before its link can be read
gets no tag (`unlinked`). The main thread runs them once for all disks before the socket is bound
(`Bind`); what happens before is not heard (`deaf`). `mounts` is /proc/mounts, in
the order of mounting: a mount covers what was mounted on its directory before,
and umount2() takes away what is on top. The directory is named after the
partition or after the tag of the disk's place (`TagOf`, from the tag file as
`ReadTag` reads it) and a volume number made up of digits (`VolNum`). `Places` says
which places a disk of a name may be in: one of its own, or any. `IsEfi` is
the pair of probes that keeps the firmware's partitions from being mounted: the
first made when the disk is listed, the second before each mount. `MediumOut` and
`MediumIn` may come while the disk is mounted; two "change" events that both find
the new medium in place leave the old mount as it is. A DISKLUN shows the app
names and plug numbers, a DISKINFO, whose nodes are larger and have no number, only
names (`ViewOf`, `NamesOf`, with room for `MaxNodes` and `MaxInfoNodes`); either takes
the pending notification away. Assumed of the kernel and user: the name of a disk
is not given out again while something is mounted from it, a mounted partition
keeps its device when the medium is swapped, no table is written while something
is mounted, and umount2(MNT_DETACH) of a mount succeeds.

The `MC...` modules give names to the sets the configurations use.

## 3. The runs

Each run's properties are stated in its module with a comment.

| Run | Checks | Instance and why it is enough |
|---|---|---|
| `core_safety` | `TypeOK`, `ClaimMatchesPhone`, `StateMatchesPhone`, `PlugFlagSettles`, `NoLostChange`, `NoSwap`, `ImplementsNews` | iPhone and Android phones, 3 device numbers (an Android phone uses two: switch and accessory, so a third device follows a full switch), 3 disk changes (plug, unplug, plug), any of whose events may be thrown away. 7.1 million states. |
| `core_live` | `PhoneServed`, `ChangeReported`, under fairness | All three kinds, 3 devices, 1 disk change. |
| `mux_stream` | `TypeOK`, `DownInSync`, `UpInSync`, `NoHalfOpen`, `ImplementsStream`, `UploadProgresses` | Packets of 2 units, in one or two transfers, windows of 2 and 3, packages of 3: a package needs two packets and overruns the phone's window; three units from the phone fill the daemon's; pipes of 2 packets fill up. 1.4 million states. |
| `list_pages` | `TypeOK`, `Exact`, `PagesConsistent`, `Answered` | Two entries a page, up to five entries: an empty, a part, a full page and three pages. |
| `ipc_calls` | `TypeOK`, `ListExact`, `ImplementsNews` | Two disks in two states, a buffer for one, two changes: a list that is cut, a change during the call and one before; each message whole, cut off or half; a queue with room for one call. 2.3 million states. |
| `ipc_live` | `CallAnswered`, `EventProceeds`, under fairness | The same with one disk. 700 000 states. |
| `ipc_filter` | `CallReturns`, violated | See 6. |
| `disk_parts` | `TypeOK`, `MountsListed`, `ListSettles`, `EfiIgnored` | One disk with partitions 1 and 10 (whose names share a beginning), the first of them the firmware's where a GPT says so, inserted twice, with a change or a new partition table between. What the replies show is `disk_two`'s question: here they have room for no disk. 1.2 million states. |
| `disk_two` | `ServedFromOwn`, `Notified` | Two disks in two places, with tags of one directory and two volumes, a DISKLUN with room for both, a DISKINFO for one; after the disks of the start one more comes: a disk that was not there, one that left, or a medium that is swapped under its mount, while the other disk stays or leaves. 1.5 million states. |
| `disk_marked` | `MarkedMounted`, violated | See 6. |
| `requests_safety` | `TypeOK`, `WholePackages`, `OkMeansDone`, `SyncedKept`, `AnswersWhole`, `Answered` | Two out of fifteen requests (one too big for the buffer of 4 units, of which a header takes 2), one given up, the disk pulled out once: a package broken off and the next, a change and its sync; answers of one to three units over USB packets of two. 1.4 million states. |
| `firmware_upload` | `TypeOK`, `NoLeak`, `AcceptedWhole`, `AckedAccepted` | Two images of two blocks of two units, seven requests (an upload that is broken off and a whole one), two descriptors opened for others. |

Deadlock is checked but in `Requests` and `Firmware`, where the app may stop
asking for good.

*Fairness.* Threads that poll or loop are weakly fair: the code returns to the
top of main() and of the poll loop from everywhere. Never the user, the app or
the service. In `core_live` the event thread gets `rlock` if main() gives it back
again and again (strong fairness of `EvDiskCall`: main() sleeps outside the
lock), and detection and connection, tried again and again on a phone that is
there, succeed some time (strong fairness of `DetectClaim`, `DetectSwitch`,
`ConnectOk`: they depend on the phone, and without it nothing could be promised).
`Reenumerate` is the phone's answer to the switch. In `ItunesMux` both ends keep
reading; the app may stop sending. In `Requests` the app finishes a package it
began and reads what comes. In `DiskIpc` the event thread reads on, but the
service need not send.

*Qualified liveness.* `PhoneServed` has an exception that the model found: an
iPhone that leaves and comes back while main() connects to it leaves main() in
CON_CNTING with a handle of the device that is gone; nothing brings it back to
CON_INIT until the phone is pulled out again (`DeadConnect`). `UploadProgresses`
assumes that no acknowledgement times out, and says nothing once a packet was
given up half-way; `ChangeReported` ends when the wire
loses the message or the session ends; `Answered` promises nothing from a loss in
the streams to the first request made when nothing is left in them; `CallAnswered` and `EventProceeds` except
the loop of section 6 and a connect() that stays for ever, and `EventProceeds` a
service that sends a part of a message and keeps the connection open, on which
ipcRead() waits without a limit. An artefact of the bound: a phone that switches to
accessory when all device numbers are used never comes back; `PhoneServed` does
not speak of it.

## 4. The proofs

The theorems hold for every value of the constants that the module's assumption
allows; they were checked with TLC on an instance, the strengthened invariants
included, before they were proved. Every proof has the same shape: an inductive
invariant `IInv` that contains the properties, `Init => IInv`, one lemma per part
of it for a step, with one proof step per action, and `Inductive == Spec => []IInv`.

| Module | Theorem | States | Assumes |
|---|---|---|---|
| `UStorageProofs` | `TypeCorrect` | `Spec => []TypeOK` | any kinds of phones; `MaxDevs`, `MaxDisk` in Nat |
| | `NoLeak` | `Spec => []ClaimMatchesPhone` | |
| | `SessionState` | `Spec => []StateMatchesPhone` | |
| | `PlugFlag` | `Spec => []PlugFlagSettles` | |
| | `ChangesKept` | `Spec => []NoLostChange` | |
| | `NoSwapCorrect` | `Spec => NoSwap` | |
| | `Implements` | `Spec => ImplementsNews` | |
| `DiskNewsProofs` | `NewsAnswered` | `Spec => AnswerCovers` | nothing |
| `DiskIpcProofs` | `TypeCorrect` | `Spec => []TypeOK` | any disks and status values, any size of the reply buffer |
| | `RepliesExact` | `Spec => []ListExact` | |
| | `Implements` | `Spec => ImplementsNews` | |
| `DirListProofs` | `TypeCorrect` | `Spec => []TypeOK` | a page has room for its header and one entry |
| | `PagesAgree` | `Spec => []PagesConsistent` | |
| | `ListingExact` | `Spec => []Exact` | |
| `FirmwareProofs` | `TypeCorrect` | `Spec => []TypeOK` | descriptors are numbers, a block is not empty |
| | `OneDescriptor` | `Spec => []NoLeak` | |
| | `OnlyImages` | `Spec => []AcceptedWhole` | |
| | `NoneRefused` | `Spec => []AckedAccepted` | |
| `RequestsProofs` | `TypeCorrect` | `Spec => []TypeOK` | requests have the parameters of their kind; a USB packet holds more than one unit |
| | `PackagesWhole` | `Spec => []WholePackages` | |
| | `AnswersTrue` | `Spec => []OkMeansDone` | |
| | `SyncedStays` | `Spec => []SyncedKept` | |
| | `AnswersTaken` | `Spec => AnswersWhole` | |
| `ItunesMuxProofs` | `TypeCorrect` | `Spec => []TypeOK` | `TxWin > MaxSeg`: the daemon's window has room for a packet of the phone |
| | `DownStays` | `Spec => []DownInSync` | |
| | `UpStays` | `Spec => []UpInSync` | |
| | `NoneHalfOpen` | `Spec => []NoHalfOpen` | |
| | `Implements` | `Spec => ImplementsStream` | |
| `DiskManagerProofs` | `TypeCorrect` | `Spec => []TypeOK` | finitely many names and partition numbers |
| | `MountsAreListed` | `DirsApart => (Spec => []MountsListed)` | `DirsApart`: no two disks, and no two partitions, share a directory |
| | `FirmwareIgnored` | `DirsApart => (Spec => []EfiIgnored)` | |
| | `Settles` | `DirsApart => (Spec => []ListSettles)` | |
| | `Served` | `DirsApart /\ Prefix = {} => (Spec => []ServedFromOwn)` | moreover, no name of a partition begins another |
| | `MarksMeanMounted` | `DirsApart /\ Prefix = {} => (Spec => [](WholeOrParts => MarkedMounted))` | the same; `WholeOrParts`: no disk is listed both as a whole and with partitions |
| | `NewsArrive` | `Spec /\ []Fits => []Notified` | `Fits`: fewer than MAX_PARTITIONS partitions of a disk are mounted |
| | `InfoShowsAll` | `Spec /\ []Fits => InfoComplete` | |
| | `TagsApart`, `RoomForAll` | when `DirsApart` and `[]Fits` hold | |

None of the properties is inductive alone. What `IInv` adds, and why:

* **`UStorage`**: `IInv == TypeOK /\ SessionInv /\ PlugInv /\ ChangeInv`.
  `SessionInv` adds to the two session properties that nothing has happened before
  the event thread has its sockets (`QuietStart`), and that main() has `rlock` exactly around
  a query (`LockSpan`). `PlugInv` adds `LastUevent`: the last uevent in the queue
  agrees with the bus; without it the last event read could leave the flag wrong.
  `ChangeInv` adds `IpcOrder`, the events that wait are those of the last changes in
  their order, and `YoungChange`: while main() holds a snapshot that is out of
  date, each change it does not show is still in front of `rlock`. This is why
  cancelling the notification loses nothing. `Implements`
  follows from `TypeOK`, `QuietStart`, `LockSpan` and `IpcOrder`: nobody asks
  before the event thread runs, main() has the lock when it takes the list and
  until it has answered, and an event that is passed over has a later one behind it.
* **`DiskNews`**: `NewsInv` says that a list that is out of date has its change
  still in front of the recorder, or that the last change was thrown away. With `Implements` of `UStorage` and of `DiskIpc`
  this is the promise for the daemon itself.
* **`DiskIpc`**: `LockSpan`; `EventOrder`, one event for each change, in their order;
  `WireFits`, what is on the wire at each step of the call is the answer to this
  call; `Gathered`, the nodes written so far are the first disks of one list and
  the loop has the rest of it before it; `Fresh`. Together they say that a failure at any
  point leaves nothing for the next call to pick up.
* **`DirList`**: `PageFilling`, what `usedsize` and `fileNum` are worth in the
  middle of a page; `NotAhead`, no list is ahead of readdir() (so that nothing
  comes twice); `ReadToEnd`.
* **`Firmware`**: `HeaderFirst`, the first block of the file is the header of the
  image it was begun for, which is what the MD5 leaves out; `FileIsAcked`, the file
  is what was acknowledged and the part of the block being written, until a write
  failed; `EndCloses`.
* **`Requests`**: `Arriving`, each header that is in the buffer or still to come
  has its package behind it; `Answering`, the same for the answers, where a part
  that the phone holds back and the part that main() has not sent count as one
  stream; `Kept`, what the app may count on is on the medium; `Writing`, after each round of the
  write loop the file is the old one with the data written so far laid over it.
  `OverlayTwice` (two writes, the second where the first ended, are one write) is the
  lemma behind it.
* **`ItunesMux`**: `Outdated`, whatever an earlier connection has left in the pipe
  to the daemon has a reset behind it: behind its data, behind the answer to its
  SYN, and between its data and the answer to the next SYN; `Chain`, since its last
  SYN the daemon has sent packets that follow each other without a gap, up to `tx_seq`,
  and the phone, if it has taken the SYN, is where they begin; `InStep`, while no
  reset is on its way the phone is in the daemon's connection and has sent what the
  daemon will have counted; `RestsFollow` and `RestsAwaited`, a rest is behind its head, so
  that the daemon meets it where it waits for it unless it has given one up.
  The invariant is what makes the sequence numbers work though every retry starts
  from 0 again: no packet of an earlier connection is taken for one of this.
  `Follows` gets the three properties from it, `ChannelStep` the refinement: the
  connection opens when the phone takes the last packet of the handshake or the
  daemon reads a repeated SYN's answer as a window, and from then to its end only
  one of the four counts grows in a step.

* **`DiskManager`**: two invariants. `IInv` needs no assumption: `Early`, what the
  start without a socket is like; `WorkListed`, the third pass has only listed
  partitions before it; `InHand`, the one in its hands was not the firmware's when the
  table was looked at, nor mounted when /proc/mounts was; `OwnPaths`, the paths that are noted or mounted are those
  of the disk and partition; `LastUevent` as in `UStorage`; `AddAfterRemove`, an
  "add" in the queue has the removal of the disk that had the name in front of it,
  unless that has been worked off; and `Calm`, a disk without an event in the
  queue is listed if and only if it is there, or is in one of the passes.
  `AddAfterRemove` is why a name that is given out again ends up with the new
  disk. `MountInv` adds `MountsOnce`, `MountsNoted` (what is mounted is listed,
  marked, and noted with the path it is mounted on), `MediumMounted` (as long as the
  medium it was mounted from is there, a mount is of a file system on it) and
  `InstOrder`: a disk is listed, then mounted, and what comes later has a higher
  number, so that a mount is never of a medium older than its disk's listing. It is
  kept by a removal because that takes away the mounts of its disk and no others
  (`RemoveExact`), which is so only where no path is shared; the configurations of
  section 6 show that the properties fail where one is. So `DirsApart` says what
  the code relies on, and `TagsApart` when that is true: the tags of different
  disks differ, and partitions are numbered up to 9 (those of two digits may share
  a volume number). `ServedFromOwn` needs `MarksTrue` as well, a mark is of a
  mount, or of the whole of a disk that has one, and speaks of no disk whose medium was
  swapped under its mount; where one name begins another
  that is what `disk_marked` refutes. With the assumption `MarksMeanMounted` follows:
  the only other way for a mark to be wrong is a disk that gets a partition table
  while it is listed as a whole. `Notified` rests on `NewsKept` alone, which
  holds at every step; without `Fits` DISKINFO leaves disks out
  (`MCDiskManager_info`) and takes the notification away all the same, and with
  it (`InfoShowsAll`) the disks are all there.

`ItunesMux` sums up what a pipe carries with a recursive function (`Sums`), and
`DiskManager` unmounts one path after the other with one (`UnmountAll`). That
such a function is what its definition says (`SumsAdds`), and what follows along a
pipe (`Unbroken`), needs induction over the naturals; `Induction` derives it, for sets of
naturals, from the library's theorem that they are well founded, since the
induction theorems with an operator for the predicate cannot be used with the
installed provers.

Every safety property that a passing run checks is proved. Only model-checked: all
liveness (`PhoneServed`, `ChangeReported`, `UploadProgresses`, `CallAnswered`,
`EventProceeds`, `Answered`), as the prover has no rule for liveness under
fairness or for ENABLED. The statements of section 6 are refuted by TLC; for
two of them a theorem says when they hold (`MarksMeanMounted`, `InfoShowsAll`), and
for `ServedFromOwn` and `MountsListed` the theorems of the table do.

## 5. Not modelled

The text of uevents and messages; a netlink queue that overflows and events
that are lost with it; several USB devices (the accessory switch is tried on each
one that is not a phone); a socket of the disk service that could not be made
(tried again only when poll() returns), or a list that could not be allocated
(`usDisk.c:81` ignores that disk_init() fails); packets of the phone in three or
more transfers; source ports that wrap around (`usProtocol.c:170`); the superblock
probers; sizes, names and options of mounts; packages of the old protocol;
functions nothing calls; daemonizing. What the hazards list says with a note.

## 6. Where the code departs from what it says

Runs that end in a counterexample, with their findings in PROJECT.json:

* `ipc_filter`: `disk_getdisk_lun()` (`diskipc/diskipc.c:278`) continues without
  moving on, so that one disk that is not mounted keeps main() in the loop, with
  `rlock`, and the event thread behind it.
* `disk_marked`: `find_mount_point()` (`diskm/disk_manager.c:540`) compares the
  beginning of a line: sda1 passes for mounted when sda10 is.

Further statements that do not hold are kept in their modules, each with a
configuration that shows the counterexample:

| Configuration | Statement | What happens |
|---|---|---|
| `MCItunesMux_window` | `WindowRespected` | Each package starts from the last window received (`usProtocol.c:713`), whatever was sent since; "Peer Windows is full" is noticed late. |
| `MCItunesMux_cut` | `UpInSyncCut` | A packet whose rest is late is forgotten, the session kept (`usProtocol.c:800`): its rest is decoded as a header. |
| `MCDirList_size` | `DirSizeZero` | A listing gives a size for directories (`usDecode.c:334`); protocol.h:251 says 0, as FILE_INFO gives. |
| `MCDirList_end` | `EndMarked` | A listing that ends with an empty buffer is ended by a header alone: the mark, "finish or not" (`protocol.h:256`), is set (`usDecode.c:344`) in a payload of which nothing is sent. |
| `MCDiskIpc_connect` | `CallTimesOut` | "Set socket timeout to 60s" (`diskipc/diskipc.c:84`) bounds reads, not connect() (line 92). A service that accepts nothing lets a call time out in read(), its connection stays in the queue, and when the queue is full the next call stays in connect(), with `rlock`. |
| `MCDiskIpc_disknum` | `DiskNumExact` | `disknum` counts on from what the buffer held (`diskipc/diskipc.c:285`). |
| `MCDiskIpc_length` | `PayloadLength` | The size of a DISKINFO answer counts a header that is not copied (`diskipc/diskipc.c:346`). |
| `MCDiskManager_info` | `InfoComplete` | A disk with MAX_PARTITIONS partitions is left out (`diskm/disk_manager.c:2136`). |
| `MCDiskManager_swap` | `SwapSeen` | A medium swapped quickly: both "change" events find the new one in place (`usEvent.c:299`), none is taken for a removal, and the mount of the old one stays. |
| `MCDiskManager_plug` | `PlugCounted` | The disk of a medium swapped like that keeps its number (`diskm/disk_manager.c:1102`). |
| `MCDiskManager_moved` | `ServedFromOwn` | A disk that changes its place before the socket is bound is mounted under the tag of the place it was listed in, and the disk that comes there covers it (`diskm/disk_manager.c:1535`). |
| `MCDiskManager_slots` | `MountsListed` | Two slots of a card reader share the flag of a tag, and so a directory: the removal of one card unmounts the other's (`diskm/disk_manager.c:1535`). |
| `MCDiskManager_tagfile` | `ServedFromOwn` | A flag that the tag file repeats gives its volume to the entry before it (`diskm/disk_manager.c:434`). |
| `MCDiskManager_volnum` | `ServedFromOwn` | sda11 and sda20 get the same volume number (`diskm/disk_manager.c:671`). |
| `MCDiskManager_efi` | `EfiHidden` | A table that changes after the look at it, or a GPT that the disk gets after it was listed, has its firmware's partitions mounted (`diskm/disk_manager.c:895` and 1309). |
| `MCRequests_late` | `AnswersWholeLate` | After an answer timed out half-way the app takes parts of two for one (`usStorage.c:422`). |
| `MCRequests_saferemove` | `Responded` | The empty branch for SAFEREMOVE (`usStorage.c:294`) has nothing sent, which `aoa_SendProPackage()` refuses (`usProtocol.c:649`), and costs the session. |
| `MCRequests_delete` | `DeleteDone` | The result of `rm -rf` is ignored (`usDecode.c:177`). |
| `MCFirmware_acked` | `AckedSuffices` | After a failed write (`usFirmware.c:424`) the static `fd` keeps the number of a closed descriptor; blocks sent again go to whatever was opened under it, are acknowledged, and the image is refused. |
| `MCFirmware_fd` | `DataToFirmware` | After a failed write a repeated block goes to whatever has the number of the closed descriptor (`usFirmware.c:424`). |
| `MCFirmware_flash` | `FlashedAccepted` | A new UPDATE_START truncates the file that is being flashed (`usFirmware.c:560`). |

Read in the code and not modelled: `disk_destory()` unmounts what is *not*
mounted (`disk_manager.c`, `mounted == 0`); `disk_num` only grows;
`strcpy(mdisk->type, "SD") == 0` is never true and makes every disk without a tag
an "SD"; the partitions of mmcblk0 are called p1, p2, ..., whose number is read as
0, so that the firmware's partitions of an SD card are not recognised; the "Update
storage information" of DISKINFO (`disk_manager.c:2129`) updates nothing; CREATE
makes the file and may then report that utime() failed (`usDisk.c:242`); the
comment on the socket timeout says 60 s where the constant is 10.

## 7. Plan

Written, in this order: `UStorage` with its proofs, `ItunesMux`/`ByteStream`,
`DirList`, `DiskIpc`, `DiskManager`, `Requests`, `Firmware`; then mount points,
tags and the firmware's partitions in `DiskManager`, `DiskNews` with its proofs and
the two refinements, messages in parts in `DiskIpc`, packets in two transfers in
`ItunesMux`, answers in transfers in `Requests`.

Then the proofs about `Firmware`, `DirList`, `DiskIpc` with its refinement,
`Requests`, `ItunesMux` with its refinement, and `DiskManager`, whose mount points
got their places for them.

Left: a second flashing script, started by a repeated UPDATE_END, and the parts that
section 5 names.
