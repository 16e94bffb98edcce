------------------------------ MODULE DirList ------------------------------
(***************************************************************************)
(* The LIST request (usDecode_ListHandle and readDirInvoke of usDecode.c,  *)
(* usDisk_diskList of usDisk.c): a directory is sent to the app in pages   *)
(* that reuse the buffer the request came in; and FILE_INFO, which         *)
(* describes a single entry.                                               *)
(*                                                                         *)
(* The disk is shared with other programs: entries may be deleted while    *)
(* the directory is read.  An entry is its place in the directory.         *)
(***************************************************************************)
EXTENDS Integers, Sequences, SequencesExt

CONSTANTS Size,        (* listcall.size: the room for a page's payload         *)
          Hdr,         (* sizeof(struct operation_listResponse)                *)
          Node,        (* sizeof(struct fileinfo)                              *)
          SubDirs,     (* the entries that are directories themselves          *)
          MaxEntries   (* bound: entries of a directory                        *)

(* A page has room for an entry: listcall.size is close to LIST_MAX_BUFFER.   *)
ASSUME DirListAssumption ==
  /\ {Size, Hdr, Node, MaxEntries} \subseteq Nat \ {0}
  /\ Hdr + Node <= Size
  /\ SubDirs \subseteq 1..MaxEntries

VARIABLES
  pc,        \* "wait", "dir" (readdir), "flush", "stat", "fin"
  count,     \* entries of the directory being listed
  cur,       \* the entry readdir returned last
  gone,      \* entries deleted since the listing began
  usedsize,  \* of listcall
  fileNum,   \* of the listResponse at the start of the buffer
  fileList,  \* the entries that follow it
  pages,     \* what the app got in answer to the last request
  info,      \* the FILE_INFO answers about the directory's entries
  lost       \* a page of this listing could not be sent

buffer == <<usedsize, fileNum, fileList>>
vars == <<pc, count, cur, gone, buffer, pages, info, lost>>

Entries == 1..MaxEntries

(* The file system says of a directory that it has a size, too.               *)
StSize == 1
FileInfo == [name : Entries, isdir : BOOLEAN, size : 0..StSize]
Page == [num : Nat, len : Nat, finish : BOOLEAN, error : BOOLEAN, files : Seq(FileInfo)]

(* A protocol header alone: what the listResponse says does not go out.       *)
HeaderOnly(failed) ==
  [num |-> 0, len |-> 0, finish |-> FALSE, error |-> failed, files |-> <<>>]

TypeOK ==
  /\ pc \in {"wait", "dir", "flush", "stat", "fin"}
  /\ count \in 0..MaxEntries /\ cur \in 0..MaxEntries
  /\ gone \subseteq Entries
  /\ usedsize \in 0..Size /\ fileNum \in 0..MaxEntries
  /\ fileList \in Seq(FileInfo)
  /\ pages \in Seq(Page)
  /\ info \subseteq FileInfo
  /\ lost \in BOOLEAN

Init ==
  /\ pc = "wait" /\ count = 0 /\ cur = 0 /\ gone = {}
  /\ usedsize = 0 /\ fileNum = 0 /\ fileList = <<>>
  /\ pages = <<>> /\ info = {} /\ lost = FALSE

-----------------------------------------------------------------------------
Go(from, to) == pc = from /\ pc' = to

Alive(e) == e \in 1..count \ gone

(* Somebody else deletes an entry.                                            *)
Delete ==
  /\ \E e \in 1..count : Alive(e) /\ gone' = gone \cup {e}
  /\ UNCHANGED <<pc, count, cur, buffer, pages, info, lost>>

(* usDecode_GetFileInfoHandle().                                              *)
GetFileInfo ==
  /\ pc = "wait"
  /\ \E e \in 1..count :
       /\ Alive(e)
       /\ info' = info \cup {[name |-> e, isdir |-> e \in SubDirs,
                              size |-> IF e \in SubDirs THEN 0 ELSE StSize]}
  /\ UNCHANGED <<pc, count, cur, gone, buffer, pages, lost>>

-----------------------------------------------------------------------------
(* usDecode_ListHandle() starts to read a directory, ...                      *)
List ==
  /\ Go("wait", "dir")
  /\ count' \in 0..MaxEntries
  /\ cur' = 0 /\ gone' = {}
  /\ usedsize' = 0
  /\ pages' = <<>> /\ info' = {} /\ lost' = FALSE
  /\ UNCHANGED <<fileNum, fileList>>

(* ... or answers that there is none; this answer may be lost, too.           *)
ListError ==
  /\ pc = "wait"
  /\ \/ pages' = <<HeaderOnly(TRUE)>> /\ lost' = FALSE
     \/ pages' = <<>> /\ lost' = TRUE
  /\ count' = 0 /\ cur' = 0 /\ gone' = {} /\ info' = {}
  /\ UNCHANGED <<pc, buffer>>

(* usProtocol_SendPackage() of the buffer's first usedsize bytes, if any.     *)
NextPage(last, num) ==
  IF usedsize = 0 THEN HeaderOnly(FALSE)
  ELSE [num |-> num, len |-> usedsize, finish |-> last, error |-> FALSE,
        files |-> fileList]
Send(last, num) == pages' = Append(pages, NextPage(last, num)) /\ UNCHANGED lost
NotSent == lost' = TRUE /\ UNCHANGED pages

(* usDisk_diskList(): the next entry, or the end.  readdir() may or may not   *)
(* return an entry that was deleted meanwhile.                                *)
ReadDir ==
  /\ pc = "dir"
  /\ \E e \in cur + 1 .. count + 1 :
       /\ cur + 1 .. e - 1 \subseteq gone
       /\ IF e > count THEN pc' = "fin" /\ UNCHANGED cur
          ELSE /\ pc' = IF Size - usedsize < Node THEN "flush" ELSE "stat"
               /\ cur' = e
  /\ UNCHANGED <<count, gone, buffer, pages, info, lost>>

(* Fault: the entry for which there was no room is not looked at again.       *)
FlushSkipping ==
  /\ Go("flush", "dir")
  /\ Send(FALSE, fileNum)
  /\ usedsize' = 0
  /\ UNCHANGED <<count, cur, gone, fileNum, fileList, info>>

(* Fault: the buffer is not marked empty.                                     *)
FlushKeeping ==
  /\ Go("flush", "stat")
  /\ Send(FALSE, fileNum)
  /\ UNCHANGED <<count, cur, gone, buffer, info>>

(* readDirInvoke() finds the buffer full: the page goes out, ...              *)
Flush ==
  /\ Go("flush", "stat")
  /\ Send(FALSE, fileNum)
  /\ usedsize' = 0
  /\ UNCHANGED <<count, cur, gone, fileNum, fileList, info>>

(* ... or the listing ends here, for whatever error, and main() is not told.  *)
FlushFails ==
  /\ Go("flush", "wait")
  /\ NotSent
  /\ UNCHANGED <<count, cur, gone, buffer, info>>

(* "Ignore This File".                                                        *)
StatFails ==
  /\ Go("stat", "dir")
  /\ ~Alive(cur)
  /\ UNCHANGED <<count, cur, gone, buffer, pages, info, lost>>

(* Fault: the count of the page before is not reset.                          *)
StatCounting ==
  LET first == usedsize = 0 IN
  /\ Go("stat", "dir")
  /\ Alive(cur)
  /\ fileNum' = fileNum + 1
  /\ usedsize' = (IF first THEN Hdr ELSE usedsize) + Node
  /\ fileList' = Append(IF first THEN <<>> ELSE fileList,
                        [name |-> cur, isdir |-> cur \in SubDirs, size |-> StSize])
  /\ UNCHANGED <<count, cur, gone, pages, info, lost>>

(* The entry joins the page; as its first, it makes the page a new one.       *)
Stat ==
  LET first == usedsize = 0 IN
  /\ Go("stat", "dir")
  /\ Alive(cur)
  /\ fileNum' = (IF first THEN 0 ELSE fileNum) + 1
  /\ usedsize' = (IF first THEN Hdr ELSE usedsize) + Node
  /\ fileList' = Append(IF first THEN <<>> ELSE fileList,
                        [name |-> cur, isdir |-> cur \in SubDirs, size |-> StSize])
  /\ UNCHANGED <<count, cur, gone, pages, info, lost>>

(* Fault: the last page is not marked.                                        *)
FinishUnmarked ==
  /\ Go("fin", "wait")
  /\ fileNum' = IF usedsize = 0 THEN 0 ELSE fileNum
  /\ Send(FALSE, fileNum') \/ NotSent
  /\ UNCHANGED <<count, cur, gone, usedsize, fileList, info>>

(* listFin: what is left goes out as the last page; when nothing is, the mark *)
(* and the count are set in a buffer of which no byte is sent.                *)
Finish ==
  /\ Go("fin", "wait")
  /\ fileNum' = IF usedsize = 0 THEN 0 ELSE fileNum
  /\ Send(TRUE, fileNum') \/ NotSent
  /\ UNCHANGED <<count, cur, gone, usedsize, fileList, info>>

Handler == ReadDir \/ Flush \/ FlushFails \/ StatFails \/ Stat \/ Finish

Next == List \/ ListError \/ GetFileInfo \/ Delete \/ Handler

Spec == Init /\ [][Next]_vars

(* main() runs the handler to its end: it waits for nothing but the wire,     *)
(* whose sends time out.                                                      *)
FairSpec == Spec /\ WF_vars(Handler)

-----------------------------------------------------------------------------
Waiting == IF usedsize = 0 \/ pc = "wait" THEN <<>> ELSE fileList

(* The lists of entries that the app has, and the one it gets next.           *)
Lists == [i \in 1..Len(pages) + 1 |-> IF i <= Len(pages) THEN pages[i].files ELSE Waiting]

InOrder ==
  \A i, j \in DOMAIN Lists : \A k \in DOMAIN Lists[i], l \in DOMAIN Lists[j] :
    i < j \/ (i = j /\ k < l) => Lists[i][k].name < Lists[j][l].name

Reported(e) == \E i \in DOMAIN Lists : \E k \in DOMAIN Lists[i] : Lists[i][k].name = e

(* How far the directory has been read.                                       *)
ReadUpTo == CASE pc \in {"flush", "stat"} -> cur - 1
              [] pc = "dir" -> cur
              [] pc \in {"fin", "wait"} -> count

(* Across the page breaks no entry is left out and none comes twice: at every *)
(* moment the pages sent and the page being filled hold, in the directory's   *)
(* order, each entry read so far, save deleted ones; and at the end all of    *)
(* them.                                                                      *)
Exact == ~lost => InOrder /\ \A e \in 1..ReadUpTo : Alive(e) => Reported(e)

(* What the app takes for the end: a page that is marked, or nothing but a    *)
(* header.                                                                    *)
Ends(p) == p.finish \/ p.len = 0

(* The size announced in a page's protocol header, its fileNum and its        *)
(* entries agree, they fit the buffer, and nothing but the last page can be   *)
(* taken for the end; the parts of the page in the making agree too, and it   *)
(* never outgrows the buffer the next entry goes into.                        *)
PagesConsistent ==
  /\ \A i \in DOMAIN pages :
       LET p == pages[i] IN
       /\ p.num = Len(p.files)
       /\ p.len = IF p.num = 0 THEN 0 ELSE Hdr + p.num * Node
       /\ p.len <= Size
       /\ Ends(p) => i = Len(pages) /\ pc = "wait"
  /\ usedsize <= Size
  /\ usedsize > 0 => fileNum = Len(fileList) /\ usedsize = Hdr + fileNum * Node
  /\ pc = "stat" => (IF usedsize = 0 THEN Hdr ELSE usedsize) + Node <= Size

(* An app that asked is answered to the end, unless a page was lost.          *)
Answered ==
  pc = "dir" ~> pc = "wait" /\ (lost \/ (pages # <<>> /\ Ends(Last(pages))))

(* protocol.h on finish: "finish or not".                                     *)
EndMarked ==
  pc = "wait" /\ pages # <<>> /\ ~lost => Last(pages).finish \/ Last(pages).error

(* protocol.h on fileinfo.size: "it is 0 when it's dir".                      *)
DirSizeZero ==
  /\ \A i \in DOMAIN pages : \A k \in DOMAIN pages[i].files :
       pages[i].files[k].isdir => pages[i].files[k].size = 0
  /\ \A f \in info : f.isdir => f.size = 0
=============================================================================
