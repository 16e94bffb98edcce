---------------------------- MODULE DirListProofs ----------------------------
(***************************************************************************)
(* What DirList does for any directory and any sizes of the buffer, its    *)
(* header and its entries: its types, the pages' consistency, and that a   *)
(* listing is exact across the page breaks.                                *)
(***************************************************************************)
EXTENDS DirList, SequenceTheorems, TLAPS

-----------------------------------------------------------------------------
(* The strengthening.                                                       *)

(* The last entry that may be in a list.                                    *)
Upper == IF pc \in {"flush", "stat"} THEN cur - 1 ELSE cur

(* While a directory is listed, a page that was begun has an entry, and not *)
(* more of them than were read; one is sent when there is no room.          *)
PageFilling ==
  pc # "wait" =>
    /\ ~lost /\ cur <= count /\ Upper >= 0
    /\ usedsize > 0 => fileNum > 0 /\ fileNum <= Upper
    /\ pc = "flush" => Size - usedsize < Node

(* No list is ahead of readdir().                                           *)
NotAhead ==
  ~lost => \A i \in DOMAIN Lists : \A k \in DOMAIN Lists[i] : Lists[i][k].name <= Upper

(* Where the listing ends, what was not read is gone.                       *)
ReadToEnd == pc \in {"fin", "wait"} /\ ~lost => cur + 1 .. count \subseteq gone

IInv == TypeOK /\ PagesConsistent /\ PageFilling /\ Exact /\ NotAhead /\ ReadToEnd

-----------------------------------------------------------------------------
(* Sizes.                                                                   *)

LEMMA Sizes ==
  /\ Size \in Nat /\ Hdr \in Nat \ {0} /\ Node \in Nat \ {0} /\ MaxEntries \in Nat
  /\ Hdr + Node <= Size
BY DirListAssumption

(* One entry more takes the room of one entry.                              *)
LEMMA OneMore ==
  ASSUME NEW n \in Nat
  PROVE  /\ n * Node \in Nat
         /\ (n + 1) * Node = n * Node + Node
         /\ 1 * Node = Node
<1>1. Node \in Nat
  BY Sizes
<1>2. \A k, m \in Nat : (k + 1) * m = k * m + m
  OBVIOUS
<1>3. \A k, m \in Nat : k * m \in Nat /\ 1 * m = m
  OBVIOUS
<1> QED BY <1>1, <1>2, <1>3

-----------------------------------------------------------------------------
(* Types.                                                                   *)

LEMMA TypeInit == Init => TypeOK
<1> SUFFICES ASSUME Init PROVE TypeOK
  OBVIOUS
<1>1. fileList \in Seq(FileInfo) /\ pages \in Seq(Page)
  BY EmptySeq DEF Init
<1>2. gone \subseteq Entries /\ info \subseteq FileInfo
  BY DEF Init
<1>3. usedsize \in 0..Size /\ fileNum \in 0..MaxEntries /\ count \in 0..MaxEntries /\ cur \in 0..MaxEntries
  BY Sizes DEF Init
<1> QED BY <1>1, <1>2, <1>3 DEF Init, TypeOK

(* The entry that Stat adds.                                                *)
NewFile == [name |-> cur, isdir |-> cur \in SubDirs, size |-> StSize]

LEMMA NewFileType ==
  ASSUME NEW e \in Entries, NEW s \in 0..1
  PROVE  [name |-> e, isdir |-> e \in SubDirs, size |-> s] \in FileInfo
<1>1. (e \in SubDirs) \in BOOLEAN
  OBVIOUS
<1> DEFINE b == e \in SubDirs
<1> HIDE DEF b
<1>2. b \in BOOLEAN => [name |-> e, isdir |-> b, size |-> s] \in FileInfo
  BY DEF FileInfo, StSize
<1> QED BY <1>1, <1>2 DEF b

(* A header alone is a page, too.                                           *)
LEMMA HeaderType == HeaderOnly(TRUE) \in Page /\ HeaderOnly(FALSE) \in Page
BY EmptySeq DEF HeaderOnly, Page

(* What Send adds to the pages.                                             *)
LEMMA SendType ==
  ASSUME TypeOK, NEW last \in BOOLEAN, NEW num \in Nat, Send(last, num)
  PROVE  /\ pages' \in Seq(Page) /\ Len(pages') = Len(pages) + 1 /\ lost' = lost
         /\ \A i \in 1..Len(pages) : pages'[i] = pages[i]
         /\ pages'[Len(pages) + 1] = NextPage(last, num)
<1> DEFINE p == NextPage(last, num)
<1>1. fileList \in Seq(FileInfo) /\ usedsize \in Nat
  BY Sizes DEF TypeOK
<1>2. p \in Page
  <2>1. HeaderOnly(FALSE) \in Page
    BY HeaderType
  <2>2. [num |-> num, len |-> usedsize, finish |-> last, error |-> FALSE,
         files |-> fileList] \in Page
    BY <1>1 DEF Page
  <2> QED BY <2>1, <2>2, Zenon DEF NextPage
<1>3. pages' = Append(pages, p) /\ lost' = lost
  BY DEF Send
<1>4. pages \in Seq(Page)
  BY DEF TypeOK
<1> HIDE DEF p
<1>5. /\ pages' \in Seq(Page) /\ Len(pages') = Len(pages) + 1
      /\ \A i \in 1..Len(pages) : pages'[i] = pages[i]
      /\ pages'[Len(pages) + 1] = p
  BY <1>2, <1>3, <1>4, AppendProperties
<1> QED BY <1>3, <1>5 DEF p

LEMMA TypeStep == TypeOK /\ PageFilling /\ PagesConsistent /\ [Next]_vars => TypeOK'
<1> SUFFICES ASSUME TypeOK, PageFilling, PagesConsistent, [Next]_vars PROVE TypeOK'
  OBVIOUS
<1> USE Sizes DEF TypeOK, buffer
<1>1. CASE List
  <2>1. pages' \in Seq(Page) /\ info' \subseteq FileInfo /\ gone' \subseteq Entries
    BY <1>1, EmptySeq DEF List
  <2>2. cur' \in 0..MaxEntries /\ usedsize' \in 0..Size
    BY <1>1 DEF List
  <2> QED BY <1>1, <2>1, <2>2 DEF List, Go
<1>2. CASE ListError
  <2>1. HeaderOnly(TRUE) \in Page
    BY HeaderType
  <2>2. pages' \in Seq(Page) /\ lost' \in BOOLEAN
    <3> DEFINE p == HeaderOnly(TRUE)
    <3>1. \/ pages' = <<p>> /\ lost' = FALSE
          \/ pages' = <<>> /\ lost' = TRUE
      BY <1>2 DEF ListError
    <3> HIDE DEF p
    <3>2. p \in Page
      BY <2>1 DEF p
    <3>3. <<p>> \in Seq(Page) /\ <<>> \in Seq(Page)
      BY <3>2
    <3> QED BY <3>1, <3>3
  <2> QED BY <1>2, <2>2 DEF ListError
<1>3. CASE GetFileInfo
  <2>1. PICK e \in 1..count :
          info' = info \cup {[name |-> e, isdir |-> e \in SubDirs,
                              size |-> IF e \in SubDirs THEN 0 ELSE StSize]}
    BY <1>3 DEF GetFileInfo
  <2>2. e \in Entries /\ (IF e \in SubDirs THEN 0 ELSE StSize) \in 0..1
    BY DEF Entries, StSize
  <2>3. [name |-> e, isdir |-> e \in SubDirs, size |-> IF e \in SubDirs THEN 0 ELSE StSize]
          \in FileInfo
    BY <2>2, NewFileType
  <2>4. info' \subseteq FileInfo
    BY <2>1, <2>3, Zenon
  <2>5. UNCHANGED <<pc, count, cur, gone, buffer, pages, lost>>
    BY <1>3 DEF GetFileInfo
  <2> QED BY <2>4, <2>5
<1>4. CASE Delete
  <2>1. PICK e \in 1..count : gone' = gone \cup {e}
    BY <1>4 DEF Delete
  <2>2. gone' \subseteq Entries
    BY <2>1 DEF Entries
  <2> QED BY <1>4, <2>2 DEF Delete
<1>5. CASE ReadDir
  <2>1. cur' \in 0..MaxEntries /\ pc' \in {"fin", "flush", "stat"}
    BY <1>5 DEF ReadDir
  <2> QED BY <1>5, <2>1 DEF ReadDir
<1>6. CASE Flush
  <2>1. pages' \in Seq(Page) /\ lost' = lost
    <3>1. Send(FALSE, fileNum)
      BY <1>6, Zenon DEF Flush
    <3>2. fileNum \in Nat /\ FALSE \in BOOLEAN
      OBVIOUS
    <3> QED BY <3>1, <3>2, SendType, Zenon
  <2> QED BY <1>6, <2>1 DEF Flush, Go
<1>7. CASE FlushFails
  BY <1>7 DEF FlushFails, Go, NotSent
<1>8. CASE StatFails
  BY <1>8 DEF StatFails, Go
<1>9. CASE Stat
  <2>1. pc = "stat" /\ cur \in 1..count
    BY <1>9 DEF Stat, Go, Alive
  <2>2. cur \in Entries
    BY <2>1 DEF Entries
  <2>3. NewFile \in FileInfo
    BY <2>2, NewFileType, 1 \in 0..1, Zenon DEF NewFile, StSize
  <2>4. fileList' = Append(IF usedsize = 0 THEN <<>> ELSE fileList, NewFile)
    BY <1>9 DEF Stat, NewFile
  <2>5. fileList' \in Seq(FileInfo)
    BY <2>3, <2>4, AppendProperties
  <2>6. fileNum' \in 0..MaxEntries
    BY <1>9, <2>1 DEF Stat, PageFilling, Upper
  <2>7. usedsize' \in 0..Size
    BY <1>9, <2>1 DEF Stat, PagesConsistent
  <2> QED BY <1>9, <2>5, <2>6, <2>7 DEF Stat, Go
<1>10. CASE Finish
  <2>1. fileNum' \in 0..MaxEntries
    BY <1>10 DEF Finish
  <2>2. pages' \in Seq(Page) /\ lost' \in BOOLEAN
    <3>1. CASE Send(TRUE, fileNum')
      <4>1. fileNum' \in Nat
        BY <2>1
      <4> QED BY <4>1, <3>1, SendType, Zenon
    <3>2. CASE NotSent
      BY <3>2 DEF NotSent
    <3> QED BY <1>10, <3>1, <3>2 DEF Finish
  <2> QED BY <1>10, <2>1, <2>2 DEF Finish, Go
<1>11. CASE UNCHANGED vars
  BY <1>11 DEF vars
<1> QED BY <1>1, <1>2, <1>3, <1>4, <1>5, <1>6, <1>7, <1>8, <1>9, <1>10, <1>11 DEF Next, Handler

-----------------------------------------------------------------------------
(* The pages.                                                               *)

(* A page that was sent is consistent.                                      *)
PageOK(p) ==
  /\ p.num = Len(p.files)
  /\ p.len = IF p.num = 0 THEN 0 ELSE Hdr + p.num * Node
  /\ p.len <= Size

LEMMA PagesParts ==
  PagesConsistent <=>
    /\ \A i \in DOMAIN pages :
         PageOK(pages[i]) /\ (Ends(pages[i]) => i = Len(pages) /\ pc = "wait")
    /\ usedsize <= Size
    /\ usedsize > 0 => fileNum = Len(fileList) /\ usedsize = Hdr + fileNum * Node
    /\ pc = "stat" => (IF usedsize = 0 THEN Hdr ELSE usedsize) + Node <= Size
BY Zenon DEF PagesConsistent, PageOK

(* The page that is sent next is consistent, whatever its mark.             *)
LEMMA SentOK ==
  ASSUME TypeOK, PagesConsistent, PageFilling, pc # "wait", NEW last \in BOOLEAN,
         NEW num \in Nat, num = (IF usedsize = 0 THEN 0 ELSE fileNum)
  PROVE  PageOK(NextPage(last, num)) /\ (Ends(NextPage(last, num)) => last \/ usedsize = 0)
<1>1. CASE usedsize = 0
  BY <1>1, Sizes DEF PageOK, NextPage, HeaderOnly
<1>2. CASE usedsize # 0
  <2>1. usedsize > 0 /\ usedsize <= Size
    BY <1>2, Sizes DEF TypeOK
  <2>2. fileNum = Len(fileList) /\ usedsize = Hdr + fileNum * Node /\ fileNum # 0
    BY <2>1 DEF PagesConsistent, PageFilling
  <2> QED BY <1>2, <2>1, <2>2 DEF PageOK, NextPage, Ends
<1> QED BY <1>1, <1>2

(* Sending it keeps the pages consistent.                                   *)
LEMMA SendPages ==
  ASSUME TypeOK, PagesConsistent, PageFilling, pc # "wait", NEW last \in BOOLEAN,
         NEW num \in Nat, num = (IF usedsize = 0 THEN 0 ELSE fileNum),
         Send(last, num), last \/ usedsize = 0 => pc' = "wait"
  PROVE  \A i \in DOMAIN pages' :
           PageOK(pages'[i]) /\ (Ends(pages'[i]) => i = Len(pages') /\ pc' = "wait")
<1> DEFINE p == NextPage(last, num)
<1>1. PageOK(p)
  BY SentOK, Zenon
<1>2. Ends(p) => last \/ usedsize = 0
  BY SentOK, Zenon
<1>3. /\ pages' \in Seq(Page) /\ Len(pages') = Len(pages) + 1
      /\ \A i \in 1..Len(pages) : pages'[i] = pages[i]
      /\ pages'[Len(pages) + 1] = p
  BY SendType, Zenon
<1> HIDE DEF p
<1>4. pages \in Seq(Page)
  BY DEF TypeOK
<1> SUFFICES ASSUME NEW i \in DOMAIN pages'
             PROVE  PageOK(pages'[i]) /\ (Ends(pages'[i]) => i = Len(pages') /\ pc' = "wait")
  OBVIOUS
<1>5. CASE i \in 1..Len(pages)
  <2>1. i \in DOMAIN pages /\ pages'[i] = pages[i]
    BY <1>3, <1>4, <1>5
  <2>2. PageOK(pages[i]) /\ ~Ends(pages[i])
    BY <2>1, PagesParts, Zenon
  <2> QED BY <2>1, <2>2, Zenon
<1>6. CASE i = Len(pages) + 1
  BY <1>1, <1>2, <1>3, <1>6, Zenon
<1> QED
  <2>1. i \in 1..Len(pages) \/ i = Len(pages) + 1
    BY <1>3, <1>4
  <2> QED BY <2>1, <1>5, <1>6

LEMMA FillingStep == TypeOK /\ PageFilling /\ PagesConsistent /\ [Next]_vars => PageFilling'
<1> SUFFICES ASSUME TypeOK, PageFilling, PagesConsistent, [Next]_vars PROVE PageFilling'
  OBVIOUS
<1> USE Sizes DEF PageFilling, Upper, buffer
<1>0. /\ usedsize \in Nat /\ fileNum \in Nat /\ cur \in Nat /\ count \in Nat
  BY DEF TypeOK
<1>1. CASE List
  BY <1>1 DEF List, Go
<1>2. CASE ListError
  BY <1>2 DEF ListError
<1>3. CASE GetFileInfo
  BY <1>3 DEF GetFileInfo
<1>4. CASE Delete
  BY <1>4 DEF Delete
<1>5. CASE ReadDir
  BY <1>0, <1>5 DEF ReadDir
<1>6. CASE Flush
  BY <1>6 DEF Flush, Go, Send
<1>7. CASE FlushFails
  BY <1>7 DEF FlushFails, Go
<1>8. CASE StatFails
  BY <1>0, <1>8 DEF StatFails, Go
<1>9. CASE Stat
  BY <1>0, <1>9 DEF Stat, Go, Alive
<1>10. CASE Finish
  BY <1>10 DEF Finish, Go
<1>11. CASE UNCHANGED vars
  BY <1>11 DEF vars
<1> QED BY <1>1, <1>2, <1>3, <1>4, <1>5, <1>6, <1>7, <1>8, <1>9, <1>10, <1>11 DEF Next, Handler

LEMMA PagesStep == TypeOK /\ PageFilling /\ PagesConsistent /\ [Next]_vars => PagesConsistent'
<1> SUFFICES ASSUME TypeOK, PageFilling, PagesConsistent, [Next]_vars PROVE PagesConsistent'
  OBVIOUS
<1> DEFINE Sent == \A i \in DOMAIN pages :
                     PageOK(pages[i]) /\ (Ends(pages[i]) => i = Len(pages) /\ pc = "wait")
           Rest == /\ usedsize <= Size
                   /\ usedsize > 0 => fileNum = Len(fileList) /\ usedsize = Hdr + fileNum * Node
                   /\ pc = "stat" => (IF usedsize = 0 THEN Hdr ELSE usedsize) + Node <= Size
<1>a. /\ Sent /\ Rest
      /\ Sent' /\ Rest' => PagesConsistent'
  BY PagesParts, PTL
<1>b. UNCHANGED <<pages, pc>> => Sent'
  BY <1>a, Zenon
<1>c. UNCHANGED pages /\ pc # "wait" => Sent'
  BY <1>a, Zenon
<1>d. UNCHANGED <<buffer, pc>> => Rest'
  BY <1>a DEF buffer
<1>e. UNCHANGED buffer /\ pc' # "stat" => Rest'
  BY <1>a DEF buffer
<1>f. pc' # "stat" /\ usedsize' = 0 => Rest'
  BY Sizes
<1>0. /\ usedsize \in Nat /\ fileNum \in Nat /\ fileList \in Seq(FileInfo)
  BY Sizes DEF TypeOK
<1>1. CASE List
  <2>1. pages' = <<>> /\ usedsize' = 0 /\ pc' = "dir"
    BY <1>1 DEF List, Go
  <2> QED BY <2>1, <1>a, <1>f
<1>2. CASE ListError
  <2>1. UNCHANGED <<buffer, pc>>
    BY <1>2 DEF ListError
  <2>2. CASE pages' = <<>>
    BY <2>1, <2>2, <1>a, <1>d
  <2>3. CASE pages' = <<HeaderOnly(TRUE)>>
    <3>1. /\ Len(pages') = 1 /\ DOMAIN pages' = {1} /\ pages'[1] = HeaderOnly(TRUE)
          /\ pc' = "wait"
      BY <2>3, <1>2 DEF ListError
    <3>2. PageOK(HeaderOnly(TRUE))
      BY Sizes DEF PageOK, HeaderOnly
    <3> QED BY <2>1, <3>1, <3>2, <1>a, <1>d, Zenon
  <2> QED BY <2>2, <2>3, <1>2 DEF ListError
<1>3. CASE GetFileInfo
  BY <1>3, <1>a, <1>b, <1>d DEF GetFileInfo
<1>4. CASE Delete
  BY <1>4, <1>a, <1>b, <1>d DEF Delete
<1>5. CASE ReadDir
  <2>1. UNCHANGED <<buffer, pages>> /\ pc = "dir"
    BY <1>5 DEF ReadDir
  <2>2. pc' = "stat" => ~(Size - usedsize < Node)
    BY <1>5 DEF ReadDir
  <2>3. Rest'
    BY <2>1, <2>2, <1>a, <1>0, Sizes DEF buffer
  <2> QED BY <2>1, <2>3, <1>a, <1>c
<1>6. CASE Flush
  <2>1. Send(FALSE, fileNum)
    BY <1>6, Zenon DEF Flush
  <2>2. /\ pc = "flush" /\ pc' = "stat" /\ usedsize' = 0
    BY <1>6 DEF Flush, Go
  <2>3. usedsize # 0 /\ FALSE \in BOOLEAN
    BY <2>2, <1>0, Sizes DEF PageFilling
  <2>4. fileNum = (IF usedsize = 0 THEN 0 ELSE fileNum) /\ pc # "wait" /\ fileNum \in Nat
    BY <2>2, <2>3, <1>0
  <2>5. Sent'
    BY <2>1, <2>3, <2>4, SendPages, Zenon
  <2>6. Rest'
    BY <2>2, Sizes
  <2> QED BY <2>5, <2>6, <1>a
<1>7. CASE FlushFails
  <2>1. UNCHANGED <<buffer, pages>> /\ pc = "flush" /\ pc' = "wait"
    BY <1>7 DEF FlushFails, Go, NotSent
  <2> QED BY <2>1, <1>a, <1>c, <1>e
<1>8. CASE StatFails
  <2>1. UNCHANGED <<buffer, pages>> /\ pc = "stat" /\ pc' = "dir"
    BY <1>8 DEF StatFails, Go
  <2> QED BY <2>1, <1>a, <1>c, <1>e
<1>9. CASE Stat
  <2>1. UNCHANGED pages /\ pc = "stat" /\ pc' = "dir"
    BY <1>9 DEF Stat, Go
  <2>2. /\ fileNum' = (IF usedsize = 0 THEN 0 ELSE fileNum) + 1
        /\ usedsize' = (IF usedsize = 0 THEN Hdr ELSE usedsize) + Node
        /\ fileList' = Append(IF usedsize = 0 THEN <<>> ELSE fileList, NewFile)
    BY <1>9 DEF Stat, NewFile
  <2>3. usedsize' <= Size
    BY <2>1, <2>2, <1>a
  <2>4. fileNum' = Len(fileList')
    <3>1. CASE usedsize = 0
      BY <2>2, <3>1
    <3>2. CASE usedsize # 0
      <4>1. fileNum = Len(fileList)
        BY <3>2, <1>0, <1>a
      <4>2. Len(Append(fileList, NewFile)) = Len(fileList) + 1
        BY <1>0
      <4> QED BY <2>2, <3>2, <4>1, <4>2
    <3> QED BY <3>1, <3>2
  <2>5. usedsize' = Hdr + fileNum' * Node
    <3>1. CASE usedsize = 0
      BY <2>2, <3>1, OneMore, 0 \in Nat
    <3>2. CASE usedsize # 0
      <4>1. usedsize = Hdr + fileNum * Node
        BY <3>2, <1>0, <1>a
      <4>2. fileNum' = fileNum + 1 /\ usedsize' = usedsize + Node
        BY <2>2, <3>2
      <4>3. (fileNum + 1) * Node = fileNum * Node + Node /\ fileNum * Node \in Nat
        BY <1>0, OneMore
      <4> QED BY <4>1, <4>2, <4>3, Sizes
    <3> QED BY <3>1, <3>2
  <2>6. Rest'
    BY <2>1, <2>3, <2>4, <2>5
  <2> QED BY <2>1, <2>6, <1>a, <1>c
<1>10. CASE Finish
  <2>1. /\ pc = "fin" /\ pc' = "wait" /\ fileNum' = (IF usedsize = 0 THEN 0 ELSE fileNum)
        /\ UNCHANGED <<usedsize, fileList>>
    BY <1>10 DEF Finish, Go
  <2>2. Rest'
    BY <2>1, <1>a
  <2>3. CASE Send(TRUE, fileNum')
    <3>1. fileNum' \in Nat /\ TRUE \in BOOLEAN /\ pc # "wait"
      BY <2>1, <1>0
    <3>2. Sent'
      BY <2>1, <2>3, <3>1, SendPages, Zenon
    <3> QED BY <3>2, <2>2, <1>a
  <2>4. CASE NotSent
    <3>1. UNCHANGED pages
      BY <2>4 DEF NotSent
    <3> QED BY <3>1, <2>1, <2>2, <1>a, <1>c
  <2>5. Send(TRUE, fileNum') \/ NotSent
    BY <1>10, Zenon DEF Finish
  <2> QED BY <2>3, <2>4, <2>5, Zenon
<1>11. CASE UNCHANGED vars
  BY <1>11, <1>a, <1>b, <1>d DEF vars
<1> QED BY <1>1, <1>2, <1>3, <1>4, <1>5, <1>6, <1>7, <1>8, <1>9, <1>10, <1>11, Zenon DEF Next, Handler

-----------------------------------------------------------------------------
(* The entries, page by page.  L and M stand for Lists before and after.    *)

Ordered(L) ==
  \A i, j \in DOMAIN L : \A k \in DOMAIN L[i], l \in DOMAIN L[j] :
    i < j \/ (i = j /\ k < l) => L[i][k].name < L[j][l].name
Holds(L, e) == \E i \in DOMAIN L : \E k \in DOMAIN L[i] : L[i][k].name = e
Below(L, u) == \A i \in DOMAIN L : \A k \in DOMAIN L[i] : L[i][k].name <= u

LEMMA ListsType == TypeOK => Lists \in [1..Len(pages) + 1 -> Seq(FileInfo)]
<1> SUFFICES ASSUME TypeOK PROVE Lists \in [1..Len(pages) + 1 -> Seq(FileInfo)]
  OBVIOUS
<1>1. pages \in Seq(Page) /\ Len(pages) \in Nat
  BY DEF TypeOK
<1>2. \A i \in 1..Len(pages) : pages[i].files \in Seq(FileInfo)
  <2>1. \A i \in 1..Len(pages) : pages[i] \in Page
    BY <1>1
  <2>2. \A p \in Page : p.files \in Seq(FileInfo)
    BY DEF Page
  <2> QED BY <2>1, <2>2, Zenon
<1>3. Waiting \in Seq(FileInfo)
  BY EmptySeq DEF Waiting, TypeOK
<1>4. ASSUME NEW i \in 1..Len(pages) + 1
      PROVE  (IF i <= Len(pages) THEN pages[i].files ELSE Waiting) \in Seq(FileInfo)
  <2>1. CASE i <= Len(pages)
    BY <1>1, <1>2, <2>1
  <2>2. CASE ~(i <= Len(pages))
    BY <1>3, <2>2
  <2> QED BY <2>1, <2>2
<1> QED BY <1>4, Zenon DEF Lists

(* A new, empty page changes nothing.                                       *)
LEMMA NewPage ==
  ASSUME NEW n \in Nat, NEW L \in [1..n -> Seq(FileInfo)],
         NEW M \in [1..n + 1 -> Seq(FileInfo)],
         \A i \in 1..n : M[i] = L[i], M[n + 1] = <<>>
  PROVE  /\ Ordered(L) => Ordered(M)
         /\ \A e : Holds(L, e) => Holds(M, e)
         /\ \A u : Below(L, u) => Below(M, u)
<1>1. DOMAIN L = 1..n /\ DOMAIN M = 1..n + 1 /\ 1..n \subseteq 1..n + 1
  OBVIOUS
<1>2. \A i \in DOMAIN M : \A k \in DOMAIN M[i] : i \in DOMAIN L /\ M[i] = L[i]
  <2>1. DOMAIN M[n + 1] = {}
    OBVIOUS
  <2>2. \A i \in 1..n + 1 : i \in 1..n \/ i = n + 1
    OBVIOUS
  <2> QED BY <1>1, <2>1, <2>2, Zenon
<1>3. Ordered(L) => Ordered(M)
  BY <1>2, Zenon DEF Ordered
<1>4. \A e : Holds(L, e) => Holds(M, e)
  BY <1>1, Zenon DEF Holds
<1>5. \A u : Below(L, u) => Below(M, u)
  BY <1>2, Zenon DEF Below
<1> QED BY <1>3, <1>4, <1>5

LEMMA PlaceIs ==
  ASSUME NEW s \in Seq(FileInfo), NEW k \in DOMAIN s
  PROVE  k \in Nat
OBVIOUS

(* An entry that joins the last page comes after all others.                *)
LEMMA NewEntry ==
  ASSUME NEW n \in Nat \ {0}, NEW L \in [1..n -> Seq(FileInfo)],
         NEW M \in [1..n -> Seq(FileInfo)], NEW f \in FileInfo,
         \A i \in 1..n - 1 : M[i] = L[i], M[n] = Append(L[n], f),
         Below(L, f.name - 1)
  PROVE  /\ Ordered(L) => Ordered(M)
         /\ \A e : Holds(L, e) \/ e = f.name => Holds(M, e)
         /\ Below(M, f.name)
<1>1. DOMAIN L = 1..n /\ DOMAIN M = 1..n /\ n \in 1..n /\ f.name \in Nat
  BY Sizes DEF FileInfo, Entries
<1> DEFINE last == Len(L[n]) + 1
<1>2. /\ last \in Nat /\ last >= 1
      /\ DOMAIN L[n] = 1..last - 1 /\ DOMAIN M[n] = 1..last
      /\ M[n][last] = f
      /\ \A k \in 1..last - 1 : M[n][k] = L[n][k]
  <2>1. L[n] \in Seq(FileInfo)
    BY <1>1
  <2> QED BY <2>1
<1> HIDE DEF last
(* An entry of M is the new one or one of L, which comes before it.         *)
<1>3. ASSUME NEW i \in DOMAIN M, NEW k \in DOMAIN M[i]
      PROVE  \/ i = n /\ k = last /\ M[i][k] = f
             \/ /\ k \in DOMAIN L[i] /\ M[i][k] = L[i][k]
                /\ i < n \/ (i = n /\ k < last)
  <2>1. CASE i = n
    BY <2>1, <1>1, <1>2, <1>3
  <2>2. CASE i # n
    BY <2>2, <1>1, <1>3
  <2> QED BY <2>1, <2>2
<1>4. ASSUME NEW i \in DOMAIN L, NEW k \in DOMAIN L[i]
      PROVE  k \in DOMAIN M[i] /\ M[i][k] = L[i][k]
  <2>1. CASE i = n
    <3>1. k \in 1..last - 1 /\ k \in 1..last
      BY <2>1, <1>2, <1>4
    <3> QED BY <2>1, <3>1, <1>2
  <2>2. CASE i # n
    BY <2>2, <1>1, <1>4
  <2> QED BY <2>1, <2>2
<1>5. ASSUME NEW i \in DOMAIN L, NEW k \in DOMAIN L[i]
      PROVE  L[i][k].name <= f.name - 1 /\ L[i][k].name \in Nat
  <2>1. L[i] \in Seq(FileInfo) /\ k \in 1..Len(L[i])
    BY <1>5, <1>1
  <2>2. L[i][k] \in FileInfo
    BY <2>1
  <2>3. L[i][k].name <= f.name - 1
    BY <1>5, Zenon DEF Below
  <2> QED BY <2>2, <2>3, Sizes DEF FileInfo, Entries
<1>6. ASSUME Ordered(L) PROVE Ordered(M)
  <2> SUFFICES ASSUME NEW i \in DOMAIN M, NEW j \in DOMAIN M,
                      NEW k \in DOMAIN M[i], NEW l \in DOMAIN M[j],
                      i < j \/ (i = j /\ k < l)
               PROVE  M[i][k].name < M[j][l].name
    BY Zenon DEF Ordered
  <2>0. i \in 1..n /\ j \in 1..n /\ i \in DOMAIN L /\ j \in DOMAIN L
    BY <1>1
  <2>1. CASE j = n /\ l = last /\ M[j][l] = f
    <3>1. ~(i = n /\ k = last)
      BY <2>0, <2>1, <1>2
    <3>2. k \in DOMAIN L[i] /\ M[i][k] = L[i][k]
      BY <3>1, <1>3, Zenon
    <3>3. L[i][k].name <= f.name - 1 /\ L[i][k].name \in Nat
      BY <2>0, <3>2, <1>5, Zenon
    <3> DEFINE x == L[i][k].name  y == f.name
    <3>4. x <= y - 1 /\ x \in Nat /\ y \in Nat
      BY <3>3, <1>1
    <3> HIDE DEF x, y
    <3>5. x < y
      BY <3>4
    <3> QED BY <3>2, <3>5, <2>1 DEF x, y
  <2>2. CASE l \in DOMAIN L[j] /\ M[j][l] = L[j][l] /\ (j < n \/ (j = n /\ l < last))
    <3>1. ~(i = n /\ k = last)
      <4>1. k \in Nat /\ l \in Nat
        <5>1. M[i] \in Seq(FileInfo) /\ M[j] \in Seq(FileInfo)
          BY <1>1
        <5>2. k \in Nat
          BY <5>1, PlaceIs
        <5>3. l \in Nat
          BY <5>1, PlaceIs
        <5> QED BY <5>2, <5>3
      <4>2. last \in Nat /\ n \in Nat /\ i \in Nat /\ j \in Nat /\ i <= n /\ j <= n
        BY <2>0, <1>2
      <4> QED BY <4>1, <4>2, <2>2
    <3>2. k \in DOMAIN L[i] /\ M[i][k] = L[i][k]
      BY <3>1, <1>3, Zenon
    <3> QED BY <2>0, <2>2, <3>2, <1>6, Zenon DEF Ordered
  <2> QED BY <2>1, <2>2, <1>3, Zenon
<1>7. ASSUME NEW e, Holds(L, e) \/ e = f.name PROVE Holds(M, e)
  <2>1. CASE Holds(L, e)
    BY <2>1, <1>1, <1>4, Zenon DEF Holds
  <2>2. CASE e = f.name
    <3>1. last \in DOMAIN M[n] /\ M[n][last] = f /\ n \in DOMAIN M
      BY <1>1, <1>2
    <3> QED BY <3>1, <2>2, Zenon DEF Holds
  <2> QED BY <1>7, <2>1, <2>2
<1>8. Below(M, f.name)
  <2> SUFFICES ASSUME NEW i \in DOMAIN M, NEW k \in DOMAIN M[i]
               PROVE  M[i][k].name <= f.name
    BY Zenon DEF Below
  <2>1. CASE i = n /\ k = last /\ M[i][k] = f
    BY <2>1, <1>1
  <2>2. CASE k \in DOMAIN L[i] /\ M[i][k] = L[i][k]
    <3>1. i \in DOMAIN L
      BY <1>1
    <3>2. L[i][k].name <= f.name - 1 /\ L[i][k].name \in Nat
      BY <3>1, <2>2, <1>5, Zenon
    <3> QED BY <3>2, <2>2, <1>1
  <2> QED BY <2>1, <2>2, <1>3, Zenon
<1> QED BY <1>6, <1>7, <1>8

LEMMA BelowUp ==
  ASSUME NEW n \in Nat, NEW L \in [1..n -> Seq(FileInfo)],
         NEW u \in Int, NEW v \in Int, u <= v, Below(L, u)
  PROVE  Below(L, v)
<1> SUFFICES ASSUME NEW i \in DOMAIN L, NEW k \in DOMAIN L[i] PROVE L[i][k].name <= v
  BY Zenon DEF Below
<1>1. L[i] \in Seq(FileInfo) /\ k \in 1..Len(L[i])
  OBVIOUS
<1>2. L[i][k] \in FileInfo
  BY <1>1
<1>3. L[i][k].name <= u
  BY Zenon DEF Below
<1> QED BY <1>2, <1>3, Sizes DEF FileInfo, Entries

(* Where there is no entry there is nothing out of place.                   *)
LEMMA NoEntries ==
  ASSUME NEW n \in Nat, NEW L \in [1..n -> Seq(FileInfo)], \A i \in 1..n : L[i] = <<>>
  PROVE  Ordered(L) /\ \A u : Below(L, u)
<1>1. \A i \in DOMAIN L : DOMAIN L[i] = {}
  OBVIOUS
<1> QED BY <1>1, Zenon DEF Ordered, Below

LEMMA ExactParts ==
  /\ Exact <=> (~lost => /\ Ordered(Lists)
                         /\ \A e \in 1..ReadUpTo : Alive(e) => Holds(Lists, e))
  /\ NotAhead <=> (~lost => Below(Lists, Upper))
BY Zenon DEF Exact, InOrder, Reported, Ordered, Holds, NotAhead, Below

(* Sending the page that was filled starts an empty one.                    *)
LEMMA SendLists ==
  ASSUME TypeOK, TypeOK', pc # "wait", NEW last \in BOOLEAN, NEW num \in Nat,
         Send(last, num), usedsize' = 0 \/ pc' = "wait"
  PROVE  /\ Ordered(Lists) => Ordered(Lists')
         /\ \A e : Holds(Lists, e) => Holds(Lists', e)
         /\ \A u : Below(Lists, u) => Below(Lists', u)
<1> DEFINE n == Len(pages) + 1
<1>1. n \in Nat /\ pages \in Seq(Page)
  BY DEF TypeOK
<1>2. /\ Len(pages') = n /\ \A i \in 1..Len(pages) : pages'[i] = pages[i]
      /\ pages'[n].files = Waiting
  <2>1. pages'[n] = NextPage(last, num)
    BY SendType, Zenon
  <2>2. Waiting = IF usedsize = 0 THEN <<>> ELSE fileList
    BY DEF Waiting
  <2>3. Len(pages') = n /\ \A i \in 1..Len(pages) : pages'[i] = pages[i]
    BY SendType, Zenon
  <2> QED BY <2>1, <2>2, <2>3 DEF NextPage, HeaderOnly
<1>3. Lists \in [1..n -> Seq(FileInfo)]
  BY ListsType
<1>4. Lists' \in [1..n + 1 -> Seq(FileInfo)]
  <2>1. (TypeOK => Lists \in [1..Len(pages) + 1 -> Seq(FileInfo)])'
    BY ListsType, PTL
  <2>2. Lists' \in [1..Len(pages') + 1 -> Seq(FileInfo)]
    BY <2>1 DEF FileInfo, Entries
  <2> QED BY <2>2, <1>2
<1>5. Waiting' = <<>>
  BY DEF Waiting
<1>6. \A i \in 1..n : Lists'[i] = Lists[i]
  <2> SUFFICES ASSUME NEW i \in 1..n PROVE Lists'[i] = Lists[i]
    OBVIOUS
  <2>1. CASE i <= Len(pages)
    BY <2>1, <1>1, <1>2 DEF Lists
  <2>2. CASE i = n
    BY <2>2, <1>1, <1>2 DEF Lists
  <2> QED BY <2>1, <2>2, <1>1
<1>7. Lists'[n + 1] = <<>>
  BY <1>1, <1>2, <1>5 DEF Lists
<1> HIDE DEF n
<1> QED BY <1>1, <1>3, <1>4, <1>6, <1>7, NewPage, Zenon

(* Where neither the pages nor what is waiting changes, nothing does.       *)
LEMMA SameLists ==
  \/ UNCHANGED <<pages, fileList, usedsize, pc>>
  \/ UNCHANGED <<pages, fileList, usedsize>> /\ pc # "wait" /\ pc' # "wait"
  => Lists' = Lists
BY DEF Lists, Waiting

ExactInv == Exact /\ NotAhead /\ ReadToEnd

LEMMA ExactStep ==
  TypeOK /\ TypeOK' /\ PageFilling /\ PagesConsistent /\ ExactInv /\ [Next]_vars => ExactInv'
<1> SUFFICES ASSUME TypeOK, TypeOK', PageFilling, PagesConsistent, ExactInv, [Next]_vars
             PROVE  ExactInv'
  OBVIOUS
<1> DEFINE InLists == \A e \in 1..ReadUpTo : Alive(e) => Holds(Lists, e)
<1>a. ~lost => Ordered(Lists) /\ InLists /\ Below(Lists, Upper)
  BY ExactParts DEF ExactInv
<1>b. (lost' \/ (Ordered(Lists') /\ InLists' /\ Below(Lists', Upper'))) /\ ReadToEnd'
        => ExactInv'
  <2>1. (Exact <=> (~lost => Ordered(Lists) /\ InLists))'
    BY ExactParts, PTL
  <2>2. (NotAhead <=> (~lost => Below(Lists, Upper)))'
    BY ExactParts, PTL
  <2>3. Below(Lists', Upper') <=> Below(Lists, Upper)'
    OBVIOUS
  <2>4. Ordered(Lists') <=> Ordered(Lists)'
    OBVIOUS
  <2> QED BY <2>1, <2>2, <2>3, <2>4, Zenon DEF ExactInv
<1>c. lost' = TRUE => ExactInv'
  <2>1. lost' = TRUE => ReadToEnd'
    BY DEF ReadToEnd
  <2> QED BY <2>1, <1>b
<1>0. /\ cur \in Nat /\ count \in Nat /\ pages \in Seq(Page)
      /\ Lists \in [1..Len(pages) + 1 -> Seq(FileInfo)]
  BY Sizes, ListsType DEF TypeOK
<1>e. ReadUpTo \in Int
  <2>1. pc \in {"dir", "stat", "flush", "fin", "wait"}
    BY DEF TypeOK
  <2> QED BY <2>1, <1>0 DEF ReadUpTo
<1>d. ASSUME Lists' = Lists, lost' = lost, ReadToEnd', ReadUpTo' \in Nat, Upper' \in Int, Upper \in Int,
             Upper <= Upper', \A e \in 1..ReadUpTo' : Alive(e)' => Alive(e) /\ e <= ReadUpTo
      PROVE  ExactInv'
  <2> SUFFICES ASSUME ~lost PROVE Ordered(Lists') /\ InLists' /\ Below(Lists', Upper')
    BY <1>d, <1>b
  <2>1. InLists'
    <3> SUFFICES ASSUME NEW e \in 1..ReadUpTo', Alive(e)' PROVE Holds(Lists', e)
      BY Zenon
    <3>1. Alive(e) /\ e <= ReadUpTo
      BY <1>d, Zenon
    <3>2. e \in 1..ReadUpTo
      BY <3>1, <1>d, <1>e
    <3> QED BY <3>1, <3>2, <1>a, <1>d, Zenon
  <2>2. Below(Lists', Upper')
    BY <1>a, <1>d, <1>0, BelowUp
  <2> QED BY <2>1, <2>2, <1>a, <1>d, Zenon
<1>1. CASE List
  <2>1. /\ pages' = <<>> /\ usedsize' = 0 /\ cur' = 0 /\ pc' = "dir"
    BY <1>1 DEF List, Go
  <2>2. Lists' \in [1..1 -> Seq(FileInfo)] /\ \A i \in 1..1 : Lists'[i] = <<>>
    BY <2>1, EmptySeq DEF Lists, Waiting
  <2>3. Ordered(Lists') /\ Below(Lists', Upper')
    BY <2>2, NoEntries, 1 \in Nat, Zenon
  <2>4. ReadUpTo' = 0 /\ ReadToEnd'
    BY <2>1 DEF ReadUpTo, ReadToEnd
  <2>5. InLists'
    BY <2>4
  <2> QED BY <2>3, <2>4, <2>5, <1>b
<1>2. CASE ListError
  <2>1. CASE lost' = TRUE
    BY <2>1, <1>c
  <2>2. CASE lost' # TRUE
    <3>1. /\ pages' = <<HeaderOnly(TRUE)>>
          /\ cur' = 0 /\ count' = 0 /\ pc' = "wait"
      BY <1>2, <2>2 DEF ListError
    <3>2. Lists' \in [1..2 -> Seq(FileInfo)] /\ \A i \in 1..2 : Lists'[i] = <<>>
      <4>1. Len(pages') = 1 /\ pages'[1].files = <<>> /\ Waiting' = <<>>
        BY <3>1 DEF Waiting, HeaderOnly
      <4>2. Lists' = [i \in 1..2 |-> <<>>]
        BY <4>1 DEF Lists
      <4> QED BY <4>2, EmptySeq
    <3>3. Ordered(Lists') /\ Below(Lists', Upper')
      BY <3>2, NoEntries, 2 \in Nat, Zenon
    <3>4. ReadUpTo' = 0 /\ ReadToEnd'
      BY <3>1 DEF ReadUpTo, ReadToEnd
    <3>5. InLists'
      BY <3>4
    <3> QED BY <3>3, <3>4, <3>5, <1>b
  <2> QED BY <2>1, <2>2
<1>3. CASE GetFileInfo
  <2>1. UNCHANGED <<pc, count, cur, gone, usedsize, fileNum, fileList, pages, lost>>
    BY <1>3 DEF GetFileInfo, buffer
  <2>2. Lists' = Lists /\ ReadUpTo' = ReadUpTo /\ Upper' = Upper
    BY <2>1, SameLists DEF ReadUpTo, Upper
  <2> QED BY <2>1, <2>2, <1>a, <1>b DEF ReadToEnd, ExactInv, Alive
<1>4. CASE Delete
  <2>1. UNCHANGED <<pc, count, cur, usedsize, fileNum, fileList, pages, lost>> /\ gone \subseteq gone'
    BY <1>4 DEF Delete, buffer
  <2>2. Lists' = Lists /\ ReadUpTo' = ReadUpTo /\ Upper' = Upper
    BY <2>1, SameLists DEF ReadUpTo, Upper
  <2> QED BY <2>1, <2>2, <1>a, <1>b DEF ReadToEnd, ExactInv, Alive
<1>5. CASE ReadDir
  <2>1. /\ UNCHANGED <<count, gone, usedsize, fileNum, fileList, pages, lost>>
        /\ pc = "dir"
    BY <1>5 DEF ReadDir, buffer
  <2>2. PICK e \in cur + 1 .. count + 1 :
          /\ cur + 1 .. e - 1 \subseteq gone
          /\ IF e > count THEN pc' = "fin" /\ UNCHANGED cur
             ELSE pc' \in {"flush", "stat"} /\ cur' = e
    BY <1>5 DEF ReadDir
  <2>3. Lists' = Lists /\ ReadUpTo = cur /\ Upper = cur
    <3>1. pc' # "wait"
      BY <2>2
    <3> QED BY <2>1, <3>1, SameLists DEF ReadUpTo, Upper
  <2>4. CASE e > count
    <3>1. pc' = "fin" /\ cur' = cur /\ e = count + 1
      BY <2>2, <2>4, <1>0
    <3>2. ReadUpTo' = count /\ Upper' = cur
      BY <2>1, <3>1 DEF ReadUpTo, Upper
    <3>3. ReadToEnd'
      BY <2>1, <2>2, <3>1, <1>0 DEF ReadToEnd
    <3>4. \A x \in 1..count : Alive(x)' => Alive(x) /\ x <= cur
      BY <2>1, <2>2, <3>1, <1>0 DEF Alive
    <3> QED BY <2>1, <2>3, <3>2, <3>3, <3>4, <1>0, <1>d
  <2>5. CASE ~(e > count)
    <3>1. pc' \in {"flush", "stat"} /\ cur' = e
      BY <2>2, <2>5
    <3>2. ReadUpTo' = e - 1 /\ Upper' = e - 1
      BY <3>1 DEF ReadUpTo, Upper
    <3>3. ReadToEnd'
      BY <3>1 DEF ReadToEnd
    <3>4. \A x \in 1..e - 1 : Alive(x)' => Alive(x) /\ x <= cur
      BY <2>1, <2>2, <3>1, <1>0 DEF Alive
    <3>5. e - 1 \in Nat /\ cur <= e - 1
      BY <2>2, <1>0
    <3> QED BY <2>1, <2>3, <3>2, <3>3, <3>4, <3>5, <1>0, <1>d
  <2> QED BY <2>4, <2>5
<1>6. CASE Flush
  <2>1. Send(FALSE, fileNum)
    BY <1>6, Zenon DEF Flush
  <2>2. /\ UNCHANGED <<cur, gone, count>> /\ pc = "flush" /\ pc' = "stat"
        /\ usedsize' = 0
    BY <1>6 DEF Flush, Go
  <2>3. fileNum \in Nat /\ FALSE \in BOOLEAN /\ pc # "wait"
    BY <2>2, Sizes DEF TypeOK
  <2>4. /\ Ordered(Lists) => Ordered(Lists')
        /\ \A e : Holds(Lists, e) => Holds(Lists', e)
        /\ \A u : Below(Lists, u) => Below(Lists', u)
    BY <2>1, <2>2, <2>3, SendLists, Zenon
  <2>5. ReadUpTo' = ReadUpTo /\ Upper' = Upper /\ ReadToEnd'
    BY <2>2 DEF ReadUpTo, Upper, ReadToEnd
  <2>6. lost' = lost
    BY <2>1 DEF Send
  <2> QED BY <2>2, <2>4, <2>5, <2>6, <1>a, <1>b DEF Alive
<1>7. CASE FlushFails
  BY <1>7, <1>c DEF FlushFails, NotSent
<1>8. CASE StatFails
  <2>1. /\ UNCHANGED <<count, cur, gone, usedsize, fileNum, fileList, pages, lost>>
        /\ pc = "stat" /\ pc' = "dir" /\ ~Alive(cur)
    BY <1>8 DEF StatFails, Go, buffer
  <2>2. Lists' = Lists
    BY <2>1, SameLists
  <2>3. ReadUpTo = cur - 1 /\ Upper = cur - 1 /\ ReadUpTo' = cur /\ Upper' = cur /\ ReadToEnd'
    BY <2>1 DEF ReadUpTo, Upper, ReadToEnd
  <2>4. \A x \in 1..cur : Alive(x)' => Alive(x) /\ x <= cur - 1
    <3> SUFFICES ASSUME NEW x \in 1..cur, Alive(x)' PROVE Alive(x) /\ x <= cur - 1
      OBVIOUS
    <3>1. Alive(x)
      BY <2>1 DEF Alive
    <3>2. x # cur
      BY <3>1, <2>1
    <3> QED BY <3>1, <3>2, <1>0
  <2> QED BY <2>1, <2>2, <2>3, <2>4, <1>0, <1>d
<1>9. CASE Stat
  <2> DEFINE n == Len(pages) + 1
  <2>1. /\ UNCHANGED <<count, cur, gone, pages, lost>>
        /\ pc = "stat" /\ pc' = "dir" /\ cur \in 1..count
        /\ fileList' = Append(IF usedsize = 0 THEN <<>> ELSE fileList, NewFile)
        /\ usedsize' = (IF usedsize = 0 THEN Hdr ELSE usedsize) + Node
    BY <1>9 DEF Stat, Go, Alive, NewFile
  <2>2. usedsize' # 0
    BY <2>1, Sizes DEF TypeOK
  <2>3. NewFile \in FileInfo /\ NewFile.name = cur
    <3>1. cur \in Entries /\ 1 \in 0..1
      BY <2>1, Sizes DEF TypeOK, Entries
    <3> QED BY <3>1, NewFileType DEF NewFile, StSize
  <2>4. Waiting' = Append(Waiting, NewFile)
    BY <2>1, <2>2 DEF Waiting
  <2>5. n \in Nat \ {0} /\ n - 1 = Len(pages)
    BY <1>0
  <2>6. \A i \in 1..n - 1 : Lists'[i] = Lists[i]
    BY <2>1, <2>5, <1>0 DEF Lists
  <2>7. Lists'[n] = Append(Lists[n], NewFile)
    <3>1. Lists[n] = Waiting /\ Lists'[n] = Waiting'
      BY <2>1, <2>5, <1>0 DEF Lists
    <3> QED BY <3>1, <2>4
  <2>8. Lists' \in [1..n -> Seq(FileInfo)]
    <3>1. (TypeOK => Lists \in [1..Len(pages) + 1 -> Seq(FileInfo)])'
      BY ListsType, PTL
    <3> QED BY <3>1, <2>1 DEF FileInfo, Entries
  <2>9. ReadUpTo = cur - 1 /\ Upper = cur - 1 /\ ReadUpTo' = cur /\ Upper' = cur /\ ReadToEnd'
    BY <2>1 DEF ReadUpTo, Upper, ReadToEnd
  <2>10. SUFFICES ASSUME ~lost PROVE Ordered(Lists') /\ InLists' /\ Below(Lists', Upper')
    BY <2>1, <2>9, <1>b
  <2>11. Below(Lists, NewFile.name - 1)
    BY <2>3, <2>9, <2>10, <1>a
  <2>12. Lists \in [1..n -> Seq(FileInfo)]
    BY <1>0
  <2> HIDE DEF n
  <2>13. /\ Ordered(Lists) => Ordered(Lists')
         /\ \A e : Holds(Lists, e) \/ e = NewFile.name => Holds(Lists', e)
         /\ Below(Lists', NewFile.name)
    BY <2>3, <2>5, <2>6, <2>7, <2>8, <2>11, <2>12, NewEntry, Zenon
  <2>14. InLists'
    <3> SUFFICES ASSUME NEW e \in 1..ReadUpTo', Alive(e)' PROVE Holds(Lists', e)
      BY Zenon
    <3>1. e = cur \/ e \in 1..ReadUpTo
      BY <2>9, <1>0
    <3>2. Alive(e)
      BY <2>1 DEF Alive
    <3> QED BY <3>1, <3>2, <2>3, <2>10, <2>13, <1>a
  <2> QED BY <2>3, <2>9, <2>10, <2>13, <2>14, <1>a
<1>10. CASE Finish
  <2>1. /\ UNCHANGED <<count, cur, gone>> /\ pc = "fin" /\ pc' = "wait"
        /\ fileNum' = IF usedsize = 0 THEN 0 ELSE fileNum
    BY <1>10 DEF Finish, Go
  <2>2. fileNum' \in Nat /\ TRUE \in BOOLEAN /\ pc # "wait"
    BY <2>1, Sizes DEF TypeOK
  <2>3. CASE Send(TRUE, fileNum')
    <3>1. /\ Ordered(Lists) => Ordered(Lists')
          /\ \A e : Holds(Lists, e) => Holds(Lists', e)
          /\ \A u : Below(Lists, u) => Below(Lists', u)
      BY <2>1, <2>2, <2>3, SendLists, Zenon
    <3>2. ReadUpTo' = ReadUpTo /\ Upper' = Upper
      BY <2>1 DEF ReadUpTo, Upper
    <3>3. lost' = lost
      BY <2>3 DEF Send
    <3>4. ReadToEnd'
      BY <2>1, <3>3 DEF ReadToEnd, ExactInv
    <3> QED BY <2>1, <3>1, <3>2, <3>3, <3>4, <1>a, <1>b DEF Alive
  <2>4. CASE NotSent
    BY <2>4, <1>c DEF NotSent
  <2>5. Send(TRUE, fileNum') \/ NotSent
    BY <1>10, Zenon DEF Finish
  <2> QED BY <2>3, <2>4, <2>5, Zenon
<1>11. CASE UNCHANGED vars
  <2>1. UNCHANGED <<pc, count, cur, gone, usedsize, fileNum, fileList, pages, lost>>
    BY <1>11 DEF vars, buffer
  <2>2. Lists' = Lists /\ ReadUpTo' = ReadUpTo /\ Upper' = Upper
    BY <2>1, SameLists DEF ReadUpTo, Upper
  <2> QED BY <2>1, <2>2, <1>a, <1>b DEF ReadToEnd, ExactInv, Alive
<1> QED BY <1>1, <1>2, <1>3, <1>4, <1>5, <1>6, <1>7, <1>8, <1>9, <1>10, <1>11, Zenon DEF Next, Handler

LEMMA ExactInit == Init => ExactInv
<1> SUFFICES ASSUME Init PROVE ExactInv
  OBVIOUS
<1>1. Lists \in [1..1 -> Seq(FileInfo)] /\ \A i \in 1..1 : Lists[i] = <<>>
  BY EmptySeq DEF Init, Lists, Waiting
<1>2. Ordered(Lists) /\ Below(Lists, Upper)
  BY <1>1, NoEntries, 1 \in Nat, Zenon
<1>3. ReadUpTo = 0 /\ ReadToEnd
  BY DEF Init, ReadUpTo, ReadToEnd
<1>4. \A e \in 1..ReadUpTo : Alive(e) => Holds(Lists, e)
  BY <1>3
<1> QED BY <1>2, <1>3, <1>4, ExactParts, Zenon DEF ExactInv

-----------------------------------------------------------------------------
(* The strengthening is invariant: readdir(), the flush before the entry    *)
(* that does not fit, and the entry that starts the next page keep it,      *)
(* whatever is deleted between them.                                        *)
THEOREM Inductive == Spec => []IInv
<1>1. Init => IInv
  <2>1. Init => PagesConsistent /\ PageFilling
    BY Sizes DEF Init, PagesConsistent, PageFilling
  <2> QED BY <2>1, TypeInit, ExactInit DEF IInv, ExactInv
<1>2. IInv /\ [Next]_vars => IInv'
  BY TypeStep, FillingStep, PagesStep, ExactStep DEF IInv, ExactInv
<1> QED BY <1>1, <1>2, PTL DEF Spec

(* The buffer never holds more than it has room for, and what is sent is    *)
(* made of entries of the directory.                                        *)
THEOREM TypeCorrect == Spec => []TypeOK
BY Inductive, PTL DEF IInv

(* usDisk_diskList(): in every page the announced size, the count and the   *)
(* entries agree, all of it fits, and only the last is marked as the end.   *)
THEOREM PagesAgree == Spec => []PagesConsistent
BY Inductive, PTL DEF IInv

(* readDirInvoke(): across the page breaks, for every length of a directory *)
(* and every size of the pages, no entry is left out and none comes twice.  *)
THEOREM ListingExact == Spec => []Exact
BY Inductive, PTL DEF IInv
=============================================================================
