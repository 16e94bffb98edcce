------------------------------ MODULE DiskNews ------------------------------
(***************************************************************************)
(* What the daemon promises an app about changes of the disks, whichever   *)
(* way it learns of the disks.  A change is recorded, which leaves a       *)
(* notification pending; a request for the disks is answered from one list *)
(* that was taken while nothing could be recorded; only such an answer, or *)
(* the announcement itself, makes the pending notification go away.        *)
(*                                                                         *)
(* UStorage implements this with a query in one step, DiskIpc with a call  *)
(* to the disk service taken apart.                                        *)
(***************************************************************************)
EXTENDS Integers

VARIABLES disk,      \* changes of the disks so far
          listening, \* the daemon hears of them
          unread,    \* the changes whose event it threw away
          recorded,  \* the last change it recorded, threw away or passed over
          pending,   \* a notification is pending
          busy,      \* a request for the disks is being served
          snap       \* the disks it will be answered with, or NoList

vars == <<disk, listening, unread, recorded, pending, busy, snap>>

NoList == -1

Init ==
  /\ disk \in Nat /\ recorded = disk /\ unread = {}
  /\ listening \in BOOLEAN
  /\ pending = FALSE
  /\ busy = FALSE /\ snap = NoList

(* A change that nobody heard of is nobody's to record.                       *)
Change ==
  /\ disk' = disk + 1
  /\ recorded' = IF listening THEN recorded ELSE disk'
  /\ UNCHANGED <<listening, unread, pending, busy, snap>>

Listen ==
  /\ ~listening /\ listening' = TRUE
  /\ UNCHANGED <<disk, unread, recorded, pending, busy, snap>>

(* Changes are recorded in order, and never in the middle of a request.       *)
Record ==
  /\ ~busy
  /\ recorded' \in recorded + 1 .. disk
  /\ pending' = TRUE
  /\ UNCHANGED <<disk, listening, unread, busy, snap>>

(* One may be passed over if a later one is still to be recorded.             *)
Skip ==
  /\ recorded' \in recorded + 1 .. disk - 1
  /\ UNCHANGED <<disk, listening, unread, pending, busy, snap>>

(* The event of one may be thrown away, in the middle of a request or not:    *)
(* this change nobody will hear of.                                           *)
Miss ==
  /\ recorded < disk /\ recorded' = recorded + 1
  /\ unread' = unread \cup {recorded'}
  /\ UNCHANGED <<disk, listening, pending, busy, snap>>

(* Nobody asks before the daemon listens.                                     *)
Ask ==
  /\ listening
  /\ ~busy /\ busy' = TRUE
  /\ UNCHANGED <<disk, listening, unread, recorded, pending, snap>>

(* The list is that of the moment; it may prove useless.                      *)
Take ==
  /\ busy /\ snap = NoList /\ snap' = disk
  /\ UNCHANGED <<disk, listening, unread, recorded, pending, busy>>

Spoil ==
  /\ busy /\ snap # NoList /\ snap' = NoList
  /\ UNCHANGED <<disk, listening, unread, recorded, pending, busy>>

(* The request is answered, and nothing is pending any more; or it fails, and *)
(* what was pending is.                                                       *)
Answer ==
  /\ busy /\ busy' = FALSE
  /\ snap # NoList /\ snap' = NoList
  /\ pending' = FALSE
  /\ UNCHANGED <<disk, listening, unread, recorded>>

Refuse ==
  /\ busy /\ busy' = FALSE
  /\ snap = NoList
  /\ UNCHANGED <<disk, listening, unread, recorded, pending, snap>>

(* The app is told that something has changed.                                *)
Announce ==
  /\ ~busy
  /\ pending /\ pending' = FALSE
  /\ UNCHANGED <<disk, listening, unread, recorded, busy, snap>>

Next == \/ Change \/ Listen \/ Record \/ Skip \/ Miss
        \/ Ask \/ Take \/ Spoil \/ Answer \/ Refuse \/ Announce

Spec == Init /\ [][Next]_vars

-----------------------------------------------------------------------------
(* What the promise is worth: an answer may cancel the notification since it  *)
(* shows the disks as they are, or a change is still to be recorded, which    *)
(* will make a notification pending again.  Only a last change whose event    *)
(* was thrown away goes without both.                                         *)
AnswerCovers == [][Answer => \/ snap = disk \/ recorded < disk
                             \/ disk \in unread]_vars
=============================================================================
