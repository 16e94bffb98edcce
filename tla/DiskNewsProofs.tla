--------------------------- MODULE DiskNewsProofs ---------------------------
(***************************************************************************)
(* What DiskNews is worth, for any number of changes.                      *)
(***************************************************************************)
EXTENDS DiskNews, TLAPS

(* Nothing is recorded that has not happened, and when a list that was taken  *)
(* is out of date there is a change to record, or the last was thrown away:   *)
(* what came before the list was taken is in it, and what comes later is not  *)
(* recorded while it is used.                                                 *)
NewsInv ==
  /\ disk \in Int /\ recorded \in Int /\ snap \in Int \cup {NoList}
  /\ listening \in BOOLEAN /\ pending \in BOOLEAN /\ busy \in BOOLEAN
  /\ recorded <= disk
  /\ busy => listening
  /\ snap # NoList => busy /\ (snap = disk \/ recorded < disk \/ disk \in unread)

LEMMA NewsInit == Init => NewsInv
<1> SUFFICES ASSUME Init PROVE NewsInv
  OBVIOUS
<1>1. disk \in Int /\ recorded \in Int /\ recorded <= disk
  BY DEF Init
<1>2. snap = NoList /\ busy = FALSE /\ pending = FALSE /\ listening \in BOOLEAN
  BY DEF Init
<1> QED BY <1>1, <1>2 DEF NewsInv

LEMMA NewsStep == NewsInv /\ [Next]_vars => NewsInv'
<1> SUFFICES ASSUME NewsInv, [Next]_vars PROVE NewsInv'
  OBVIOUS
<1> USE DEF NewsInv
<1>1. CASE Change
  BY <1>1 DEF Change
<1>2. CASE Listen
  BY <1>2 DEF Listen
<1>3. CASE Record
  BY <1>3 DEF Record
<1>4. CASE Skip
  BY <1>4 DEF Skip
<1>5. CASE Ask
  BY <1>5 DEF Ask
<1>6. CASE Take \/ Spoil
  BY <1>6 DEF Take, Spoil
<1>7. CASE Answer \/ Refuse
  BY <1>7 DEF Answer, Refuse
<1>8. CASE Announce
  BY <1>8 DEF Announce
<1>9. CASE Miss
  <2>1. recorded' = disk => disk \in unread'
    BY <1>9 DEF Miss
  <2> QED BY <1>9, <2>1 DEF Miss
<1>10. CASE UNCHANGED vars
  BY <1>10 DEF vars
<1> QED BY <1>1, <1>2, <1>3, <1>4, <1>5, <1>6, <1>7, <1>8, <1>9, <1>10 DEF Next

(* An answer that cancels the notification is up to date, or another          *)
(* notification is to come, or the event of the last change was thrown away.  *)
THEOREM NewsAnswered == Spec => AnswerCovers
<1>1. NewsInv /\ [Next]_vars => [Answer => \/ snap = disk \/ recorded < disk
                                         \/ disk \in unread]_vars
  BY DEF NewsInv, Answer
<1> QED BY <1>1, NewsInit, NewsStep, PTL DEF Spec, AnswerCovers
=============================================================================
