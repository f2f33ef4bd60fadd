---------------------------- MODULE InboxProofs ----------------------------
(***************************************************************************)
(* What holds of a user's notifications for every number of them, every    *)
(* number of instances and every length of a client's queue.               *)
(***************************************************************************)
EXTENDS Inbox, FiniteSetTheorems, TLAPS

(* The count of unread rows is a number.                                   *)
LEMMA UnreadType == Unread \in Nat
<1>1. IsFiniteSet({n \in Note : row[n] = "unread"})
  BY FS_Subset, InboxAssumption
<1>2. QED
  BY <1>1, FS_CardinalityType DEF Unread

(* A sequence stays one when an element is appended.                       *)
LEMMA Appends == ASSUME NEW S, NEW s \in Seq(S), NEW e \in S PROVE Append(s, e) \in Seq(S)
OBVIOUS

(* The rows, the hub, the connection and the tab stay within their types,  *)
(* whatever is delivered, lost or read.                                    *)
THEOREM TypeCorrect == Spec => []TypeOK
<1> USE InboxAssumption DEF TypeOK, Message, eventVars, mailVars, hubVars, connVars, tabVars
<1>1. Init => TypeOK
  BY DEF Init
<1>2. TypeOK /\ [Next]_vars => TypeOK'
  <2> SUFFICES ASSUME TypeOK, [Next]_vars PROVE TypeOK'
    OBVIOUS
  <2>1. ASSUME NEW n \in Note, Record(n) PROVE TypeOK'
    BY <2>1 DEF Record
  <2>2. ASSUME NEW n \in Note, Decide(n) PROVE TypeOK'
    BY <2>2 DEF Decide
  <2>3. ASSUME NEW n \in Note, Check(n) PROVE TypeOK'
    BY <2>3 DEF Check
  <2>4. ASSUME NEW n \in Note, Deliver(n) PROVE TypeOK'
    <3>0. Settle(n)
      BY <2>4, Zenon DEF Deliver
    <3>1. event' \in [Note -> {"none", "pending", "done"}]
      BY <3>0 DEF Settle
    <3>8. faults' \in 0..MaxFaults
      BY <3>0 DEF Settle, Fault
    <3>2. /\ row' \in [Note -> {"absent", "unread", "read", "hidden"}]
          /\ mail' \in [Note -> {"none", "queued", "accepted", "marked", "done"}]
      BY <2>4 DEF Deliver
    <3>5. \A j \in Instance : Append(signals[j], n) \in Seq(Note)
      BY Appends
    <3>6. Signal(n) \/ UNCHANGED signals
      BY <2>4, Zenon DEF Deliver
    <3>3. signals' \in [Instance -> Seq(Note)]
      BY <3>5, <3>6 DEF Signal
    <3>7. late' \in [Note -> BOOLEAN]
      BY <2>4 DEF Deliver
    <3>4. QED
      BY <2>4, <3>1, <3>8, <3>2, <3>3, <3>7 DEF Deliver
  <2>5. ASSUME NEW n \in Note, HandlerFails(n) PROVE TypeOK'
    BY <2>5 DEF HandlerFails, Fault
  <2>6. ASSUME NEW n \in Note, MailSkip(n) PROVE TypeOK'
    BY <2>6 DEF MailSkip
  <2>7. ASSUME NEW n \in Note, MailSend(n) PROVE TypeOK'
    BY <2>7 DEF MailSend
  <2>8. ASSUME NEW n \in Note, MailMark(n) PROVE TypeOK'
    BY <2>8 DEF MailMark
  <2>9. ASSUME NEW n \in Note, MailSettle(n) PROVE TypeOK'
    BY <2>9 DEF MailSettle
  <2>10. ASSUME NEW n \in Note, MailLapse(n) PROVE TypeOK'
    BY <2>10 DEF MailLapse, Fault
  <2>11. ASSUME NEW i \in Instance, Listen(i) PROVE TypeOK'
    BY <2>11 DEF Listen
  <2>12. ASSUME NEW i \in Instance, LinkDrops(i) PROVE TypeOK'
    BY <2>12 DEF LinkDrops, Fault
  <2>13. ASSUME NEW i \in Instance, Load(i) PROVE TypeOK'
    BY <2>13 DEF Load
  <2>14. ASSUME NEW i \in Instance, Hide(i) PROVE TypeOK'
    <3>1. row' \in [Note -> {"absent", "unread", "read", "hidden"}]
      BY <2>14 DEF Hide
    <3>2. signals' \in [Instance -> Seq(Note)] /\ faults' \in 0..MaxFaults
      BY <2>14 DEF Hide, Fault
    <3>3. QED
      BY <2>14, <3>1, <3>2 DEF Hide
  <2>15. ASSUME NEW i \in Instance, Publish(i) PROVE TypeOK'
    <3>0. pub[i] \in Message
      BY <2>15 DEF Publish
    <3>1. pub[i].id \in Note
      BY <3>0
    <3>5. Append(queue, pub[i]) \in Seq(Message)
      BY <3>0, Appends
    <3>6. queue' = queue \/ queue' = Append(queue, pub[i])
      BY <2>15, Zenon DEF Publish
    <3>7. queue' \in Seq(Message)
      BY <3>5, <3>6
    <3>2. due' \subseteq Note
      BY <2>15, <3>1 DEF Publish
    <3>3. phase' \in {"closed", "open", "live", "cancelled"} /\ pushed' \subseteq Instance \X Note
      BY <2>15, <3>1 DEF Publish
    <3>4. QED
      BY <2>15, <3>2, <3>3, <3>7 DEF Publish
  <2>16. ASSUME NEW i \in Instance, LoadFails(i) PROVE TypeOK'
    BY <2>16 DEF LoadFails, Fault
  <2>17. ASSUME NEW i \in Instance, Connect(i) PROVE TypeOK'
    BY <2>17 DEF Connect
  <2>18. CASE Add
    BY <2>18 DEF Add
  <2>19. CASE Write
    BY <2>19 DEF Write
  <2>20. CASE Close
    BY <2>20 DEF Close, Fault
  <2>21. CASE Reload
    BY <2>21 DEF Reload
  <2>22. CASE Serve
    BY <2>22, UnreadType DEF Serve, Fault
  <2>23. CASE Arrive
    BY <2>23 DEF Arrive
  <2>24. CASE FetchFails
    BY <2>24 DEF FetchFails, Fault
  <2>25. CASE ReadHere
    BY <2>25 DEF ReadHere, Read
  <2>26. CASE ReadElsewhere
    BY <2>26 DEF ReadElsewhere, Read
  <2>27. CASE UNCHANGED vars
    BY <2>27 DEF vars
  <2>28. QED
    BY <2>1, <2>2, <2>3, <2>4, <2>5, <2>6, <2>7, <2>8, <2>9, <2>10, <2>11, <2>12, <2>13, <2>14,
       <2>15, <2>16, <2>17, <2>18, <2>19, <2>20, <2>21, <2>22, <2>23, <2>24, <2>25, <2>26, <2>27
       DEF Next, Handler, Mailer, Fanout
<1>3. QED
  BY <1>1, <1>2, PTL DEF Spec

-----------------------------------------------------------------------------
(* A message is given to the server again only after a lapse: before the   *)
(* row exists there is no e-mail, and an e-mail that waits has not been    *)
(* accepted since the last lapse.                                          *)
Mailed ==
    \A n \in Note :
        /\ row[n] = "absent" => mail[n] = "none"
        /\ mail[n] \in {"none", "queued"} => sent[n] <= lapses[n]
        /\ sent[n] <= 1 + lapses[n]

(* Every step keeps Mailed.                                                *)
LEMMA MailedStep == TypeOK /\ Mailed /\ [Next]_vars => Mailed'
<1> SUFFICES ASSUME TypeOK, Mailed, [Next]_vars PROVE Mailed'
  OBVIOUS
<1> USE DEF TypeOK, Mailed, eventVars, mailVars, hubVars, connVars, tabVars
<1>1. ASSUME NEW n \in Note, Record(n) PROVE Mailed'
  BY <1>1 DEF Record
<1>2. ASSUME NEW n \in Note, Decide(n) PROVE Mailed'
  BY <1>2 DEF Decide
<1>3. ASSUME NEW n \in Note, Check(n) PROVE Mailed'
  BY <1>3 DEF Check
<1>4. ASSUME NEW n \in Note, Deliver(n) PROVE Mailed'
  BY <1>4 DEF Deliver, Settle, Signal, Fault
<1>5. ASSUME NEW n \in Note, HandlerFails(n) PROVE Mailed'
  BY <1>5 DEF HandlerFails, Fault
<1>6. ASSUME NEW n \in Note, MailSkip(n) PROVE Mailed'
  BY <1>6 DEF MailSkip
<1>7. ASSUME NEW n \in Note, MailSend(n) PROVE Mailed'
  BY <1>7 DEF MailSend
<1>8. ASSUME NEW n \in Note, MailMark(n) PROVE Mailed'
  BY <1>8 DEF MailMark
<1>9. ASSUME NEW n \in Note, MailSettle(n) PROVE Mailed'
  BY <1>9 DEF MailSettle
<1>10. ASSUME NEW n \in Note, MailLapse(n) PROVE Mailed'
  BY <1>10 DEF MailLapse, Fault
<1>11. ASSUME NEW i \in Instance, Listen(i) PROVE Mailed'
  BY <1>11 DEF Listen
<1>12. ASSUME NEW i \in Instance, LinkDrops(i) PROVE Mailed'
  BY <1>12 DEF LinkDrops, Fault
<1>13. ASSUME NEW i \in Instance, Load(i) PROVE Mailed'
  BY <1>13 DEF Load
<1>14. ASSUME NEW i \in Instance, Hide(i) PROVE Mailed'
  BY <1>14 DEF Hide, Fault
<1>15. ASSUME NEW i \in Instance, Publish(i) PROVE Mailed'
  BY <1>15 DEF Publish, Registered
<1>16. ASSUME NEW i \in Instance, LoadFails(i) PROVE Mailed'
  BY <1>16 DEF LoadFails, Fault
<1>17. ASSUME NEW i \in Instance, Connect(i) PROVE Mailed'
  BY <1>17 DEF Connect
<1>18. CASE Add
  BY <1>18 DEF Add
<1>19. CASE Write
  BY <1>19 DEF Write
<1>20. CASE Close
  BY <1>20 DEF Close, Fault
<1>21. CASE Reload
  BY <1>21 DEF Reload
<1>22. CASE Serve
  BY <1>22 DEF Serve, Fault
<1>23. CASE Arrive
  BY <1>23 DEF Arrive
<1>24. CASE FetchFails
  BY <1>24 DEF FetchFails, Fault
<1>25. CASE ReadHere
  BY <1>25 DEF ReadHere, Read
<1>26. CASE ReadElsewhere
  BY <1>26 DEF ReadElsewhere, Read
<1>27. CASE UNCHANGED vars
  BY <1>27 DEF vars
<1>28. QED
  BY <1>1, <1>2, <1>3, <1>4, <1>5, <1>6, <1>7, <1>8, <1>9, <1>10, <1>11, <1>12, <1>13, <1>14,
     <1>15, <1>16, <1>17, <1>18, <1>19, <1>20, <1>21, <1>22, <1>23, <1>24, <1>25, <1>26, <1>27
     DEF Next, Handler, Mailer, Fanout

(* MailOncePerLapse, for any number of notifications and failures.         *)
THEOREM MailsOncePerLapse == Spec => []MailOncePerLapse
<1>1. Init => Mailed
  BY DEF Init, Mailed
<1>2. Mailed => MailOncePerLapse
  BY DEF Mailed, MailOncePerLapse
<1>3. QED
  BY <1>1, <1>2, TypeCorrect, MailedStep, PTL DEF Spec

-----------------------------------------------------------------------------
(* The queue of a connection that is being set up or has gone is empty.    *)
Waiting == phase \in {"closed", "open"} => queue = <<>> /\ due = {}

(* Every step keeps NothingDropped and Waiting.                            *)
LEMMA QueueStep ==
    TypeOK /\ Waiting /\ NothingDropped /\ [Next]_vars => Waiting' /\ NothingDropped'
<1> SUFFICES ASSUME TypeOK, Waiting, NothingDropped, [Next]_vars
             PROVE  Waiting' /\ NothingDropped'
  OBVIOUS
<1> USE DEF Waiting, NothingDropped, eventVars, mailVars, hubVars, connVars, tabVars
<1>1. ASSUME NEW n \in Note, Record(n) PROVE Waiting' /\ NothingDropped'
  BY <1>1 DEF Record
<1>2. ASSUME NEW n \in Note, Decide(n) PROVE Waiting' /\ NothingDropped'
  BY <1>2 DEF Decide
<1>3. ASSUME NEW n \in Note, Check(n) PROVE Waiting' /\ NothingDropped'
  BY <1>3 DEF Check
<1>4. ASSUME NEW n \in Note, Deliver(n) PROVE Waiting' /\ NothingDropped'
  BY <1>4 DEF Deliver, Settle, Signal, Fault
<1>5. ASSUME NEW n \in Note, HandlerFails(n) PROVE Waiting' /\ NothingDropped'
  BY <1>5 DEF HandlerFails, Fault
<1>6. ASSUME NEW n \in Note, MailSkip(n) PROVE Waiting' /\ NothingDropped'
  BY <1>6 DEF MailSkip
<1>7. ASSUME NEW n \in Note, MailSend(n) PROVE Waiting' /\ NothingDropped'
  BY <1>7 DEF MailSend
<1>8. ASSUME NEW n \in Note, MailMark(n) PROVE Waiting' /\ NothingDropped'
  BY <1>8 DEF MailMark
<1>9. ASSUME NEW n \in Note, MailSettle(n) PROVE Waiting' /\ NothingDropped'
  BY <1>9 DEF MailSettle
<1>10. ASSUME NEW n \in Note, MailLapse(n) PROVE Waiting' /\ NothingDropped'
  BY <1>10 DEF MailLapse, Fault
<1>11. ASSUME NEW i \in Instance, Listen(i) PROVE Waiting' /\ NothingDropped'
  BY <1>11 DEF Listen
<1>12. ASSUME NEW i \in Instance, LinkDrops(i) PROVE Waiting' /\ NothingDropped'
  BY <1>12 DEF LinkDrops, Fault
<1>13. ASSUME NEW i \in Instance, Load(i) PROVE Waiting' /\ NothingDropped'
  BY <1>13 DEF Load
<1>14. ASSUME NEW i \in Instance, Hide(i) PROVE Waiting' /\ NothingDropped'
  BY <1>14 DEF Hide, Fault
<1>15. ASSUME NEW i \in Instance, Publish(i) PROVE Waiting' /\ NothingDropped'
  <2>1. queue \in Seq(Message)
    BY DEF TypeOK
  <2>2. pub[i].id \in Note /\ pub[i] \in Message
    BY <1>15 DEF Publish, TypeOK, Message
  <2>3. CASE queue' = Append(queue, pub[i]) /\ due' = due \cup {pub[i].id} /\ UNCHANGED phase /\ Registered(i)
    <3>1. \A k \in DOMAIN queue : k \in DOMAIN queue' /\ queue'[k] = queue[k]
      BY <2>1, <2>2, <2>3
    <3>2. Len(queue) + 1 \in DOMAIN queue' /\ queue'[Len(queue) + 1] = pub[i]
      BY <2>1, <2>2, <2>3
    <3>3. QED
      BY <2>3, <3>1, <3>2 DEF Registered
  <2>4. CASE phase' = "cancelled"
    BY <2>4
  <2>5. CASE UNCHANGED <<phase, queue, due>>
    BY <2>5
  <2>6. QED
    BY <1>15, <2>3, <2>4, <2>5 DEF Publish
<1>16. ASSUME NEW i \in Instance, LoadFails(i) PROVE Waiting' /\ NothingDropped'
  BY <1>16 DEF LoadFails, Fault
<1>17. ASSUME NEW i \in Instance, Connect(i) PROVE Waiting' /\ NothingDropped'
  BY <1>17 DEF Connect
<1>18. CASE Add
  BY <1>18 DEF Add
<1>19. CASE Write
  <2>1. queue \in Seq(Message) /\ queue # <<>> /\ queue' = Tail(queue)
       /\ due' = due \ {Head(queue).id} /\ phase = "live" /\ UNCHANGED phase
    BY <1>19 DEF Write, TypeOK
  <2>2. ASSUME NEW m \in due' PROVE \E k \in DOMAIN queue' : queue'[k].id = m
    <3>1. PICK k \in DOMAIN queue : queue[k].id = m
      BY <2>1, <2>2
    <3>2. k # 1
      BY <2>1, <2>2, <3>1
    <3>3. k - 1 \in DOMAIN queue' /\ queue'[k - 1] = queue[k]
      BY <2>1, <3>2
    <3>4. QED
      BY <3>1, <3>3
  <2>3. QED
    BY <2>1, <2>2
<1>20. CASE Close
  BY <1>20 DEF Close, Fault
<1>21. CASE Reload
  BY <1>21 DEF Reload
<1>22. CASE Serve
  BY <1>22 DEF Serve, Fault
<1>23. CASE Arrive
  BY <1>23 DEF Arrive
<1>24. CASE FetchFails
  BY <1>24 DEF FetchFails, Fault
<1>25. CASE ReadHere
  BY <1>25 DEF ReadHere, Read
<1>26. CASE ReadElsewhere
  BY <1>26 DEF ReadElsewhere, Read
<1>27. CASE UNCHANGED vars
  BY <1>27 DEF vars
<1>28. QED
  BY <1>1, <1>2, <1>3, <1>4, <1>5, <1>6, <1>7, <1>8, <1>9, <1>10, <1>11, <1>12, <1>13, <1>14,
     <1>15, <1>16, <1>17, <1>18, <1>19, <1>20, <1>21, <1>22, <1>23, <1>24, <1>25, <1>26, <1>27
     DEF Next, Handler, Mailer, Fanout

(* NothingDropped, for every length of the queue.                          *)
THEOREM NothingIsDropped == Spec => []NothingDropped
<1>1. Init => Waiting /\ NothingDropped
  BY DEF Init, Waiting, NothingDropped
<1>2. QED
  BY <1>1, TypeCorrect, QueueStep, PTL DEF Spec

-----------------------------------------------------------------------------
(* The way of a notification through one instance: it is signalled once,   *)
(* is then in hand, and has then been pushed, and it is in one of the      *)
(* three places only.  Nothing is signalled before the row exists, and a   *)
(* request that was decided before is stopped at the publisher.            *)
Among(n, s) == \E k \in DOMAIN s : s[k] = n
Distinct(s) == \A j, k \in DOMAIN s : s[j] = s[k] => j = k
InHand(i, n) == pub[i] # Nothing /\ pub[i].id = n

Course ==
    \A i \in Instance :
        /\ Distinct(signals[i])
        /\ \A n \in Note :
             /\ Among(n, signals[i]) => ~InHand(i, n) /\ <<i, n>> \notin pushed /\ row[n] # "absent"
             /\ InHand(i, n) => <<i, n>> \notin pushed /\ row[n] # "absent"
             /\ <<i, n>> \in pushed => row[n] # "absent"

Lateness ==
    \A n \in Note :
        /\ late[n] => decided[n] /\ n \in Approval /\ row[n] # "absent"
        /\ decided[n] => n \in Approval

(* The signals that remain when the first one is taken.                    *)
LEMMA Taken ==
    ASSUME NEW s \in Seq(Note), s # <<>>, Distinct(s)
    PROVE  /\ Distinct(Tail(s))
           /\ \A n \in Note : Among(n, Tail(s)) => Among(n, s) /\ n # Head(s)
           /\ Head(s) \in Note /\ Among(Head(s), s)
<1>1. \A k \in DOMAIN Tail(s) :
        k + 1 \in DOMAIN s /\ Tail(s)[k] = s[k + 1] /\ k + 1 # 1
  OBVIOUS
<1>2. \A j, k \in DOMAIN Tail(s) : j + 1 = k + 1 => j = k
  OBVIOUS
<1>3. 1 \in DOMAIN s /\ Head(s) = s[1] /\ Head(s) \in Note
  OBVIOUS
<1>4. QED
  BY <1>1, <1>2, <1>3 DEF Distinct, Among

(* The signals when a new one has arrived.                                 *)
LEMMA Arrived ==
    ASSUME NEW s \in Seq(Note), NEW n \in Note, Distinct(s), ~Among(n, s)
    PROVE  /\ Distinct(Append(s, n))
           /\ \A m \in Note : Among(m, Append(s, n)) => Among(m, s) \/ m = n
<1>1. \A k \in DOMAIN Append(s, n) :
        \/ k \in DOMAIN s /\ Append(s, n)[k] = s[k]
        \/ k = Len(s) + 1 /\ Append(s, n)[k] = n
  OBVIOUS
<1>2. QED
  BY <1>1 DEF Distinct, Among

(* The signals that remain when the last ones are lost.                    *)
LEMMA Lost ==
    ASSUME NEW s \in Seq(Note), NEW k \in 0..Len(s), Distinct(s)
    PROVE  /\ Distinct(SubSeq(s, 1, k))
           /\ \A n \in Note : Among(n, SubSeq(s, 1, k)) => Among(n, s)
<1>1. \A j \in DOMAIN SubSeq(s, 1, k) : j \in DOMAIN s /\ SubSeq(s, 1, k)[j] = s[j]
  OBVIOUS
<1>2. QED
  BY <1>1 DEF Distinct, Among

(* A step that leaves signals, hand and hub alone and removes no row.      *)
LEMMA CourseKept ==
    ASSUME Course, UNCHANGED <<signals, pub, pushed>>,
           \A n \in Note : row'[n] = "absent" => row[n] = "absent"
    PROVE  Course'
BY DEF Course, InHand

(* Every step keeps Course.                                                *)
LEMMA CourseStep == TypeOK /\ Course /\ [Next]_vars => Course'
<1> SUFFICES ASSUME TypeOK, Course, [Next]_vars PROVE Course'
  OBVIOUS
<1> USE DEF eventVars, mailVars, hubVars, connVars, tabVars
<1>s. \A i \in Instance : signals[i] \in Seq(Note) /\ Distinct(signals[i])
  BY DEF TypeOK, Course
<1>f. signals \in [Instance -> Seq(Note)]
  BY DEF TypeOK
<1>t. pub \in [Instance -> Message \cup {Nothing}]
  BY DEF TypeOK
<1>r. row \in [Note -> {"absent", "unread", "read", "hidden"}]
  BY DEF TypeOK
<1>1. ASSUME NEW n \in Note, Record(n) PROVE Course'
  BY <1>1, CourseKept DEF Record
<1>2. ASSUME NEW n \in Note, Decide(n) PROVE Course'
  BY <1>2, CourseKept DEF Decide
<1>3. ASSUME NEW n \in Note, Check(n) PROVE Course'
  BY <1>3, CourseKept DEF Check
<1>4. ASSUME NEW n \in Note, Deliver(n) PROVE Course'
  <2>1. CASE row[n] = "absent"
    <3>1. /\ row' \in [Note -> {"absent", "unread", "read", "hidden"}] /\ row'[n] # "absent"
          /\ \A m \in Note : m # n => row'[m] = row[m]
      BY <1>4, <2>1, <1>r DEF Deliver
    <3>2. Signal(n) /\ UNCHANGED <<pub, pushed>>
      BY <1>4, <2>1 DEF Deliver
    <3>3. ASSUME NEW j \in Instance PROVE
           Distinct(signals'[j]) /\ \A m \in Note : Among(m, signals'[j]) => Among(m, signals[j]) \/ m = n
      <4>1. signals'[j] = Append(signals[j], n) \/ signals'[j] = signals[j]
        BY <3>2 DEF Signal
      <4>2. ~Among(n, signals[j])
        BY <2>1 DEF Course
      <4>3. QED
        BY <1>s, <4>1, <4>2, Arrived
    <3>4. QED
      BY <2>1, <3>1, <3>2, <3>3 DEF Course, InHand
  <2>2. CASE row[n] # "absent"
    BY <1>4, <2>2, CourseKept DEF Deliver
  <2>3. QED
    BY <2>1, <2>2
<1>5. ASSUME NEW n \in Note, HandlerFails(n) PROVE Course'
  BY <1>5, CourseKept DEF HandlerFails, Fault
<1>6. ASSUME NEW n \in Note, MailSkip(n) PROVE Course'
  BY <1>6, CourseKept DEF MailSkip
<1>7. ASSUME NEW n \in Note, MailSend(n) PROVE Course'
  BY <1>7, CourseKept DEF MailSend
<1>8. ASSUME NEW n \in Note, MailMark(n) PROVE Course'
  BY <1>8, CourseKept DEF MailMark
<1>9. ASSUME NEW n \in Note, MailSettle(n) PROVE Course'
  BY <1>9, CourseKept DEF MailSettle
<1>10. ASSUME NEW n \in Note, MailLapse(n) PROVE Course'
  BY <1>10, CourseKept DEF MailLapse, Fault
<1>11. ASSUME NEW i \in Instance, Listen(i) PROVE Course'
  BY <1>11, CourseKept DEF Listen
<1>12. ASSUME NEW i \in Instance, LinkDrops(i) PROVE Course'
  <2>1. PICK k \in 0..Len(signals[i]) : signals' = [signals EXCEPT ![i] = SubSeq(signals[i], 1, k)]
    BY <1>12 DEF LinkDrops
  <2>2. UNCHANGED <<row, pub, pushed>>
    BY <1>12 DEF LinkDrops
  <2>3. \A j \in Instance : j # i => signals'[j] = signals[j]
    BY <1>f, <2>1
  <2>4. Distinct(signals'[i]) /\ \A n \in Note : Among(n, signals'[i]) => Among(n, signals[i])
    BY <1>s, <1>f, <2>1, Lost
  <2>5. QED
    BY <2>2, <2>3, <2>4 DEF Course, InHand
<1>13. ASSUME NEW i \in Instance, Load(i) PROVE Course'
  <2>1. /\ signals[i] # <<>> /\ signals' = [signals EXCEPT ![i] = Tail(@)]
        /\ pub[i] = Nothing
        /\ UNCHANGED <<row, pushed>>
    BY <1>13 DEF Load
  <2>2. /\ Distinct(signals'[i])
        /\ \A n \in Note : Among(n, signals'[i]) => Among(n, signals[i]) /\ n # Head(signals[i])
        /\ Head(signals[i]) \in Note /\ Among(Head(signals[i]), signals[i])
    BY <1>s, <1>f, <2>1, Taken
  <2>3. \A j \in Instance : j # i => signals'[j] = signals[j]
    BY <1>f, <2>1
  <2>4. pub'[i].id = Head(signals[i]) /\ (\A j \in Instance : j # i => pub'[j] = pub[j])
    BY <1>13, <1>t DEF Load
  <2>6. ASSUME NEW n \in Note PROVE
         /\ Among(n, signals'[i]) => ~InHand(i, n)' /\ <<i, n>> \notin pushed /\ row[n] # "absent"
         /\ InHand(i, n)' => <<i, n>> \notin pushed /\ row[n] # "absent"
         /\ <<i, n>> \in pushed => row[n] # "absent"
    <3>1. Among(n, signals[i]) => <<i, n>> \notin pushed /\ row[n] # "absent"
      BY DEF Course
    <3>2. Among(n, signals'[i]) => Among(n, signals[i]) /\ n # Head(signals[i])
      BY <2>2
    <3>3. InHand(i, n)' => n = Head(signals[i]) /\ Among(n, signals[i])
      <4>1. InHand(i, n)' => n = Head(signals[i])
        BY <2>4 DEF InHand
      <4>2. n = Head(signals[i]) => Among(n, signals[i])
        BY <2>2 DEF Among
      <4>3. QED
        BY <4>1, <4>2
    <3>4. <<i, n>> \in pushed => row[n] # "absent"
      BY DEF Course
    <3>5. QED
      BY <3>1, <3>2, <3>3, <3>4, Zenon
  <2>7. ASSUME NEW j \in Instance, j # i, NEW n \in Note PROVE InHand(j, n)' <=> InHand(j, n)
    BY <2>4, <2>7 DEF InHand
  <2>8. QED
    BY <2>1, <2>2, <2>3, <2>6, <2>7 DEF Course
<1>14. ASSUME NEW i \in Instance, Hide(i) PROVE Course'
  <2>1. /\ signals[i] # <<>> /\ signals' = [signals EXCEPT ![i] = Tail(@)]
        /\ UNCHANGED <<pub, pushed>>
    BY <1>14 DEF Hide
  <2>2. /\ Distinct(signals'[i])
        /\ \A n \in Note : Among(n, signals'[i]) => Among(n, signals[i]) /\ n # Head(signals[i])
        /\ Head(signals[i]) \in Note /\ Among(Head(signals[i]), signals[i])
    BY <1>s, <1>f, <2>1, Taken
  <2>3. \A j \in Instance : j # i => signals'[j] = signals[j]
    BY <1>f, <2>1
  <2>4. \A m \in Note : row'[m] = "absent" => row[m] = "absent"
    BY <1>14, <1>r DEF Hide
  <2>5. QED
    BY <2>1, <2>2, <2>3, <2>4 DEF Course, InHand
<1>15. ASSUME NEW i \in Instance, Publish(i) PROVE Course'
  <2>1. /\ pub[i] # Nothing /\ pub' = [pub EXCEPT ![i] = Nothing]
        /\ pushed' = pushed \cup {<<i, pub[i].id>>}
        /\ UNCHANGED <<row, signals>>
    BY <1>15 DEF Publish
  <2>2. pub'[i] = Nothing /\ (\A j \in Instance : j # i => pub'[j] = pub[j])
    BY <2>1, <1>t
  <2>3. QED
    BY <2>1, <2>2 DEF Course, InHand
<1>16. ASSUME NEW i \in Instance, LoadFails(i) PROVE Course'
  <2>1. /\ signals[i] # <<>> /\ signals' = [signals EXCEPT ![i] = Tail(@)]
        /\ UNCHANGED <<row, pub, pushed>>
    BY <1>16 DEF LoadFails
  <2>2. /\ Distinct(signals'[i])
        /\ \A n \in Note : Among(n, signals'[i]) => Among(n, signals[i]) /\ n # Head(signals[i])
        /\ Head(signals[i]) \in Note /\ Among(Head(signals[i]), signals[i])
    BY <1>s, <1>f, <2>1, Taken
  <2>3. \A j \in Instance : j # i => signals'[j] = signals[j]
    BY <1>f, <2>1
  <2>5. QED
    BY <2>1, <2>2, <2>3 DEF Course, InHand
<1>17. ASSUME NEW i \in Instance, Connect(i) PROVE Course'
  BY <1>17, CourseKept DEF Connect
<1>18. CASE Add
  BY <1>18, CourseKept DEF Add
<1>19. CASE Write
  BY <1>19, CourseKept DEF Write
<1>20. CASE Close
  BY <1>20, CourseKept DEF Close, Fault
<1>21. CASE Reload
  BY <1>21, CourseKept DEF Reload
<1>22. CASE Serve
  BY <1>22, CourseKept DEF Serve, Fault
<1>23. CASE Arrive
  BY <1>23, CourseKept DEF Arrive
<1>24. CASE FetchFails
  BY <1>24, CourseKept DEF FetchFails, Fault
<1>25. CASE ReadHere
  BY <1>25, CourseKept DEF ReadHere, Read
<1>26. CASE ReadElsewhere
  BY <1>26, CourseKept DEF ReadElsewhere, Read
<1>27. CASE UNCHANGED vars
  BY <1>27, CourseKept DEF vars
<1>28. QED
  BY <1>1, <1>2, <1>3, <1>4, <1>5, <1>6, <1>7, <1>8, <1>9, <1>10, <1>11, <1>12, <1>13, <1>14,
     <1>15, <1>16, <1>17, <1>18, <1>19, <1>20, <1>21, <1>22, <1>23, <1>24, <1>25, <1>26, <1>27
     DEF Next, Handler, Mailer, Fanout

(* Every step keeps Lateness.                                              *)
LEMMA LatenessStep == TypeOK /\ Lateness /\ [Next]_vars => Lateness'
<1> SUFFICES ASSUME TypeOK, Lateness, [Next]_vars PROVE Lateness'
  OBVIOUS
<1> USE DEF TypeOK, Lateness, eventVars, mailVars, hubVars, connVars, tabVars
<1>1. ASSUME NEW n \in Note, Record(n) PROVE Lateness'
  BY <1>1 DEF Record
<1>2. ASSUME NEW n \in Note, Decide(n) PROVE Lateness'
  BY <1>2 DEF Decide
<1>3. ASSUME NEW n \in Note, Check(n) PROVE Lateness'
  BY <1>3 DEF Check
<1>4. ASSUME NEW n \in Note, Deliver(n) PROVE Lateness'
  <2>1. CASE row[n] = "absent"
    <3>1. late' = [late EXCEPT ![n] = decided[n]] /\ UNCHANGED decided
      BY <1>4, <2>1 DEF Deliver
    <3>2. row'[n] # "absent" /\ \A m \in Note : m # n => row'[m] = row[m]
      BY <1>4, <2>1 DEF Deliver
    <3>3. QED
      BY <3>1, <3>2
  <2>2. CASE row[n] # "absent"
    BY <1>4, <2>2 DEF Deliver
  <2>3. QED
    BY <2>1, <2>2
<1>5. ASSUME NEW n \in Note, HandlerFails(n) PROVE Lateness'
  BY <1>5 DEF HandlerFails, Fault
<1>6. ASSUME NEW n \in Note, MailSkip(n) PROVE Lateness'
  BY <1>6 DEF MailSkip
<1>7. ASSUME NEW n \in Note, MailSend(n) PROVE Lateness'
  BY <1>7 DEF MailSend
<1>8. ASSUME NEW n \in Note, MailMark(n) PROVE Lateness'
  BY <1>8 DEF MailMark
<1>9. ASSUME NEW n \in Note, MailSettle(n) PROVE Lateness'
  BY <1>9 DEF MailSettle
<1>10. ASSUME NEW n \in Note, MailLapse(n) PROVE Lateness'
  BY <1>10 DEF MailLapse, Fault
<1>11. ASSUME NEW i \in Instance, Listen(i) PROVE Lateness'
  BY <1>11 DEF Listen
<1>12. ASSUME NEW i \in Instance, LinkDrops(i) PROVE Lateness'
  BY <1>12 DEF LinkDrops, Fault
<1>13. ASSUME NEW i \in Instance, Load(i) PROVE Lateness'
  BY <1>13 DEF Load
<1>14. ASSUME NEW i \in Instance, Hide(i) PROVE Lateness'
  BY <1>14 DEF Hide, Fault
<1>15. ASSUME NEW i \in Instance, Publish(i) PROVE Lateness'
  BY <1>15 DEF Publish, Registered
<1>16. ASSUME NEW i \in Instance, LoadFails(i) PROVE Lateness'
  BY <1>16 DEF LoadFails, Fault
<1>17. ASSUME NEW i \in Instance, Connect(i) PROVE Lateness'
  BY <1>17 DEF Connect
<1>18. CASE Add
  BY <1>18 DEF Add
<1>19. CASE Write
  BY <1>19 DEF Write
<1>20. CASE Close
  BY <1>20 DEF Close, Fault
<1>21. CASE Reload
  BY <1>21 DEF Reload
<1>22. CASE Serve
  BY <1>22 DEF Serve, Fault
<1>23. CASE Arrive
  BY <1>23 DEF Arrive
<1>24. CASE FetchFails
  BY <1>24 DEF FetchFails, Fault
<1>25. CASE ReadHere
  <2>1. \A m \in Note : row'[m] = "absent" => row[m] = "absent"
    BY <1>25 DEF ReadHere, Read
  <2>2. UNCHANGED <<late, decided>>
    BY <1>25 DEF ReadHere
  <2>3. QED
    BY <2>1, <2>2
<1>26. CASE ReadElsewhere
  <2>1. \A m \in Note : row'[m] = "absent" => row[m] = "absent"
    BY <1>26 DEF ReadElsewhere, Read
  <2>2. UNCHANGED <<late, decided>>
    BY <1>26 DEF ReadElsewhere
  <2>3. QED
    BY <2>1, <2>2
<1>27. CASE UNCHANGED vars
  BY <1>27 DEF vars
<1>28. QED
  BY <1>1, <1>2, <1>3, <1>4, <1>5, <1>6, <1>7, <1>8, <1>9, <1>10, <1>11, <1>12, <1>13, <1>14,
     <1>15, <1>16, <1>17, <1>18, <1>19, <1>20, <1>21, <1>22, <1>23, <1>24, <1>25, <1>26, <1>27
     DEF Next, Handler, Mailer, Fanout

(* Every step keeps DecidedIsNotPushed: the publisher lets a late request  *)
(* never through.                                                          *)
LEMMA StoppedStep ==
    TypeOK /\ Course /\ Lateness /\ DecidedIsNotPushed /\ [Next]_vars => DecidedIsNotPushed'
<1> SUFFICES ASSUME TypeOK, Course, Lateness, DecidedIsNotPushed, [Next]_vars
             PROVE  DecidedIsNotPushed'
  OBVIOUS
<1>t. pub \in [Instance -> Message \cup {Nothing}] /\ late \in [Note -> BOOLEAN]
  BY DEF TypeOK
<1> USE DEF DecidedIsNotPushed, eventVars, mailVars, hubVars, connVars, tabVars
<1>1. ASSUME NEW n \in Note, Record(n) PROVE DecidedIsNotPushed'
  BY <1>1 DEF Record
<1>2. ASSUME NEW n \in Note, Decide(n) PROVE DecidedIsNotPushed'
  BY <1>2 DEF Decide
<1>3. ASSUME NEW n \in Note, Check(n) PROVE DecidedIsNotPushed'
  BY <1>3 DEF Check
<1>4. ASSUME NEW n \in Note, Deliver(n) PROVE DecidedIsNotPushed'
  <2>1. CASE row[n] = "absent"
    <3>1. UNCHANGED <<pub, pushed>> /\ \A m \in Note : m # n => late'[m] = late[m]
      BY <1>4, <1>t, <2>1 DEF Deliver
    <3>2. \A i \in Instance : ~InHand(i, n) /\ <<i, n>> \notin pushed
      BY <2>1 DEF Course
    <3>3. QED
      BY <3>1, <3>2 DEF InHand
  <2>2. CASE row[n] # "absent"
    BY <1>4, <2>2 DEF Deliver
  <2>3. QED
    BY <2>1, <2>2
<1>5. ASSUME NEW n \in Note, HandlerFails(n) PROVE DecidedIsNotPushed'
  BY <1>5 DEF HandlerFails, Fault
<1>6. ASSUME NEW n \in Note, MailSkip(n) PROVE DecidedIsNotPushed'
  BY <1>6 DEF MailSkip
<1>7. ASSUME NEW n \in Note, MailSend(n) PROVE DecidedIsNotPushed'
  BY <1>7 DEF MailSend
<1>8. ASSUME NEW n \in Note, MailMark(n) PROVE DecidedIsNotPushed'
  BY <1>8 DEF MailMark
<1>9. ASSUME NEW n \in Note, MailSettle(n) PROVE DecidedIsNotPushed'
  BY <1>9 DEF MailSettle
<1>10. ASSUME NEW n \in Note, MailLapse(n) PROVE DecidedIsNotPushed'
  BY <1>10 DEF MailLapse, Fault
<1>11. ASSUME NEW i \in Instance, Listen(i) PROVE DecidedIsNotPushed'
  BY <1>11 DEF Listen
<1>12. ASSUME NEW i \in Instance, LinkDrops(i) PROVE DecidedIsNotPushed'
  BY <1>12 DEF LinkDrops, Fault
<1>13. ASSUME NEW i \in Instance, Load(i) PROVE DecidedIsNotPushed'
  <2>1. /\ UNCHANGED <<late, pushed>> /\ Eligible(Head(signals[i]))
        /\ signals[i] \in Seq(Note) /\ signals[i] # <<>>
    BY <1>13 DEF Load, TypeOK
  <2>2. pub'[i].id = Head(signals[i]) /\ (\A j \in Instance : j # i => pub'[j] = pub[j])
    BY <1>13, <1>t DEF Load
  <2>3. Head(signals[i]) \in Note
    BY <2>1
  <2>4. ~late[Head(signals[i])]
    BY <2>1, <2>3 DEF Eligible, Lateness
  <2>5. QED
    BY <2>1, <2>2, <2>4
<1>14. ASSUME NEW i \in Instance, Hide(i) PROVE DecidedIsNotPushed'
  BY <1>14 DEF Hide, Fault
<1>15. ASSUME NEW i \in Instance, Publish(i) PROVE DecidedIsNotPushed'
  <2>1. /\ pub[i] # Nothing /\ pub' = [pub EXCEPT ![i] = Nothing]
        /\ pushed' = pushed \cup {<<i, pub[i].id>>} /\ UNCHANGED late
    BY <1>15 DEF Publish
  <2>2. pub'[i] = Nothing /\ (\A j \in Instance : j # i => pub'[j] = pub[j])
    BY <2>1, <1>t
  <2>3. QED
    BY <2>1, <2>2
<1>16. ASSUME NEW i \in Instance, LoadFails(i) PROVE DecidedIsNotPushed'
  BY <1>16 DEF LoadFails, Fault
<1>17. ASSUME NEW i \in Instance, Connect(i) PROVE DecidedIsNotPushed'
  BY <1>17 DEF Connect
<1>18. CASE Add
  BY <1>18 DEF Add
<1>19. CASE Write
  BY <1>19 DEF Write
<1>20. CASE Close
  BY <1>20 DEF Close, Fault
<1>21. CASE Reload
  BY <1>21 DEF Reload
<1>22. CASE Serve
  BY <1>22 DEF Serve, Fault
<1>23. CASE Arrive
  BY <1>23 DEF Arrive
<1>24. CASE FetchFails
  BY <1>24 DEF FetchFails, Fault
<1>25. CASE ReadHere
  BY <1>25 DEF ReadHere, Read
<1>26. CASE ReadElsewhere
  BY <1>26 DEF ReadElsewhere, Read
<1>27. CASE UNCHANGED vars
  BY <1>27 DEF vars
<1>28. QED
  BY <1>1, <1>2, <1>3, <1>4, <1>5, <1>6, <1>7, <1>8, <1>9, <1>10, <1>11, <1>12, <1>13, <1>14,
     <1>15, <1>16, <1>17, <1>18, <1>19, <1>20, <1>21, <1>22, <1>23, <1>24, <1>25, <1>26, <1>27
     DEF Next, Handler, Mailer, Fanout

(* The instance that empties its hand has not pushed that notification.    *)
LEMMA PushStep ==
    ASSUME Course, TypeOK
    PROVE  \A i \in Instance :
             (pub[i] # Nothing /\ pub'[i] = Nothing) => <<i, pub[i].id>> \notin pushed
<1> SUFFICES ASSUME NEW i \in Instance, pub[i] # Nothing PROVE <<i, pub[i].id>> \notin pushed
  OBVIOUS
<1>1. pub[i].id \in Note
  BY DEF TypeOK, Message
<1>2. QED
  BY <1>1 DEF Course, InHand

(* Initially nothing is signalled, in hand or pushed.                      *)
LEMMA CourseInit == Init => Course /\ Lateness /\ DecidedIsNotPushed
BY DEF Init, Course, Lateness, DecidedIsNotPushed, Among, Distinct, InHand

(* PushedOnce, for every number of instances and reconnects.               *)
THEOREM PushesOnce == Spec => PushedOnce
<1>1. Spec => []Course
  BY CourseInit, CourseStep, TypeCorrect, PTL DEF Spec
<1>2. Course /\ TypeOK => [\A i \in Instance :
         (pub[i] # Nothing /\ pub'[i] = Nothing) => <<i, pub[i].id>> \notin pushed]_vars
  BY PushStep
<1>3. QED
  BY <1>1, <1>2, TypeCorrect, PTL DEF PushedOnce

(* DecidedIsNotPushed, for every number of requests and instances.         *)
THEOREM DecidedAreNotPushed == Spec => []DecidedIsNotPushed
<1>1. Spec => [](TypeOK /\ Course /\ Lateness)
  BY CourseInit, CourseStep, LatenessStep, TypeCorrect, PTL DEF Spec
<1>2. QED
  BY <1>1, CourseInit, StoppedStep, PTL DEF Spec
=============================================================================
