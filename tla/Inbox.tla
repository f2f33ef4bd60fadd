------------------------------- MODULE Inbox -------------------------------
(***************************************************************************)
(* One user's notifications, from the outbox event to the badge on the     *)
(* screen: the handler that turns an event into a row (httpapi/outbox.go), *)
(* the signals that the instances listen for, the WebSocket hub            *)
(* (httpapi/ws.go), the e-mail that may follow, and the tab, which counts  *)
(* live frames and reconciles with the durable summary (AppShell.tsx).     *)
(*                                                                         *)
(* A recorded event may be handled again and again (module Outbox); a      *)
(* notification has the identity of its event.  The user has one tab; it   *)
(* is connected to one instance at a time.                                 *)
(***************************************************************************)
EXTENDS Naturals, Sequences, FiniteSets

CONSTANTS
    Note,        \* outbox events, and the notifications they become
    Approval,    \* those that ask a reviewer for a decision
    Emailed,     \* those for which the preferences ask for an e-mail
    Instance,    \* server processes
    Nothing,     \* the publisher has no notification in hand
    Unknown,     \* the summary has not been loaded
    Capacity,    \* length of a client's queue
    MaxFaults    \* bound: failures, crashes and lost connections

ASSUME InboxAssumption ==
    /\ IsFiniteSet(Note)
    /\ Approval \subseteq Note
    /\ Emailed \subseteq Note
    /\ Nothing \notin [id : Note, shown : BOOLEAN]
    /\ Unknown \notin Nat
    /\ Capacity \in Nat \ {0}
    /\ MaxFaults \in Nat

VARIABLES
    (* the database *)
    event,     \* [Note -> whether the event waits for a handler]
    run,       \* [Note -> how far its handler is]
    decided,   \* [Note -> whether its approval request is decided]
    row,       \* [Note -> the notification row]
    mail,      \* [Note -> the e-mail event]
    (* the instances *)
    link,      \* [Instance -> its LISTEN connection]
    signals,   \* [Instance -> signals received, oldest first]
    pub,       \* [Instance -> what publishNotificationSignals has in hand]
    (* the connection of the tab *)
    phase,     \* closed, accepted, registered in the hub, or cancelled
    at,        \* the instance it was accepted by
    queue,     \* notificationClient.queue
    (* the tab *)
    badge,     \* unread, as shown
    summary,   \* notificationSummary.data
    fetch,     \* the request for the summary
    answer,    \* the count in its response
    (* history and bounds *)
    late,      \* [Note -> the request was decided before the row existed]
    pushed,    \* <<instance, notification>> given to a hub
    due,       \* published to this connection and not yet written to it
    sent,      \* [Note -> messages that the SMTP server accepted]
    lapses,    \* [Note -> acceptances that were not recorded]
    faults

eventVars == <<event, run, decided>>
mailVars == <<mail, sent, lapses>>
hubVars == <<link, signals, pub>>
connVars == <<phase, at, queue, due>>
tabVars == <<badge, summary, fetch, answer>>
vars == <<eventVars, row, mailVars, hubVars, connVars, tabVars, late, pushed, faults>>

Message == [id : Note, shown : BOOLEAN]

Unread == Cardinality({n \in Note : row[n] = "unread"})

Fault == faults < MaxFaults /\ faults' = faults + 1

Init ==
    /\ event = [n \in Note |-> "none"]
    /\ run = [n \in Note |-> "idle"]
    /\ decided = [n \in Note |-> FALSE]
    /\ row = [n \in Note |-> "absent"]
    /\ mail = [n \in Note |-> "none"]
    /\ link = [i \in Instance |-> "down"]
    /\ signals = [i \in Instance |-> <<>>]
    /\ pub = [i \in Instance |-> Nothing]
    /\ phase = "closed"
    /\ at \in Instance
    /\ queue = <<>>
    /\ badge = 0
    /\ summary = Unknown
    /\ fetch = "asked"   \* the request of the first mount
    /\ answer = 0
    /\ late = [n \in Note |-> FALSE]
    /\ pushed = {}
    /\ due = {}
    /\ sent = [n \in Note |-> 0]
    /\ lapses = [n \in Note |-> 0]
    /\ faults = 0

-----------------------------------------------------------------------------
(* The business transaction and the outbox handler.                        *)

(* enqueueNotification.                                                    *)
Record(n) ==
    /\ event[n] = "none"
    /\ event' = [event EXCEPT ![n] = "pending"]
    /\ UNCHANGED <<run, decided, row, mailVars, hubVars, connVars, tabVars, late, pushed, faults>>

(* The approval request is decided, which is final.                        *)
Decide(n) ==
    /\ n \in Approval
    /\ event[n] # "none"
    /\ ~decided[n]
    /\ decided' = [decided EXCEPT ![n] = TRUE]
    /\ UNCHANGED <<event, run, row, mailVars, hubVars, connVars, tabVars, late, pushed, faults>>

(* approvalNotificationEligible, for a request to decide.                  *)
Eligible(n) == n \in Approval => ~decided[n]

(* The first half of handleOutboxEvent: eligibility and preferences.       *)
Check(n) ==
    /\ event[n] = "pending" /\ run[n] = "idle"
    /\ IF Eligible(n)
       THEN run' = [run EXCEPT ![n] = "checked"] /\ UNCHANGED event
       ELSE event' = [event EXCEPT ![n] = "done"] /\ UNCHANGED run
    /\ UNCHANGED <<decided, row, mailVars, hubVars, connVars, tabVars, late, pushed, faults>>

(* PublishNotificationSignal: who listens at the commit receives it.       *)
Signal(n) ==
    signals' = [i \in Instance |->
                  IF link[i] = "up" THEN Append(signals[i], n) ELSE signals[i]]

(* The event is settled, or the worker's mark is lost and it comes again.  *)
Settle(n) ==
    \/ event' = [event EXCEPT ![n] = "done"] /\ UNCHANGED faults
    \/ Fault /\ UNCHANGED event

(* Mutant: the signal does not depend on the row having been inserted.     *)
DeliverSignalsAgain(n) ==
    /\ run[n] = "checked"
    /\ run' = [run EXCEPT ![n] = "idle"]
    /\ Settle(n)
    /\ row' = [row EXCEPT ![n] = IF @ = "absent" THEN "unread" ELSE @]
    /\ Signal(n)
    /\ late' = [late EXCEPT ![n] = IF row[n] = "absent" THEN decided[n] ELSE @]
    /\ UNCHANGED <<decided, mailVars, link, pub, connVars, tabVars, pushed>>

(* The second half: the row, the e-mail event and the signal commit        *)
(* together, unless an earlier run has inserted the row.                   *)
Deliver(n) ==
    /\ run[n] = "checked"
    /\ run' = [run EXCEPT ![n] = "idle"]
    /\ Settle(n)
    /\ \/ /\ row[n] = "absent"
          /\ \E shown \in (IF n \in Approval THEN {TRUE} ELSE BOOLEAN) :
                /\ row' = [row EXCEPT ![n] = IF shown THEN "unread" ELSE "hidden"]
                /\ mail' = IF shown /\ n \in Emailed
                           THEN [mail EXCEPT ![n] = "queued"] ELSE mail
          /\ Signal(n)
          /\ late' = [late EXCEPT ![n] = decided[n]]
       \/ row[n] # "absent" /\ UNCHANGED <<row, mail, signals, late>>
    /\ UNCHANGED <<decided, sent, lapses, link, pub, connVars, tabVars, pushed>>

(* The transaction fails or the worker stops: the event is tried again.    *)
HandlerFails(n) ==
    /\ run[n] = "checked"
    /\ Fault
    /\ run' = [run EXCEPT ![n] = "idle"]
    /\ UNCHANGED <<event, decided, row, mailVars, hubVars, connVars, tabVars, late, pushed>>

-----------------------------------------------------------------------------
(* handleNotificationEmailEvent.                                           *)

(* SMTP is off, or the preferences or the address have changed.            *)
MailSkip(n) ==
    /\ mail[n] = "queued"
    /\ mail' = [mail EXCEPT ![n] = "done"]
    /\ UNCHANGED <<eventVars, row, sent, lapses, hubVars, connVars, tabVars, late, pushed, faults>>

(* Mutant: emailed_at is not looked at.                                    *)
MailSendMarked(n) ==
    /\ mail[n] \in {"queued", "marked"}
    /\ sent[n] < MaxFaults + 2
    /\ mail' = [mail EXCEPT ![n] = "accepted"]
    /\ sent' = [sent EXCEPT ![n] = @ + 1]
    /\ UNCHANGED <<eventVars, row, lapses, hubVars, connVars, tabVars, late, pushed, faults>>

(* emailed_at is empty and the server accepts the message.                 *)
MailSend(n) ==
    /\ mail[n] = "queued"
    /\ mail' = [mail EXCEPT ![n] = "accepted"]
    /\ sent' = [sent EXCEPT ![n] = @ + 1]
    /\ UNCHANGED <<eventVars, row, lapses, hubVars, connVars, tabVars, late, pushed, faults>>

MailMark(n) ==
    /\ mail[n] = "accepted"
    /\ mail' = [mail EXCEPT ![n] = "marked"]
    /\ UNCHANGED <<eventVars, row, sent, lapses, hubVars, connVars, tabVars, late, pushed, faults>>

(* QUIT fails, the mark fails or the worker stops after the acceptance.    *)
MailLapse(n) ==
    /\ mail[n] = "accepted"
    /\ Fault
    /\ mail' = [mail EXCEPT ![n] = "queued"]
    /\ lapses' = [lapses EXCEPT ![n] = @ + 1]
    /\ UNCHANGED <<eventVars, row, sent, hubVars, connVars, tabVars, late, pushed>>

(* A run that finds emailed_at ends the event.                             *)
MailSettle(n) ==
    /\ mail[n] = "marked"
    /\ mail' = [mail EXCEPT ![n] = "done"]
    /\ UNCHANGED <<eventVars, row, sent, lapses, hubVars, connVars, tabVars, late, pushed, faults>>

-----------------------------------------------------------------------------
(* ListenNotificationSignals and publishNotificationSignals.               *)

Listen(i) ==
    /\ link[i] = "down"
    /\ link' = [link EXCEPT ![i] = "up"]
    /\ UNCHANGED <<eventVars, row, mailVars, signals, pub, connVars, tabVars, late, pushed, faults>>

(* What the channel holds stays, what the connection holds is lost.        *)
LinkDrops(i) ==
    /\ link[i] = "up"
    /\ Fault
    /\ link' = [link EXCEPT ![i] = "down"]
    /\ \E k \in 0..Len(signals[i]) :
          signals' = [signals EXCEPT ![i] = SubSeq(signals[i], 1, k)]
    /\ UNCHANGED <<eventVars, row, mailVars, pub, connVars, tabVars, late, pushed>>

(* Mutant: the publisher relies on the handler's check.                    *)
LoadUnchecked(i) ==
    /\ pub[i] = Nothing /\ signals[i] # <<>>
    /\ LET n == Head(signals[i]) IN
         pub' = [pub EXCEPT ![i] = [id |-> n, shown |-> row[n] # "hidden"]]
    /\ signals' = [signals EXCEPT ![i] = Tail(@)]
    /\ UNCHANGED <<eventVars, row, mailVars, link, connVars, tabVars, late, pushed, faults>>

(* The row is loaded and eligibility is verified once more.                *)
Load(i) ==
    /\ pub[i] = Nothing /\ signals[i] # <<>>
    /\ LET n == Head(signals[i]) IN
         /\ Eligible(n)
         /\ pub' = [pub EXCEPT ![i] = [id |-> n, shown |-> row[n] # "hidden"]]
    /\ signals' = [signals EXCEPT ![i] = Tail(@)]
    /\ UNCHANGED <<eventVars, row, mailVars, link, connVars, tabVars, late, pushed, faults>>

(* A reviewer who may no longer decide, or whose policy cannot be read,    *)
(* loses the row.                                                          *)
Hide(i) ==
    /\ pub[i] = Nothing /\ signals[i] # <<>>
    /\ LET n == Head(signals[i]) IN
         /\ n \in Approval
         /\ \/ decided[n] /\ UNCHANGED faults
            \/ Fault
         /\ row' = [row EXCEPT ![n] = "hidden"]
    /\ signals' = [signals EXCEPT ![i] = Tail(@)]
    /\ UNCHANGED <<eventVars, mailVars, link, pub, connVars, tabVars, late, pushed>>

(* The row cannot be read, the signal is dropped.                          *)
LoadFails(i) ==
    /\ pub[i] = Nothing /\ signals[i] # <<>>
    /\ Fault
    /\ signals' = [signals EXCEPT ![i] = Tail(@)]
    /\ UNCHANGED <<eventVars, row, mailVars, link, pub, connVars, tabVars, late, pushed>>

Registered(i) == phase \in {"live", "cancelled"} /\ at = i

(* Mutant: a full queue drops the notification and keeps the connection.   *)
PublishDropping(i) ==
    /\ pub[i] # Nothing
    /\ pushed' = pushed \cup {<<i, pub[i].id>>}
    /\ pub' = [pub EXCEPT ![i] = Nothing]
    /\ due' = IF Registered(i) THEN due \cup {pub[i].id} ELSE due
    /\ queue' = IF Registered(i) /\ Len(queue) < Capacity
                THEN Append(queue, pub[i]) ELSE queue
    /\ UNCHANGED <<eventVars, row, mailVars, link, signals, phase, at, tabVars, late, faults>>

(* notificationHub.publish: a full queue cancels the connection.           *)
Publish(i) ==
    /\ pub[i] # Nothing
    /\ pushed' = pushed \cup {<<i, pub[i].id>>}
    /\ pub' = [pub EXCEPT ![i] = Nothing]
    /\ \/ /\ Registered(i) /\ Len(queue) < Capacity
          /\ queue' = Append(queue, pub[i])
          /\ due' = due \cup {pub[i].id}
          /\ UNCHANGED phase
       \/ /\ Registered(i) /\ Len(queue) >= Capacity
          /\ phase' = "cancelled"
          /\ due' = due \cup {pub[i].id}
          /\ UNCHANGED queue
       \/ ~Registered(i) /\ UNCHANGED <<phase, queue, due>>
    /\ UNCHANGED <<eventVars, row, mailVars, link, signals, at, tabVars, late, faults>>

-----------------------------------------------------------------------------
(* notificationsWebSocket and the tab's socket.                            *)

(* Accepted; onopen reloads the summary, perhaps before the hub knows.     *)
Connect(i) ==
    /\ phase = "closed"
    /\ phase' = "open" /\ at' = i
    /\ fetch' = "asked"
    /\ UNCHANGED <<eventVars, row, mailVars, hubVars, queue, due, badge, summary, answer, late, pushed, faults>>

Add ==
    /\ phase = "open"
    /\ phase' = "live"
    /\ UNCHANGED <<eventVars, row, mailVars, hubVars, at, queue, due, tabVars, late, pushed, faults>>

(* A frame reaches the tab, which counts it unless it is not for the list. *)
Write ==
    /\ phase = "live" /\ queue # <<>>
    /\ queue' = Tail(queue)
    /\ due' = due \ {Head(queue).id}
    /\ badge' = IF Head(queue).shown THEN badge + 1 ELSE badge
    /\ UNCHANGED <<eventVars, row, mailVars, hubVars, phase, at, summary, fetch, answer, late, pushed, faults>>

(* Cancelled, or the network fails.                                        *)
Close ==
    /\ \/ phase = "cancelled" /\ UNCHANGED faults
       \/ phase \in {"open", "live"} /\ Fault
    /\ phase' = "closed"
    /\ queue' = <<>> /\ due' = {}
    /\ UNCHANGED <<eventVars, row, mailVars, hubVars, at, tabVars, late, pushed>>

-----------------------------------------------------------------------------
(* The summary: useApiQuery("/notifications?limit=1").                     *)

(* Mutant: the summary is only loaded when the socket opens.               *)
ReloadNever == FALSE /\ UNCHANGED vars

(* Every minute; a request under way is abandoned.                         *)
Reload ==
    /\ fetch' = "asked"
    /\ UNCHANGED <<eventVars, row, mailVars, hubVars, connVars, badge, summary, answer, late, pushed, faults>>

(* listNotifications counts the unread rows; an error of that query is     *)
(* ignored, and the count is then zero.                                    *)
Serve ==
    /\ fetch = "asked"
    /\ fetch' = "served"
    /\ \/ answer' = Unread /\ UNCHANGED faults
       \/ answer' = 0 /\ Fault
    /\ UNCHANGED <<eventVars, row, mailVars, hubVars, connVars, badge, summary, late, pushed>>

(* The badge is set by an effect that runs when the summary's count has    *)
(* changed.                                                                *)
Arrive ==
    /\ fetch = "served"
    /\ fetch' = "none" /\ answer' = 0
    /\ summary' = answer
    /\ badge' = IF answer # summary THEN answer ELSE badge
    /\ UNCHANGED <<eventVars, row, mailVars, hubVars, connVars, late, pushed, faults>>

FetchFails ==
    /\ fetch # "none"
    /\ Fault
    /\ fetch' = "none" /\ answer' = 0
    /\ UNCHANGED <<eventVars, row, mailVars, hubVars, connVars, badge, summary, late, pushed>>

(* readNotifications, some or all; the mutation of this tab invalidates    *)
(* the summary, which is loaded again.                                     *)
Read(read) ==
    /\ read # {}
    /\ \A n \in read : row[n] = "unread"
    /\ row' = [n \in Note |-> IF n \in read THEN "read" ELSE row[n]]

ReadHere ==
    /\ \E read \in SUBSET Note : Read(read)
    /\ fetch' = "asked"
    /\ UNCHANGED <<eventVars, mailVars, hubVars, connVars, badge, summary, answer, late, pushed, faults>>

ReadElsewhere ==
    /\ \E read \in SUBSET Note : Read(read)
    /\ UNCHANGED <<eventVars, mailVars, hubVars, connVars, tabVars, late, pushed, faults>>

-----------------------------------------------------------------------------
Handler(n) == Check(n) \/ Deliver(n)
Mailer(n) == MailSkip(n) \/ MailSend(n) \/ MailMark(n) \/ MailSettle(n)
Fanout(i) == Load(i) \/ Hide(i) \/ Publish(i)

Next ==
    \/ \E n \in Note : \/ Record(n) \/ Decide(n) \/ Handler(n) \/ HandlerFails(n)
                       \/ Mailer(n) \/ MailLapse(n)
    \/ \E i \in Instance : \/ Listen(i) \/ LinkDrops(i) \/ Fanout(i) \/ LoadFails(i)
                           \/ Connect(i)
    \/ Add \/ Write \/ Close
    \/ Reload \/ Serve \/ Arrive \/ FetchFails
    \/ ReadHere \/ ReadElsewhere

Spec == Init /\ [][Next]_vars

(* Workers, listeners and publishers run; the tab's timer fires, and a     *)
(* request is answered if it is asked again and again.  Nothing is assumed *)
(* of the socket, of the user and of failures.                             *)
FairSpec ==
    /\ Spec
    /\ \A n \in Note : WF_vars(Handler(n))
    /\ \A i \in Instance : WF_vars(Fanout(i))
    /\ WF_vars(Reload) /\ SF_vars(Serve) /\ SF_vars(Arrive)
    /\ WF_vars(Add) /\ WF_vars(Write)

-----------------------------------------------------------------------------
(* The rows, the hub, the connection and the tab stay within their types.  *)
TypeOK ==
    /\ event \in [Note -> {"none", "pending", "done"}]
    /\ run \in [Note -> {"idle", "checked"}]
    /\ decided \in [Note -> BOOLEAN]
    /\ row \in [Note -> {"absent", "unread", "read", "hidden"}]
    /\ mail \in [Note -> {"none", "queued", "accepted", "marked", "done"}]
    /\ link \in [Instance -> {"down", "up"}]
    /\ signals \in [Instance -> Seq(Note)]
    /\ pub \in [Instance -> Message \cup {Nothing}]
    /\ phase \in {"closed", "open", "live", "cancelled"}
    /\ at \in Instance
    /\ queue \in Seq(Message)
    /\ badge \in Nat
    /\ summary \in Nat \cup {Unknown}
    /\ fetch \in {"none", "asked", "served"}
    /\ answer \in Nat
    /\ late \in [Note -> BOOLEAN]
    /\ pushed \subseteq Instance \X Note
    /\ due \subseteq Note
    /\ sent \in [Note -> Nat]
    /\ lapses \in [Note -> Nat]
    /\ faults \in 0..MaxFaults

(* While a connection lives, a notification published to it is on its way  *)
(* in the queue: nothing is dropped in silence, the alternative is a       *)
(* cancelled connection (notificationHub.publish).                         *)
NothingDropped ==
    phase = "live" => \A n \in due : \E k \in DOMAIN queue : queue[k].id = n

(* A request that was decided while its notification was being delivered   *)
(* is never shown as a live notification: the publisher's second check     *)
(* closes the gap between the handler's check and its commit.              *)
DecidedIsNotPushed ==
    \A n \in Note : late[n] =>
        \A i \in Instance : <<i, n>> \notin pushed /\ (pub[i] # Nothing => pub[i].id # n)

(* An instance gives a notification to its hub at most once, however often *)
(* the event is handled.                                                   *)
PushedOnce ==
    [][\A i \in Instance :
         (pub[i] # Nothing /\ pub'[i] = Nothing) => <<i, pub[i].id>> \notin pushed]_vars

(* The SMTP server is given a message again only after an acceptance that  *)
(* could not be recorded.                                                  *)
MailOncePerLapse == \A n \in Note : sent[n] <= 1 + lapses[n]

(* "The reconnect path reloads the durable unread summary, so overflow     *)
(* cannot permanently lose state": whatever frames are lost, doubled or    *)
(* late, the tab ends up with the durable count.                           *)
SummaryFollows == <>[](summary = Unread)
=============================================================================
