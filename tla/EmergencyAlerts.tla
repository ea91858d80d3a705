-------------------------- MODULE EmergencyAlerts ----------------------------
(***************************************************************************)
(* One incident of one user who has been inactive for longer than the      *)
(* warning allows. Every process runs the hourly job and anybody may ask   *)
(* for the check; a row of emergency_alert_logs, reserved for five         *)
(* minutes, says who delivers. Each contact gets a durable message, keyed  *)
(* by the incident, and a transient alert, remembered by a receipt that is *)
(* written after it. A run may fail at any contact, outlast its            *)
(* reservation, or die with its process.                                   *)
(*                                                                         *)
(* External: sending the message is a command of MessageLog; its key makes *)
(* a repetition take no effect.                                            *)
(***************************************************************************)
EXTENDS Integers, FiniteSets

CONSTANTS
    Contact,        \* the user's emergency contacts
    Check,          \* runs of checkInactivity; each may run again
    Place,          \* the process of a run
    Inactive,       \* values of "the threshold is passed"
    MaxMishaps      \* bound on failures and crashes

ASSUME AlertAssumption == MaxMishaps \in Nat /\ "nobody" \notin Contact /\ Inactive \subseteq BOOLEAN

VARIABLES
    due,        \* the user has been inactive for too long
    reserved,   \* the row: none, pending, completed
    lease,      \* lease_until lies in the future
    contacts,   \* emergency_contacts of the user
    messages,   \* contacts that have the durable message
    receipts,   \* emergency_alert_deliveries
    alerts,     \* alerts published to a contact: 0, 1, or 2 for more
    check,      \* where a run is
    overlapped, \* a reservation ended under a run that was still at work,
                \* or a run or its receipt did not get through (history)
    mishaps     \* counted for the bound

evars == <<due, reserved, lease, contacts, messages, receipts, alerts, check,
           overlapped, mishaps>>

-----------------------------------------------------------------------------
\* todo are the contacts still to be tried, at the one being delivered to.
Asleep == [step |-> "asleep", todo |-> {}, at |-> "nobody", failed |-> FALSE]

AlertInit ==
    /\ due \in Inactive
    /\ reserved = "none" /\ lease = FALSE
    /\ contacts = Contact /\ messages = {} /\ receipts = {}
    /\ alerts = [c \in Contact |-> 0]
    /\ check = [k \in Check |-> Asleep]
    /\ overlapped = FALSE /\ mishaps = 0

Goto(k, step) == check' = [check EXCEPT ![k].step = step]

Log == <<reserved, lease>>
Delivered == <<messages, receipts, alerts>>

-----------------------------------------------------------------------------
\* recordAlertIfNew: an insert, and where there was a row an update that takes
\* over a reservation that has run out.
InsertAlert(k) ==
    /\ due /\ check[k].step = "asleep"
    /\ IF reserved = "none"
       THEN reserved' = "pending" /\ lease' = TRUE /\ Goto(k, "list")
       ELSE UNCHANGED Log /\ Goto(k, "reclaim")
    /\ UNCHANGED <<due, contacts, overlapped, mishaps, Delivered>>

\* Mutant: a reservation is its run's for ever.
NeverReclaimed == FALSE

Reclaimable == reserved = "pending" /\ ~lease

ReclaimAlert(k) ==
    /\ check[k].step = "reclaim"
    /\ IF Reclaimable
       THEN lease' = TRUE /\ Goto(k, "list")
       ELSE UNCHANGED lease /\ Goto(k, "asleep")
    /\ UNCHANGED <<due, reserved, contacts, overlapped, mishaps, Delivered>>

\* notifyContacts lists the contacts; nobody to tell is no delivery.
ListContacts(k) ==
    /\ check[k].step = "list"
    /\ check' = [check EXCEPT ![k].todo = contacts,
                              ![k].step = IF contacts = {} THEN "release" ELSE "next",
                              ![k].failed = FALSE]
    /\ UNCHANGED <<due, contacts, overlapped, mishaps, Log, Delivered>>

\* withContactLock holds the runs of one process apart; the contact is looked
\* up again under it.
Unlocked(k, c) == \A j \in Check \ {k} : Place[j] = Place[k] => check[j].at # c

BeginContact(k, c) ==
    /\ check[k].step = "next" /\ c \in check[k].todo /\ Unlocked(k, c)
    /\ check' = [check EXCEPT ![k].todo = @ \ {c},
                              ![k].at = IF c \in contacts THEN c ELSE "nobody",
                              ![k].step = IF c \in contacts THEN "message" ELSE "next"]
    /\ UNCHANGED <<due, contacts, overlapped, mishaps, Log, Delivered>>

SendDurably(k) ==
    /\ check[k].step = "message"
    /\ messages' = messages \cup {check[k].at}
    /\ Goto(k, "receipt")
    /\ UNCHANGED <<due, contacts, receipts, alerts, overlapped, mishaps, Log>>

\* The receipt decides whether the alert goes out. Publishing and writing the
\* receipt are two steps, in this order.
\* Mutant: a contact with the message is taken to have had the alert.
AlertedByMessage(c) == c \in messages

AlreadyAlerted(c) == c \in receipts

DoneWith(k) == [check[k] EXCEPT !.at = "nobody", !.step = "next"]

PublishAlert(k) ==
    LET c == check[k].at IN
    /\ check[k].step = "receipt"
    /\ IF AlreadyAlerted(c)
       THEN check' = [check EXCEPT ![k] = DoneWith(k)] /\ UNCHANGED alerts
       ELSE /\ alerts' = [alerts EXCEPT ![c] = IF @ = 2 THEN 2 ELSE @ + 1]
            /\ Goto(k, "record")
    /\ UNCHANGED <<due, contacts, messages, receipts, overlapped, mishaps, Log>>

RecordDelivery(k) ==
    /\ check[k].step = "record"
    /\ receipts' = receipts \cup {check[k].at}
    /\ check' = [check EXCEPT ![k] = DoneWith(k)]
    /\ UNCHANGED <<due, contacts, messages, alerts, overlapped, mishaps, Log>>

\* A delivery fails, by the database or because the contact has blocked the
\* user; the other contacts are still tried.
FailContact(k) ==
    /\ check[k].step \in {"message", "receipt", "record"} /\ mishaps < MaxMishaps
    /\ mishaps' = mishaps + 1
    /\ overlapped' = (overlapped \/ check[k].step = "record")
    /\ check' = [check EXCEPT ![k] = [DoneWith(k) EXCEPT !.failed = TRUE]]
    /\ UNCHANGED <<due, contacts, Log, Delivered>>

-----------------------------------------------------------------------------
\* The end of a run: a delivery that failed is retried by a later run.
EndContacts(k) ==
    /\ check[k].step = "next" /\ check[k].todo = {}
    /\ Goto(k, IF check[k].failed THEN "release" ELSE "complete")
    /\ UNCHANGED <<due, contacts, overlapped, mishaps, Log, Delivered>>

\* The update names the incident and not the run.
CompleteAlert(k) ==
    /\ check[k].step = "complete"
    /\ reserved' = IF reserved = "none" THEN "none" ELSE "completed"
    /\ lease' = FALSE
    /\ Goto(k, "asleep")
    /\ UNCHANGED <<due, contacts, overlapped, mishaps, Delivered>>

ReleaseAlert(k) ==
    /\ check[k].step = "release"
    /\ reserved' = IF reserved = "pending" THEN "none" ELSE reserved
    /\ lease' = FALSE
    /\ overlapped' = (overlapped \/ \E j \in Check \ {k} :
                          check[j].step \notin {"asleep", "reclaim"})
    /\ Goto(k, "asleep")
    /\ UNCHANGED <<due, contacts, mishaps, Delivered>>

\* Listing or completing fails: the row is released. Releasing fails: the
\* reservation has to run out.
FailRun(k) ==
    /\ check[k].step \in {"list", "complete", "release"} /\ mishaps < MaxMishaps
    /\ mishaps' = mishaps + 1
    /\ Goto(k, IF check[k].step = "release" THEN "asleep" ELSE "release")
    /\ UNCHANGED <<due, contacts, overlapped, Log, Delivered>>

\* The process dies.
CrashRun(k) ==
    /\ check[k].step # "asleep" /\ mishaps < MaxMishaps
    /\ mishaps' = mishaps + 1
    /\ check' = [check EXCEPT ![k] = Asleep]
    /\ overlapped' = (overlapped \/ check[k].step = "record")
    /\ UNCHANGED <<due, contacts, Log, Delivered>>

\* Five minutes have passed since the reservation was made or taken over.
LeaseRunsOut ==
    /\ reserved = "pending" /\ lease
    /\ lease' = FALSE
    /\ overlapped' = (overlapped \/ \E k \in Check :
                          check[k].step \notin {"asleep", "reclaim"})
    /\ UNCHANGED <<due, reserved, contacts, check, mishaps, Delivered>>

RemoveContact(c) ==
    /\ due /\ contacts = Contact
    /\ contacts' = contacts \ {c}
    /\ UNCHANGED <<due, check, overlapped, mishaps, Log, Delivered>>

GoOn(k) ==
    \/ InsertAlert(k) \/ ReclaimAlert(k) \/ ListContacts(k)
    \/ \E c \in Contact : BeginContact(k, c)
    \/ SendDurably(k) \/ PublishAlert(k) \/ RecordDelivery(k)
    \/ EndContacts(k) \/ CompleteAlert(k) \/ ReleaseAlert(k)

AlertNext ==
    \/ \E k \in Check : GoOn(k) \/ FailContact(k) \/ FailRun(k) \/ CrashRun(k)
    \/ LeaseRunsOut
    \/ \E c \in Contact : RemoveContact(c)

\* The job comes round every hour, runs go on, and five minutes pass.
AlertFairness ==
    /\ \A k \in Check : WF_evars(GoOn(k))
    /\ WF_evars(LeaseRunsOut)

AlertSpec == AlertInit /\ [][AlertNext]_evars /\ AlertFairness

-----------------------------------------------------------------------------
\* Every variable has its type.
AlertTypeOK ==
    /\ due \in BOOLEAN /\ lease \in BOOLEAN /\ overlapped \in BOOLEAN
    /\ reserved \in {"none", "pending", "completed"}
    /\ {contacts, messages, receipts} \subseteq SUBSET Contact
    /\ alerts \in [Contact -> 0..2]
    /\ \A k \in Check :
         /\ check[k].step \in {"asleep", "reclaim", "list", "next", "message",
                               "receipt", "record", "complete", "release"}
         /\ check[k].at \in Contact \cup {"nobody"}

\* No alert is lost: once an incident is completed, and is not taken up again,
\* every contact the user still has was sent the message and the alert,
\* whatever failed, overlapped or died before.
NoAlertLost ==
    reserved = "completed" =>
        \A c \in contacts : c \in messages /\ alerts[c] > 0

\* An incident that is retried for one contact does not alert another again:
\* twice only if a run outlived its reservation, or stopped between the alert
\* and its receipt.
AlertedOnce == ~overlapped => \A c \in Contact : alerts[c] <= 1

\* A retried incident reaches those who were not told, and only them.
EachAlertedOnce == NoAlertLost /\ AlertedOnce

\* In the end the incident is completed, if there is anybody to tell.
IncidentCloses == <>[](due => reserved = "completed" \/ contacts = {})
=============================================================================
